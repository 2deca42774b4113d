----------------------- MODULE BacktestHistoryProofs -----------------------
(***************************************************************************)
(* Proofs about HistoryBackfill and BacktestHistory: the windows that are  *)
(* planned tile the range, so that a backfill or a download that is done   *)
(* at once leaves nothing out, and a refresh joins the cache it refreshes. *)
(***************************************************************************)
EXTENDS BacktestHistory, WellFoundedInduction, TLAPS

-----------------------------------------------------------------------------
(* The plan.                                                               *)

\* The windows end a multiple of MaxWindow days back, within the days asked for.
Planned(n, back) == back < n /\ \E k \in Nat : back = k * MaxWindow

\* What the windows before this one cover.
Before(t, n, back) ==
    {m \in Moment : t - PerDay * n < m /\ m <= t - PerDay * (back + Duration(n, back))}

\* The first window begins where the range begins.
LEMMA PlanStarts ==
    ASSUME NEW n \in Nat \ {0}
    PROVE  /\ Planned(n, OldestDelay(n))
           /\ OldestDelay(n) \in Nat
           /\ OldestDelay(n) + Duration(n, OldestDelay(n)) = n
<1> DEFINE k == (n - 1) \div MaxWindow
<1>1. MaxWindow \in Nat /\ MaxWindow > 0
  BY SpanAssumption
<1>2. k \in Nat /\ k * MaxWindow <= n - 1 /\ n - 1 < k * MaxWindow + MaxWindow
  BY <1>1
<1>3. k * MaxWindow \in Nat
  BY <1>1, <1>2
<1> HIDE DEF k
<1>4. OldestDelay(n) = k * MaxWindow
  BY DEF OldestDelay, k
<1>5. OldestDelay(n) < n /\ ~(MaxWindow < n - OldestDelay(n))
  BY <1>1, <1>2, <1>3, <1>4
<1>6. QED
  BY <1>2, <1>3, <1>4, <1>5 DEF Planned, Duration

\* The next one begins where this one ends, and the last one ends at the present.
LEMMA PlanContinues ==
    ASSUME NEW n \in Nat, NEW back, Planned(n, back)
    PROVE  /\ back \in Nat
           /\ back - MaxWindow < 0 => back = 0
           /\ back - MaxWindow >= 0 =>
                  /\ Planned(n, back - MaxWindow)
                  /\ back - MaxWindow + Duration(n, back - MaxWindow) = back
<1>1. MaxWindow \in Nat /\ MaxWindow > 0
  BY SpanAssumption
<1>2. PICK k \in Nat : back = k * MaxWindow
  BY DEF Planned
<1>3. back \in Nat
  BY <1>1, <1>2
<1>4. back < n
  BY DEF Planned
<1>5. k > 0 => k - 1 \in Nat /\ (k - 1) * MaxWindow = back - MaxWindow /\ (k - 1) * MaxWindow \in Nat
  BY <1>1, <1>2
<1>6. k = 0 => back = 0
  BY <1>1, <1>2
<1>7. k = 0 \/ k > 0
  OBVIOUS
<1>8. back - MaxWindow < 0 => back = 0
  BY <1>1, <1>3, <1>5, <1>6, <1>7
<1>9. ASSUME back - MaxWindow >= 0
      PROVE  /\ Planned(n, back - MaxWindow)
             /\ back - MaxWindow + Duration(n, back - MaxWindow) = back
  <2>1. k > 0
    BY <1>1, <1>3, <1>6, <1>7, <1>9
  <2>2. back - MaxWindow < n
    BY <1>1, <1>3, <1>4
  <2>3. MaxWindow < n - (back - MaxWindow)
    BY <1>1, <1>3, <1>4
  <2>4. QED
    BY <1>1, <1>3, <1>5, <2>1, <2>2, <2>3 DEF Planned, Duration
<1>10. QED
  BY <1>3, <1>8, <1>9

LEMMA MomentInt ==
    /\ Moment \subseteq Int /\ PerDay \in Nat /\ PerDay > 0 /\ First \in Nat /\ Latest \in Nat
    /\ First \in First .. Latest
    /\ \A n \in Int : PerDay * n \in Int
<1>1. PerDay \in Nat /\ PerDay > 0 /\ Latest \in Nat /\ Lookback \in Nat /\ PerDay * Lookback <= Latest
  BY LatestAssumption, SpanAssumption
<1>2. PerDay * Lookback \in Nat
  BY <1>1
<1>3. QED
  BY <1>1, <1>2 DEF Moment, First

LEMMA NothingBefore ==
    ASSUME NEW t \in Int, NEW n \in Nat \ {0}
    PROVE  Before(t, n, OldestDelay(n)) = {}
<1>1. Before(t, n, OldestDelay(n)) = {m \in Moment : t - PerDay * n < m /\ m <= t - PerDay * n}
  BY PlanStarts DEF Before
<1>2. \A m \in Moment : ~(t - PerDay * n < m /\ m <= t - PerDay * n)
  BY MomentInt
<1>3. QED
  BY <1>1, <1>2

\* With this window and those before it in a set, everything before the next one is in
\* it, and with the last one the whole range.
LEMMA WindowMerged ==
    ASSUME NEW t \in Int, NEW n \in Nat, NEW back, Planned(n, back), NEW old, NEW new,
           Before(t, n, back) \subseteq old, old \subseteq new,
           Days(t, back, Duration(n, back)) \subseteq new
    PROVE  /\ back - MaxWindow >= 0 => Before(t, n, back - MaxWindow) \subseteq new
           /\ back - MaxWindow < 0 => Days(t, 0, n) \subseteq new
<1>1. back \in Nat /\ MaxWindow \in Nat
  BY PlanContinues, SpanAssumption
<1>2. Duration(n, back) \in Int
  BY <1>1 DEF Duration
<1>3. PerDay * (back + Duration(n, back)) \in Int /\ PerDay * back \in Int /\ PerDay * n \in Int
  BY <1>1, <1>2, MomentInt
<1>4. \A m \in Moment : (t - PerDay * n < m /\ m <= t - PerDay * back) => m \in new
  BY <1>3, MomentInt DEF Before, Days
<1>5. ASSUME back - MaxWindow >= 0 PROVE Before(t, n, back - MaxWindow) \subseteq new
  <2>1. back - MaxWindow + Duration(n, back - MaxWindow) = back
    BY <1>5, PlanContinues
  <2>2. QED
    BY <1>4, <2>1 DEF Before
<1>6. ASSUME back - MaxWindow < 0 PROVE Days(t, 0, n) \subseteq new
  <2>1. back = 0
    BY <1>6, PlanContinues
  <2>2. 0 + n = n
    OBVIOUS
  <2>3. QED
    BY <1>4, <2>1, <2>2 DEF Days
<1>7. QED
  BY <1>5, <1>6

-----------------------------------------------------------------------------
(* The inductive invariant of the backfill.                                *)

\* Nothing is from the future.
Past ==
    /\ begun <= now
    /\ \A s \in Symbol :
           held[s] \subseteq 1 .. now /\ filed[s] \subseteq 1 .. now /\ received[s] \subseteq 1 .. now

\* While the thread works on a window of its plan and no moment has passed, the windows
\* before it are in memory, and a received batch is that window, for every symbol that
\* was not refused so far.
WindowsMerged ==
    pc \in {"fetch", "retry", "merge"} =>
        /\ Planned(Lookback, delay)
        /\ now = begun =>
               \A s \in missing \ refused : Before(begun, Lookback, delay) \subseteq held[s]
        /\ (now = begun /\ pc = "merge") =>
               \A s \in missing \ refused : received[s] = Days(begun, delay, Duration(Lookback, delay))

BackfillInv == TypeOK /\ Past /\ WindowsMerged /\ CompleteAtOnce

-----------------------------------------------------------------------------
(* The backfill thread and the live merges.                                *)

LEMMA DaysPast ==
    ASSUME NEW t \in First .. Latest, NEW back \in Nat, NEW duration
    PROVE  Days(t, back, duration) \subseteq 1 .. t /\ Days(t, back, duration) \subseteq Moment
<1>1. PerDay * back \in Nat
  BY MomentInt
<1>2. t \in Int
  BY MomentInt
<1>3. QED
  BY <1>1, <1>2, MomentInt DEF Days, Moment

\* A batch is the window, but for the optional symbols it may cut short.
LEMMA BatchOf ==
    ASSUME NEW symbols \in SUBSET Symbol, NEW window \in SUBSET Moment,
           NEW batch \in Batches(symbols, window)
    PROVE  /\ batch \in [Symbol -> SUBSET Moment]
           /\ \A s \in Symbol : batch[s] \subseteq window
           /\ \A s \in symbols \ Optional : batch[s] = window
<1>1. PICK end \in [Optional -> Cut] :
          batch = [s \in Symbol |-> IF s \notin symbols THEN {}
                                   ELSE IF s \in Optional THEN {m \in window : m < end[s]}
                                   ELSE window]
  BY DEF Batches
<1>2. \A s \in Symbol : batch[s] \subseteq window
  BY <1>1
<1>3. QED
  BY <1>1, <1>2

LEMMA NothingHeld ==
    /\ Nothing \in [Symbol -> SUBSET Moment]
    /\ \A s \in Symbol : Nothing[s] = {}
BY DEF Nothing

\* A thread that ended leaves its variables as they are before it starts.
LEMMA Forgotten ==
    ASSUME Forget
    PROVE  /\ begun' = First /\ missing' = {} /\ delay' = 0 /\ refused' = {}
           /\ received' \in [Symbol -> SUBSET Moment] /\ \A s \in Symbol : received'[s] = {}
           /\ delay' \in Int /\ delay' >= -MaxWindow
           /\ First \in First .. Latest
           /\ \A t \in First .. Latest : First <= t
BY NothingHeld, MomentInt, SpanAssumption DEF Forget

LEMMA PlanType == ASSUME Planned(Lookback, delay), TypeOK PROVE delay \in Nat
BY PlanContinues, SpanAssumption

LEMMA StartInv ==
    ASSUME BackfillInv, Start
    PROVE  BackfillInv'
<1>1. /\ Planned(Lookback, delay') /\ delay' \in Nat /\ delay' < Lookback
      /\ delay' + Duration(Lookback, delay') = Lookback
  BY PlanStarts, SpanAssumption DEF Start, Planned
<1>2. missing' \subseteq Symbol /\ begun' = now /\ held' = filed /\ received' = Nothing /\ refused' = {}
      /\ UNCHANGED <<now, filed, stop>> /\ cause' = None
      /\ pc' = IF missing' = {} THEN "done" ELSE "fetch"
  BY DEF Start, MissingCoverage
<1>3. delay' \in Int /\ delay' >= -MaxWindow
  BY <1>1, SpanAssumption
<1>4. TypeOK'
  BY <1>2, <1>3, NothingHeld DEF BackfillInv, TypeOK
<1>5. Past'
  BY <1>2, MomentInt, NothingHeld DEF BackfillInv, Past, TypeOK
<1>6. Before(begun', Lookback, delay') = {}
  <2>1. begun' \in Int /\ delay' = OldestDelay(Lookback)
    BY <1>2, MomentInt DEF BackfillInv, TypeOK, Start
  <2>2. QED
    BY <2>1, NothingBefore, SpanAssumption
<1>7. WindowsMerged'
  BY <1>1, <1>2, <1>6 DEF WindowsMerged
<1>8. CompleteAtOnce'
  BY <1>2 DEF CompleteAtOnce
<1>9. QED
  BY <1>4, <1>5, <1>7, <1>8 DEF BackfillInv

LEMMA FetchInv ==
    ASSUME BackfillInv, Fetch
    PROVE  BackfillInv'
<1> DEFINE window == Days(now, delay, Duration(Lookback, delay))
<1>1. /\ pc = "fetch" /\ pc' = "merge" /\ received' \in Batches(missing, window)
      /\ refused' = refused \cup {s \in missing : received'[s] # window}
      /\ UNCHANGED <<now, stop, begun, missing, delay, cause, held, filed>>
  BY DEF Fetch
<1>2. TypeOK /\ Past /\ WindowsMerged /\ Planned(Lookback, delay) /\ delay \in Nat
  BY <1>1, PlanType DEF BackfillInv, WindowsMerged
<1>3. window \subseteq 1 .. now /\ window \subseteq Moment /\ missing \subseteq Symbol
  BY <1>2, DaysPast DEF TypeOK
<1> HIDE DEF window
<1>4. /\ received' \in [Symbol -> SUBSET Moment]
      /\ \A s \in Symbol : received'[s] \subseteq 1 .. now
      /\ \A s \in missing \ Optional : received'[s] = window
  <2>1. window \in SUBSET Moment /\ missing \in SUBSET Symbol
    BY <1>3
  <2>2. /\ received' \in [Symbol -> SUBSET Moment]
        /\ \A s \in Symbol : received'[s] \subseteq window
        /\ \A s \in missing \ Optional : received'[s] = window
    BY <1>1, <2>1, BatchOf
  <2>3. QED
    BY <1>3, <2>2
<1>5. refused' \subseteq Optional
  <2>1. refused \subseteq Optional
    BY <1>2 DEF TypeOK
  <2>2. \A s \in missing : received'[s] # window => s \in Optional
    BY <1>4
  <2>3. QED
    BY <1>1, <2>1, <2>2
<1>6. TypeOK' /\ Past'
  BY <1>1, <1>2, <1>4, <1>5 DEF TypeOK, Past
<1>7. \A s \in missing \ refused' : received'[s] = window /\ s \in missing \ refused
  BY <1>1
<1>8. WindowsMerged'
  BY <1>1, <1>2, <1>7 DEF WindowsMerged, window
<1>9. CompleteAtOnce'
  BY <1>1 DEF CompleteAtOnce
<1>10. QED
  BY <1>6, <1>8, <1>9 DEF BackfillInv

LEMMA MergeInv ==
    ASSUME BackfillInv, Merge
    PROVE  BackfillInv'
<1>1. /\ pc = "merge" /\ ~stop /\ UNCHANGED <<now, stop>>
      /\ held' = [s \in Symbol |-> held[s] \cup received[s]]
  BY DEF Merge
<1>2. TypeOK /\ Past /\ WindowsMerged /\ Planned(Lookback, delay) /\ delay \in Nat
  BY <1>1, PlanType DEF BackfillInv, WindowsMerged
<1>3. held' \in [Symbol -> SUBSET Moment] /\ \A s \in Symbol : held'[s] \subseteq 1 .. now
  BY <1>1, <1>2 DEF TypeOK, Past
<1>4. CASE /\ filed' = held' /\ received' = Nothing /\ delay' = delay - MaxWindow
           /\ pc' = (IF delay' < 0 THEN "done" ELSE "fetch")
           /\ UNCHANGED <<begun, missing, refused, cause>>
  <2>1. delay' \in Int /\ delay' >= -MaxWindow
    BY <1>2, <1>4, SpanAssumption
  <2>2. ASSUME now = begun, NEW s \in missing \ refused
        PROVE  /\ delay' >= 0 => Before(begun, Lookback, delay') \subseteq held'[s]
               /\ delay' < 0 => Days(begun, 0, Lookback) \subseteq held'[s]
    <3>1. /\ Before(begun, Lookback, delay) \subseteq held[s]
          /\ received[s] = Days(begun, delay, Duration(Lookback, delay))
      BY <1>1, <1>2, <2>2 DEF WindowsMerged
    <3>2. held[s] \subseteq held'[s] /\ received[s] \subseteq held'[s]
      BY <1>1, <1>2, <2>2 DEF TypeOK
    <3>3. begun \in Int /\ Lookback \in Nat
      BY <1>2, MomentInt, SpanAssumption DEF TypeOK
    <3>4. Days(begun, delay, Duration(Lookback, delay)) \subseteq held'[s]
      BY <3>1, <3>2
    <3>5. QED
      BY <1>2, <1>4, <3>1, <3>2, <3>3, <3>4, WindowMerged
  <2>3. delay' >= 0 => Planned(Lookback, delay')
    BY <1>2, <1>4, PlanContinues, SpanAssumption
  <2>4. TypeOK' /\ Past'
    BY <1>1, <1>2, <1>3, <1>4, <2>1, NothingHeld DEF TypeOK, Past
  <2>5. CASE delay' < 0
    <3>1. WindowsMerged'
      BY <1>4, <2>5 DEF WindowsMerged
    <3>2. CompleteAtOnce'
      BY <1>1, <1>2, <1>4, <2>2, <2>5 DEF CompleteAtOnce, Range, TypeOK
    <3>3. QED
      BY <2>4, <3>1, <3>2 DEF BackfillInv
  <2>6. CASE ~(delay' < 0)
    <3>1. delay' >= 0
      BY <2>1, <2>6
    <3>2. WindowsMerged'
      BY <1>1, <1>4, <2>2, <2>3, <2>6, <3>1 DEF WindowsMerged
    <3>3. CompleteAtOnce'
      BY <1>4, <2>6 DEF CompleteAtOnce
    <3>4. QED
      BY <2>4, <3>2, <3>3 DEF BackfillInv
  <2>7. QED
    BY <2>5, <2>6
<1>5. CASE UNCHANGED filed /\ pc' = "died" /\ cause' = "save" /\ Forget
  <2>1. TypeOK' /\ Past'
    BY <1>1, <1>2, <1>3, <1>5, Forgotten DEF TypeOK, Past
  <2>2. WindowsMerged' /\ CompleteAtOnce'
    BY <1>5 DEF WindowsMerged, CompleteAtOnce
  <2>3. QED
    BY <2>1, <2>2 DEF BackfillInv
<1>6. QED
  BY <1>4, <1>5 DEF Merge

\* The live client only adds to the memory.
LEMMA LiveMergeInv ==
    ASSUME BackfillInv, LiveMerge
    PROVE  BackfillInv'
<1>1. PICK bars \in Batches(Symbol, Days(now, 0, LiveDays)) :
          held' = [s \in Symbol |-> held[s] \cup bars[s]]
  BY DEF LiveMerge
<1>9. /\ filed' \in {filed, held'} /\ UNCHANGED <<now, stop, pc, backfill>>
  BY DEF LiveMerge
<1>2. TypeOK /\ Past /\ WindowsMerged /\ CompleteAtOnce
  BY DEF BackfillInv
<1>3. Days(now, 0, LiveDays) \subseteq 1 .. now /\ Days(now, 0, LiveDays) \subseteq Moment
  BY <1>2, DaysPast DEF TypeOK
<1>4. /\ bars \in [Symbol -> SUBSET Moment]
      /\ \A s \in Symbol : bars[s] \subseteq 1 .. now /\ held[s] \subseteq held'[s]
  BY <1>1, <1>3, BatchOf
<1>5. TypeOK'
  BY <1>1, <1>9, <1>2, <1>4 DEF TypeOK, backfill
<1>6. Past'
  BY <1>1, <1>9, <1>2, <1>4 DEF Past, backfill
<1>7. WindowsMerged' /\ CompleteAtOnce'
  BY <1>1, <1>9, <1>2, <1>4 DEF WindowsMerged, CompleteAtOnce, backfill, TypeOK
<1>8. QED
  BY <1>5, <1>6, <1>7 DEF BackfillInv

\* A moment that passes ends what is done at once.
LEMMA NextMomentInv ==
    ASSUME BackfillInv, NextMoment
    PROVE  BackfillInv' /\ now' # begun'
<1>1. /\ now' = now + 1 /\ now < Latest /\ UNCHANGED <<stop, pc, backfill, held, filed>>
      /\ TypeOK /\ Past
  BY DEF NextMoment, BackfillInv
<1>2. now \in Int /\ begun \in Int /\ begun <= now
  BY <1>1, MomentInt DEF TypeOK, Past
<1>3. now' \in First .. Latest /\ now' # begun' /\ begun' <= now' /\ 1 .. now \subseteq 1 .. now'
  BY <1>1, <1>2, MomentInt DEF TypeOK, backfill
<1>4. TypeOK' /\ Past'
  BY <1>1, <1>3 DEF TypeOK, Past, backfill
<1>5. WindowsMerged' /\ CompleteAtOnce'
  BY <1>1, <1>3 DEF BackfillInv, WindowsMerged, CompleteAtOnce, backfill
<1>6. QED
  BY <1>3, <1>4, <1>5 DEF BackfillInv

\* Steps of the thread that fetch and merge nothing, and the end of the process.
LEMMA StoppedInv ==
    ASSUME BackfillInv, Retry \/ StopThread \/ RequestStop \/ End \/ UNCHANGED vars
                        \/ \E why \in Cause : FetchFails(why)
    PROVE  BackfillInv'
<1>1. TypeOK /\ Past /\ WindowsMerged /\ CompleteAtOnce
  BY DEF BackfillInv
<1>2. CASE Retry \/ RequestStop \/ UNCHANGED vars
  <2>1. TypeOK' /\ Past'
    BY <1>1, <1>2 DEF Retry, RequestStop, vars, backfill, TypeOK, Past
  <2>2. WindowsMerged' /\ CompleteAtOnce'
    BY <1>1, <1>2 DEF Retry, RequestStop, vars, backfill, WindowsMerged, CompleteAtOnce
  <2>3. QED
    BY <2>1, <2>2 DEF BackfillInv
<1>3. CASE End
  <2>1. TypeOK' /\ Past'
    BY <1>1, <1>3, Forgotten, NothingHeld DEF End, TypeOK, Past
  <2>2. WindowsMerged' /\ CompleteAtOnce'
    BY <1>3 DEF End, WindowsMerged, CompleteAtOnce
  <2>3. QED
    BY <2>1, <2>2 DEF BackfillInv
<1>4. CASE StopThread
  <2>1. TypeOK' /\ Past'
    BY <1>1, <1>4, Forgotten DEF StopThread, TypeOK, Past
  <2>2. WindowsMerged' /\ CompleteAtOnce'
    BY <1>4 DEF StopThread, WindowsMerged, CompleteAtOnce
  <2>3. QED
    BY <2>1, <2>2 DEF BackfillInv
<1>5. ASSUME NEW why \in Cause, FetchFails(why)
      PROVE  BackfillInv'
  <2>1. pc = "fetch" /\ UNCHANGED <<now, stop, held, filed>>
    BY <1>5 DEF FetchFails
  <2>2. CASE pc' = "retry" /\ UNCHANGED backfill
    <3>1. TypeOK' /\ Past'
      BY <1>1, <2>1, <2>2 DEF backfill, TypeOK, Past
    <3>2. WindowsMerged' /\ CompleteAtOnce'
      BY <1>1, <2>1, <2>2 DEF backfill, WindowsMerged, CompleteAtOnce
    <3>3. QED
      BY <3>1, <3>2 DEF BackfillInv
  <2>3. CASE pc' = "died" /\ cause' = why /\ Forget
    <3>1. TypeOK' /\ Past'
      BY <1>1, <2>1, <2>3, Forgotten DEF TypeOK, Past
    <3>2. WindowsMerged' /\ CompleteAtOnce'
      BY <2>3 DEF WindowsMerged, CompleteAtOnce
    <3>3. QED
      BY <3>1, <3>2 DEF BackfillInv
  <2>4. QED
    BY <1>5, <2>2, <2>3 DEF FetchFails
<1>6. QED
  BY <1>2, <1>3, <1>4, <1>5

LEMMA NextInv == BackfillInv /\ [Next]_vars => BackfillInv'
BY StartInv, FetchInv, MergeInv, LiveMergeInv, NextMomentInv, StoppedInv DEF Next, Thread

LEMMA InitInv == Init => BackfillInv
<1> SUFFICES ASSUME Init PROVE BackfillInv
  OBVIOUS
<1>1. 0 \in Int /\ 0 >= -MaxWindow
  BY SpanAssumption
<1>2. TypeOK
  BY <1>1, MomentInt, NothingHeld DEF Init, TypeOK
<1>3. Past /\ WindowsMerged /\ CompleteAtOnce
  BY MomentInt, NothingHeld DEF Init, Past, WindowsMerged, CompleteAtOnce
<1>4. QED
  BY <1>2, <1>3 DEF BackfillInv

-----------------------------------------------------------------------------
(* The theorems about the backfill.                                        *)

\* Type correctness of the monitor's backfill, for any symbols, days and windows.
THEOREM BackfillTypeCorrect == Spec => []TypeOK
<1>1. BackfillInv => TypeOK
  BY DEF BackfillInv
<1>2. QED
  BY <1>1, InitInv, NextInv, PTL DEF Spec

\* A backfill that is done at once has filled the whole range of the symbols it found
\* missing, but for optional ones that were refused: the windows of every plan tile the
\* days asked for.
THEOREM BackfillComplete == Spec => []CompleteAtOnce
<1>1. BackfillInv => CompleteAtOnce
  BY DEF BackfillInv
<1>2. QED
  BY <1>1, InitInv, NextInv, PTL DEF Spec

-----------------------------------------------------------------------------
(* What a backtest downloads and what it refreshes.                        *)

\* A bounded set of numbers has a newest and an oldest one.
LEMMA OldestIn ==
    ASSUME NEW S \in SUBSET Int, S # {}, NEW b \in Int, \A m \in S : b <= m
    PROVE  Oldest(S) \in S /\ \A m \in S : Oldest(S) <= m
<1> DEFINE T == {m - b : m \in S}
<1>1. T \subseteq Nat /\ T # {}
  <2>1. \A m \in S : m - b \in Nat
    OBVIOUS
  <2>2. QED
    BY <2>1
<1>2. PICK t \in T : \A u \in T : <<u, t>> \notin OpToRel(<, Nat)
  BY <1>1, NatLessThanWellFounded, WFMin, Zenon
<1>3. \A u \in T : ~(u < t)
  BY <1>1, <1>2 DEF OpToRel
<1>4. PICK m \in S : t = m - b
  BY <1>2
<1>5. \A n \in S : m <= n
  <2> SUFFICES ASSUME NEW n \in S PROVE m <= n
    OBVIOUS
  <2>1. ~(n - b < t)
    BY <1>3
  <2>2. QED
    BY <1>4, <2>1
<1> HIDE DEF T
<1>6. \E x \in S : \A n \in S : x <= n
  BY <1>5
<1>7. QED
  BY <1>6 DEF Oldest

LEMMA FromTheOtherEnd == \A b, m, n \in Int : b - m <= b - n => n <= m
OBVIOUS

LEMMA NewestIn ==
    ASSUME NEW S \in SUBSET Int, S # {}, NEW b \in Int, \A m \in S : m <= b
    PROVE  Newest(S) \in S /\ \A m \in S : m <= Newest(S)
<1> DEFINE T == {b - m : m \in S}
<1>1. T \in SUBSET Int /\ T # {} /\ \A m \in T : 0 <= m
  <2>1. \A m \in S : b - m \in Int /\ 0 <= b - m
    OBVIOUS
  <2>2. QED
    BY <2>1
<1>2. Oldest(T) \in T /\ \A m \in T : Oldest(T) <= m
  <2> HIDE DEF T
  <2>1. 0 \in Int
    OBVIOUS
  <2>2. QED
    BY <1>1, <2>1, OldestIn
<1>3. PICK m \in S : Oldest(T) = b - m
  BY <1>2
<1>4. \A n \in S : n <= m
  <2> SUFFICES ASSUME NEW n \in S PROVE n <= m
    OBVIOUS
  <2>1. Oldest(T) <= b - n
    BY <1>2
  <2>2. b - m <= b - n /\ m \in Int /\ n \in Int
    BY <1>3, <2>1
  <2>3. QED
    BY <2>2, FromTheOtherEnd, Zenon
<1> HIDE DEF T
<1>5. \E x \in S : \A n \in S : n <= x
  BY <1>4
<1>6. QED
  BY <1>5 DEF Newest

\* A refresh asks for every age and two days, as far as one window reaches.
LEMMA RefreshDaysReach ==
    ASSUME NEW ages \in SUBSET Int
    PROVE  /\ RefreshDays(ages) \in RecentDays .. MaxWindow
           /\ \A a \in ages : a + 2 <= RefreshDays(ages) \/ RefreshDays(ages) = MaxWindow
<1> DEFINE Capped(a) == IF a + 2 > MaxWindow THEN MaxWindow ELSE a + 2
           wanted == {RecentDays} \cup {Capped(a) : a \in ages}
<1>1. MaxWindow \in Int /\ RecentDays \in Int /\ RecentDays <= MaxWindow
  BY SpanAssumption, BacktestAssumption
<1>2. \A a \in ages : Capped(a) \in Int /\ Capped(a) <= MaxWindow
  BY <1>1
<1>3. wanted \in SUBSET Int /\ wanted # {} /\ \A m \in wanted : m <= MaxWindow
  BY <1>1, <1>2
<1>4. RefreshDays(ages) = Newest(wanted)
  BY DEF RefreshDays
<1>5. Newest(wanted) \in wanted /\ \A m \in wanted : m <= Newest(wanted)
  BY <1>1, <1>3, NewestIn
<1>6. \A a \in ages : Capped(a) \in wanted
  OBVIOUS
<1>7. RecentDays \in wanted
  OBVIOUS
<1> HIDE DEF wanted, Capped
<1>8. RefreshDays(ages) \in RecentDays .. MaxWindow
  <2>1. RefreshDays(ages) \in Int /\ RecentDays <= RefreshDays(ages) /\ RefreshDays(ages) <= MaxWindow
    BY <1>3, <1>4, <1>5, <1>7
  <2>2. QED
    BY <1>1, <2>1
<1>9. ASSUME NEW a \in ages
      PROVE  a + 2 <= RefreshDays(ages) \/ RefreshDays(ages) = MaxWindow
  <2>1. Capped(a) <= RefreshDays(ages)
    BY <1>4, <1>5, <1>6
  <2>2. QED
    BY <1>1, <1>8, <2>1 DEF Capped
<1>10. QED
  BY <1>8, <1>9

LEMMA NewestMoment ==
    ASSUME NEW t \in Nat, NEW moments \in SUBSET (1 .. t), moments # {}
    PROVE  /\ Newest(moments) \in moments /\ \A m \in moments : m <= Newest(moments)
           /\ Oldest(moments) \in moments /\ \A m \in moments : Oldest(moments) <= m
           /\ Newest(moments) \in 1 .. t
<1>1. moments \in SUBSET Int /\ t \in Int /\ 1 \in Int
      /\ (\A m \in moments : 1 <= m) /\ \A m \in moments : m <= t
  OBVIOUS
<1>2. Newest(moments) \in moments /\ \A m \in moments : m <= Newest(moments)
  BY <1>1, NewestIn
<1>3. Oldest(moments) \in moments /\ \A m \in moments : Oldest(moments) <= m
  BY <1>1, OldestIn
<1>4. Newest(moments) \in 1 .. t
  BY <1>2
<1>5. QED
  BY <1>2, <1>3, <1>4, Zenon

\* The age of a cache in whole days, and what is left over is less than a day.
LEMMA AgeInDays ==
    ASSUME NEW t \in Nat, NEW moments \in SUBSET (1 .. t), moments # {}
    PROVE  /\ AgeDays(moments, t) \in Nat
           /\ t - Newest(moments) < PerDay * (AgeDays(moments, t) + 1)
<1> DEFINE gap == t - Newest(moments)
<1>1. gap \in Nat
  BY NewestMoment
<1>2. PerDay \in Nat /\ PerDay > 0
  BY MomentInt
<1>3. AgeDays(moments, t) = gap \div PerDay
  BY DEF AgeDays
<1> HIDE DEF gap
<1>4. gap \div PerDay \in Nat /\ gap < PerDay * (gap \div PerDay + 1)
  BY <1>1, <1>2
<1>5. QED
  BY <1>3, <1>4 DEF gap

LEMMA PerDayMonotone == ASSUME NEW a \in Nat, NEW b \in Nat, a <= b PROVE PerDay * a <= PerDay * b
<1>1. PerDay * b = PerDay * a + PerDay * (b - a) /\ PerDay * (b - a) \in Nat /\ PerDay * a \in Nat
  BY MomentInt
<1>2. QED
  BY <1>1

\* A window that reaches back to the newest moment of a gapless history and ends at the
\* present leaves it gapless.
LEMMA JoinedGapless ==
    ASSUME NEW t \in First .. Latest, NEW moments \in SUBSET Moment, moments # {},
           moments \subseteq 1 .. t, Gapless(moments), NEW d \in Nat,
           t - PerDay * d <= Newest(moments)
    PROVE  Gapless(moments \cup Days(t, 0, d))
<1> DEFINE W == Days(t, 0, d)
           U == moments \cup W
           lo == t - PerDay * d
<1>1. t \in Nat /\ lo \in Int /\ t <= Latest /\ Latest \in Nat
  BY MomentInt
<1>2. \A m \in Int : m \in W <=> m \in Moment /\ lo < m /\ m <= t
  <2>1. 0 + d = d /\ PerDay * 0 = 0
    BY MomentInt
  <2>2. QED
    BY <1>1, <2>1 DEF Days
<1>3. W \subseteq 1 .. t
  BY DaysPast
<1>4. U \in SUBSET (1 .. t) /\ U # {}
  BY <1>3
<1>5. /\ Newest(U) \in U /\ \A m \in U : m <= Newest(U)
      /\ Oldest(U) \in U /\ \A m \in U : Oldest(U) <= m
  BY <1>1, <1>4, NewestMoment
<1>6. /\ Newest(moments) \in moments /\ Oldest(moments) \in moments
      /\ moments = Oldest(moments) .. Newest(moments)
  BY <1>1, NewestMoment DEF Gapless
<1> DEFINE x == Oldest(U)
           y == Newest(U)
           a == Oldest(moments)
           b == Newest(moments)
<1>7. x \in 1 .. t /\ y \in 1 .. t /\ a \in 1 .. t /\ b \in 1 .. t
  BY <1>4, <1>5, <1>6
<1>8. x \in moments \/ x \in W
  BY <1>5
<1>9. y \in moments \/ y \in W
  BY <1>5
<1>10. U \subseteq x .. y
  BY <1>4, <1>5, <1>7
<1>11. lo <= b
  OBVIOUS
<1>12. \A m \in Int : m \in moments <=> a <= m /\ m <= b
  BY <1>6, <1>7
<1> HIDE DEF x, y, a, b, lo, W
<1>13. ASSUME NEW m \in x .. y
       PROVE  m \in U
  <2>1. m \in Int /\ m \in 1 .. t /\ m \in Moment
    BY <1>1, <1>7, <1>13 DEF Moment
  <2>2. CASE a <= m /\ m <= b
    BY <1>12, <2>1, <2>2
  <2>3. CASE m < a
    <3>1. x \in W
      BY <1>7, <1>8, <1>12, <1>13, <2>3
    <3>2. lo < x
      BY <1>2, <1>7, <3>1
    <3>3. lo < m
      BY <1>1, <1>7, <1>13, <3>2 DEF lo
    <3>4. QED
      BY <1>2, <2>1, <3>3
  <2>4. CASE b < m
    <3>1. lo < m
      BY <1>1, <1>7, <1>11, <2>1, <2>4 DEF lo
    <3>2. QED
      BY <1>2, <2>1, <3>1
  <2>5. QED
    BY <1>7, <2>1, <2>2, <2>3, <2>4
<1>14. U = x .. y
  BY <1>10, <1>13
<1>15. QED
  BY <1>14 DEF Gapless, x, y, W

\* The window of a refresh reaches the newest moment of what it refreshes, unless that
\* is the longest window old and some hours.
LEMMA RefreshJoins ==
    ASSUME NEW t \in First .. Latest, NEW moments \in SUBSET Moment, moments # {},
           moments \subseteq 1 .. t, NEW d \in Nat,
           RefreshReaches(moments, t), AgeDays(moments, t) <= MaxWindow,
           AgeDays(moments, t) + 2 <= d \/ d = MaxWindow
    PROVE  t - PerDay * d <= Newest(moments)
<1> DEFINE age == AgeDays(moments, t)
           b == Newest(moments)
<1>1. t \in Nat /\ MaxWindow \in Nat
  BY MomentInt, SpanAssumption
<1>2. age \in Nat /\ t - b < PerDay * (age + 1) /\ b \in Int
  BY <1>1, AgeInDays, NewestMoment
<1>3. PerDay * d \in Int /\ PerDay * (age + 1) \in Int
  BY <1>2, MomentInt
<1>4. age = MaxWindow => t - b = PerDay * MaxWindow
  BY DEF RefreshReaches
<1> HIDE DEF age, b
<1>5. CASE age + 1 <= d
  <2>1. PerDay * (age + 1) <= PerDay * d
    BY <1>2, <1>5, PerDayMonotone
  <2>2. QED
    BY <1>1, <1>2, <1>3, <2>1 DEF b
<1>6. CASE ~(age + 1 <= d)
  <2>1. d = MaxWindow /\ age = MaxWindow
    BY <1>1, <1>2, <1>6 DEF age
  <2>2. t - b = PerDay * d
    BY <1>4, <2>1
  <2>3. QED
    BY <1>1, <1>2, <1>3, <2>2 DEF b
<1>7. QED
  BY <1>5, <1>6

-----------------------------------------------------------------------------
(* The inductive invariant of the history of a backtest.                   *)

\* The runner and the monitor are never at work together, and a symbol is downloaded or
\* refreshed, not both.
OneAtATime ==
    /\ runner # "off" => pc = "off"
    /\ runner = "off" => refreshing = {}
    /\ refreshing \cap missing = {}

\* The windows of the download, like those of the backfill.
WindowsDownloaded ==
    /\ runner = "full" =>
           /\ Planned(days, delay)
           /\ now = begun => \A s \in missing : Before(begun, days, delay) \subseteq held[s]
    /\ (runner \in {"refresh", "ready"} /\ now = begun) =>
           \A s \in missing : Days(begun, 0, days) \subseteq held[s]

\* A history without a gap that the refresh can reach.
Joinable(moments, t) ==
    /\ moments # {}
    /\ Gapless(moments)
    /\ RefreshReaches(moments, t)
    /\ AgeDays(moments, t) <= MaxWindow

\* What was there before the download waits unchanged for the refresh, and the refresh
\* asks for as much as the oldest of it needs.
WaitsForRefresh ==
    /\ runner \in {"full", "refresh"} =>
           /\ \A s \in refreshing : held[s] # {}
           /\ now = begun => \A s \in whole \ missing : Joinable(held[s], begun)
    /\ runner = "refresh" =>
           /\ delay \in RecentDays .. MaxWindow
           /\ \A s \in refreshing : AgeDays(held[s], begun) + 2 <= delay \/ delay = MaxWindow
    /\ (runner = "ready" /\ now = begun) => \A s \in whole \ missing : Gapless(held[s])

RunnerInv ==
    /\ BackfillInv
    /\ BacktestTypeOK
    /\ OneAtATime
    /\ WindowsDownloaded
    /\ WaitsForRefresh

-----------------------------------------------------------------------------
(* The steps of the runner.                                                *)

LEMMA DaysNat == ASSUME BacktestTypeOK PROVE days \in Nat \ {0}
BY BacktestAssumption, SpanAssumption DEF BacktestTypeOK

\* The backfill is not at work while the runner is, so that its invariant comes down to
\* the types and the past.
LEMMA BackfillStopped ==
    ASSUME pc' = "off", TypeOK', Past'
    PROVE  BackfillInv'
BY DEF BackfillInv, WindowsMerged, CompleteAtOnce

\* The delays of a plan and of a refresh fit the type.
LEMMA DelayType ==
    ASSUME NEW d \in Int,
           d \in RecentDays .. MaxWindow \/ -MaxWindow <= d
    PROVE  d >= -MaxWindow
<1>1. MaxWindow \in Nat /\ RecentDays \in Nat
  BY SpanAssumption, BacktestAssumption
<1>2. QED
  BY <1>1

LEMMA AgesInt ==
    ASSUME TypeOK, Past, NEW S \in SUBSET Symbol, NEW h \in {held, filed}, NEW t \in Int,
           \A s \in S : h[s] # {}
    PROVE  {AgeDays(h[s], t) : s \in S} \in SUBSET Int
<1>1. ASSUME NEW s \in S PROVE AgeDays(h[s], t) \in Int
  <2>1. h[s] \in SUBSET (1 .. now) /\ h[s] # {} /\ now \in Nat
    BY MomentInt DEF TypeOK, Past
  <2>2. Newest(h[s]) \in Int
    BY <2>1, NewestMoment
  <2>3. t - Newest(h[s]) \in Int /\ PerDay \in Nat /\ PerDay > 0
    BY <2>2, MomentInt
  <2>4. (t - Newest(h[s])) \div PerDay \in Int
    BY <2>3
  <2>5. QED
    BY <2>4 DEF AgeDays
<1>2. QED
  BY <1>1

LEMMA LoadHistoryInv ==
    ASSUME RunnerInv, NEW n \in BacktestDays, LoadHistory(n)
    PROVE  RunnerInv'
<1>1. TypeOK /\ Past /\ BacktestTypeOK
  BY DEF RunnerInv, BackfillInv
<1>2. /\ pc = "off" /\ days' = n /\ begun' = now
      /\ held' = [s \in Symbol |-> IF s \in Cached THEN filed[s] ELSE {}]
      /\ UNCHANGED <<now, stop, pc, received, refused, cause, filed>>
      /\ whole' = {s \in Cached : filed[s] # {} /\ Gapless(filed[s]) /\ RefreshReaches(filed[s], now)}
  BY DEF LoadHistory
<1>3. PICK first \in {now - PerDay * n, now - PerDay * n + 1} :
           /\ missing' = {s \in Cached : \/ ~HasHistoricalStart(filed[s], first)
                                         \/ AgeDays(filed[s], now) > MaxWindow}
           /\ refreshing' \subseteq Cached \ missing'
           /\ delay' = IF missing' # {} THEN OldestDelay(n)
                       ELSE RefreshDays({AgeDays(filed[s], now) : s \in refreshing'})
           /\ runner' = IF missing' # {} THEN "full"
                        ELSE IF refreshing' # {} THEN "refresh" ELSE "ready"
  BY DEF LoadHistory
<1>4. n \in Nat \ {0}
  BY BacktestAssumption
<1>5. now \in Int /\ now \in Nat
  BY <1>1, MomentInt DEF TypeOK
<1>6. \A s \in Cached \ missing' : filed[s] # {} /\ ~(AgeDays(filed[s], now) > MaxWindow)
  BY <1>3 DEF HasHistoricalStart
<1>7. ASSUME NEW s \in whole' \ missing' PROVE Joinable(held'[s], begun')
  <2>1. filed[s] # {} /\ Gapless(filed[s]) /\ RefreshReaches(filed[s], now)
        /\ s \in Cached /\ s \in Symbol /\ held'[s] = filed[s]
    BY <1>2, <1>7, CachedAssumption
  <2>2. AgeDays(filed[s], now) \in Nat
    BY <1>1, <1>5, <2>1, AgeInDays DEF Past
  <2>3. AgeDays(filed[s], now) <= MaxWindow
    BY <1>6, <1>7, <2>1, <2>2, SpanAssumption
  <2>4. QED
    BY <1>2, <2>1, <2>3 DEF Joinable
<1> DEFINE ages == {AgeDays(filed[s], now) : s \in refreshing'}
<1>8. ages \in SUBSET Int
  <2>1. refreshing' \in SUBSET Symbol /\ \A s \in refreshing' : filed[s] # {}
    BY <1>3, <1>6, CachedAssumption
  <2>2. QED
    BY <1>1, <1>5, <2>1, AgesInt DEF ages
<1>9. \A s \in refreshing' : AgeDays(filed[s], now) \in ages
  OBVIOUS
<1> HIDE DEF ages
<1>10. missing' = {} => delay' = RefreshDays(ages)
  BY <1>3 DEF ages
<1>11. /\ RefreshDays(ages) \in RecentDays .. MaxWindow
       /\ \A a \in ages : a + 2 <= RefreshDays(ages) \/ RefreshDays(ages) = MaxWindow
  BY <1>8, RefreshDaysReach
<1>12. missing' # {} => delay' = OldestDelay(n)
  BY <1>3
<1>13. Planned(n, OldestDelay(n)) /\ OldestDelay(n) \in Nat /\ OldestDelay(n) < n
  BY <1>4, PlanStarts DEF Planned
<1>14. delay' \in Int /\ delay' >= -MaxWindow
  <2>1. CASE missing' = {}
    <3>1. delay' \in RecentDays .. MaxWindow /\ delay' \in Int
      BY <1>10, <1>11, <2>1
    <3>2. QED
      BY <3>1, DelayType
  <2>2. CASE missing' # {}
    <3>1. delay' \in Int /\ -MaxWindow <= delay'
      BY <1>4, <1>12, <1>13, <2>2, SpanAssumption
    <3>2. QED
      BY <3>1, DelayType
  <2>3. QED
    BY <2>1, <2>2
<1>15. missing' \subseteq Symbol /\ \A s \in Cached : held'[s] = filed[s]
  BY <1>2, <1>3, CachedAssumption
<1>16. TypeOK'
  BY <1>1, <1>2, <1>14, <1>15 DEF TypeOK
<1>17. Past'
  BY <1>1, <1>2, <1>5 DEF Past
<1>18. BacktestTypeOK'
  BY <1>2, <1>3 DEF BacktestTypeOK
<1>19. OneAtATime'
  BY <1>2, <1>3 DEF OneAtATime
<1>20. WindowsDownloaded'
  <2>1. Before(begun', n, OldestDelay(n)) = {}
    BY <1>2, <1>4, <1>5, NothingBefore
  <2>2. CASE missing' = {}
    BY <1>3, <2>2 DEF WindowsDownloaded
  <2>3. CASE missing' # {}
    BY <1>2, <1>3, <1>12, <1>13, <2>1, <2>3 DEF WindowsDownloaded
  <2>4. QED
    BY <2>2, <2>3
<1>21. WaitsForRefresh'
  <2>1. \A s \in refreshing' : held'[s] = filed[s] /\ held'[s] # {}
    BY <1>3, <1>6, <1>15
  <2>2. \A s \in whole' \ missing' : Joinable(held'[s], begun') /\ Gapless(held'[s])
    BY <1>7 DEF Joinable
  <2>3. missing' = {} => /\ delay' \in RecentDays .. MaxWindow
                         /\ \A s \in refreshing' :
                               AgeDays(held'[s], begun') + 2 <= delay' \/ delay' = MaxWindow
    BY <1>2, <1>9, <1>10, <1>11, <2>1
  <2>4. QED
    BY <1>3, <2>1, <2>2, <2>3 DEF WaitsForRefresh
<1>22. QED
  BY <1>2, <1>16, <1>17, <1>18, <1>19, <1>20, <1>21, BackfillStopped DEF RunnerInv

\* A merge adds to some symbols and touches no other.
LEMMA MergedKeeps ==
    ASSUME TypeOK, Past, NEW symbols \in SUBSET Symbol, NEW moments,
           moments \subseteq Moment, moments \subseteq 1 .. now
    PROVE  /\ Merged(symbols, moments) \in [Symbol -> SUBSET Moment]
           /\ \A s \in Symbol : Merged(symbols, moments)[s] \subseteq 1 .. now
           /\ \A s \in symbols : Merged(symbols, moments)[s] = held[s] \cup moments
           /\ \A s \in Symbol \ symbols : Merged(symbols, moments)[s] = held[s]
BY DEF TypeOK, Past, Merged

\* A save of some files leaves the others.
LEMMA SaveKeeps ==
    ASSUME TypeOK, Past, NEW history \in [Symbol -> SUBSET Moment], NEW saved,
           \A s \in Symbol : history[s] \subseteq 1 .. now, Save(saved, history)
    PROVE  filed' \in [Symbol -> SUBSET Moment] /\ \A s \in Symbol : filed'[s] \subseteq 1 .. now
BY DEF TypeOK, Past, Save

LEMMA SaveFailsKeeps ==
    ASSUME TypeOK, Past, NEW history \in [Symbol -> SUBSET Moment],
           \A s \in Symbol : history[s] \subseteq 1 .. now, SaveFails(history)
    PROVE  filed' \in [Symbol -> SUBSET Moment] /\ \A s \in Symbol : filed'[s] \subseteq 1 .. now
BY SaveKeeps DEF SaveFails

LEMMA FetchWindowInv ==
    ASSUME RunnerInv, FetchWindow
    PROVE  RunnerInv'
<1> DEFINE window == Days(now, delay, Duration(days, delay))
           history == Merged(missing, window)
           next == delay - MaxWindow
           ages == {AgeDays(held[s], begun) : s \in refreshing}
<1>1. /\ TypeOK /\ Past /\ BacktestTypeOK /\ OneAtATime /\ WindowsDownloaded /\ WaitsForRefresh
  BY DEF RunnerInv, BackfillInv
<1>2. /\ runner = "full"
      /\ UNCHANGED <<now, stop, pc, begun, missing, received, refused, cause, days, refreshing, whole>>
  BY DEF FetchWindow
<1>3. pc = "off" /\ refreshing \cap missing = {}
  BY <1>1, <1>2 DEF OneAtATime
<1>4. days \in Nat \ {0}
  BY <1>1, DaysNat
<1>5. Planned(days, delay) /\ delay \in Nat /\ delay < days
  BY <1>1, <1>2, <1>4, PlanContinues DEF WindowsDownloaded, Planned
<1>6. window \subseteq 1 .. now /\ window \subseteq Moment
  BY <1>1, <1>5, DaysPast DEF TypeOK
<1>7. missing \in SUBSET Symbol /\ refreshing \in SUBSET Symbol /\ begun \in Int
  BY <1>1, MomentInt, CachedAssumption DEF TypeOK, BacktestTypeOK
<1> HIDE DEF window
<1>8. /\ history \in [Symbol -> SUBSET Moment] /\ \A s \in Symbol : history[s] \subseteq 1 .. now
      /\ \A s \in missing : history[s] = held[s] \cup window
      /\ \A s \in Symbol \ missing : history[s] = held[s]
  BY <1>1, <1>6, <1>7, MergedKeeps
<1>9. ages \in SUBSET Int /\ \A s \in refreshing : AgeDays(held[s], begun) \in ages
  <2>1. \A s \in refreshing : held[s] # {}
    BY <1>1, <1>2 DEF WaitsForRefresh
  <2>2. ages \in SUBSET Int
    BY <1>1, <1>7, <2>1, AgesInt
  <2>3. QED
    BY <2>2
<1>10. \/ /\ held' = history /\ Save(Cached, history)
          /\ IF next >= 0 THEN runner' = "full" /\ delay' = next
             ELSE /\ runner' = IF refreshing # {} THEN "refresh" ELSE "ready"
                  /\ delay' = RefreshDays(ages)
       \/ /\ runner' = "failed"
          /\ SaveFails(history)
          /\ UNCHANGED <<held, delay>>
  BY DEF FetchWindow, window
<1>11. ASSUME now = begun, NEW s \in missing
       PROVE  /\ next >= 0 => Before(begun, days, next) \subseteq history[s]
              /\ next < 0 => Days(begun, 0, days) \subseteq history[s]
  <2>1. Before(begun, days, delay) \subseteq held[s]
    BY <1>1, <1>2, <1>11 DEF WindowsDownloaded
  <2>2. held[s] \subseteq history[s] /\ Days(begun, delay, Duration(days, delay)) \subseteq history[s]
    BY <1>8, <1>11 DEF window
  <2>3. days \in Nat
    BY <1>4
  <2> HIDE DEF history
  <2>4. QED
    BY <1>5, <1>7, <2>1, <2>2, <2>3, WindowMerged
<1>12. /\ RefreshDays(ages) \in RecentDays .. MaxWindow
       /\ \A a \in ages : a + 2 <= RefreshDays(ages) \/ RefreshDays(ages) = MaxWindow
  BY <1>9, RefreshDaysReach
<1>13. OneAtATime'
  BY <1>1, <1>2, <1>3, <1>10 DEF OneAtATime
<1>14. BacktestTypeOK'
  BY <1>1, <1>2, <1>10 DEF BacktestTypeOK
<1>15. \A s \in Symbol \ missing : history[s] = held[s]
  BY <1>8
<1>16. refreshing \subseteq Symbol \ missing /\ whole \subseteq Symbol
  BY <1>1, <1>3, CachedAssumption DEF BacktestTypeOK
<1> HIDE DEF history, ages
<1>17. ASSUME held' = history, runner' = "full" \/ runner' \in {"refresh", "ready"},
              runner' = "refresh" => delay' = RefreshDays(ages)
       PROVE  WaitsForRefresh'
  <2>1. \A s \in refreshing : held'[s] = held[s] /\ held[s] # {}
    BY <1>1, <1>2, <1>15, <1>16, <1>17 DEF WaitsForRefresh
  <2>2. now = begun => \A s \in whole \ missing : held'[s] = held[s] /\ Joinable(held[s], begun)
    BY <1>1, <1>2, <1>15, <1>16, <1>17 DEF WaitsForRefresh
  <2>3. now = begun => \A s \in whole \ missing : Gapless(held'[s])
    BY <2>2 DEF Joinable
  <2>4. runner' = "refresh" =>
            /\ delay' \in RecentDays .. MaxWindow
            /\ \A s \in refreshing : AgeDays(held[s], begun) + 2 <= delay' \/ delay' = MaxWindow
    BY <1>9, <1>12, <1>17
  <2>5. QED
    BY <1>2, <2>1, <2>2, <2>3, <2>4 DEF WaitsForRefresh
<1>18. CASE held' = history /\ Save(Cached, history) /\ next >= 0 /\ runner' = "full" /\ delay' = next
  <2>1. Planned(days, next) /\ next \in Int /\ -MaxWindow <= next
    BY <1>4, <1>5, <1>18, PlanContinues, SpanAssumption
  <2>2. TypeOK'
    BY <1>1, <1>2, <1>8, <1>18, <2>1, DelayType, SaveKeeps DEF TypeOK
  <2>3. Past'
    BY <1>1, <1>2, <1>8, <1>18, SaveKeeps DEF Past
  <2>4. WindowsDownloaded'
    BY <1>2, <1>11, <1>18, <2>1 DEF WindowsDownloaded
  <2>5. WaitsForRefresh'
    BY <1>17, <1>18
  <2>6. QED
    BY <1>2, <1>3, <1>13, <1>14, <2>2, <2>3, <2>4, <2>5, BackfillStopped DEF RunnerInv
<1>19. CASE /\ held' = history /\ Save(Cached, history) /\ ~(next >= 0)
            /\ runner' = (IF refreshing # {} THEN "refresh" ELSE "ready")
            /\ delay' = RefreshDays(ages)
  <2>1. runner' \in {"refresh", "ready"}
    BY <1>19
  <2>2. delay' \in Int /\ delay' >= -MaxWindow
    BY <1>12, <1>19, DelayType
  <2>3. TypeOK'
    BY <1>1, <1>2, <1>8, <1>19, <2>2, SaveKeeps DEF TypeOK
  <2>4. Past'
    BY <1>1, <1>2, <1>8, <1>19, SaveKeeps DEF Past
  <2>5. next < 0
    BY <1>5, <1>19, SpanAssumption
  <2>6. WindowsDownloaded'
    BY <1>2, <1>11, <1>19, <2>1, <2>5 DEF WindowsDownloaded
  <2>7. WaitsForRefresh'
    BY <1>17, <1>19, <2>1
  <2>8. QED
    BY <1>2, <1>3, <1>13, <1>14, <2>3, <2>4, <2>6, <2>7, BackfillStopped DEF RunnerInv
<1>20. CASE runner' = "failed" /\ SaveFails(history) /\ UNCHANGED <<held, delay>>
  <2>1. filed' \in [Symbol -> SUBSET Moment] /\ \A s \in Symbol : filed'[s] \subseteq 1 .. now
    BY <1>1, <1>8, <1>20, SaveFailsKeeps
  <2>2. TypeOK' /\ Past'
    BY <1>1, <1>2, <1>20, <2>1 DEF TypeOK, Past
  <2>3. WindowsDownloaded' /\ WaitsForRefresh'
    BY <1>20 DEF WindowsDownloaded, WaitsForRefresh
  <2>4. QED
    BY <1>2, <1>3, <1>13, <1>14, <2>2, <2>3, BackfillStopped DEF RunnerInv
<1>21. QED
  BY <1>10, <1>18, <1>19, <1>20

LEMMA RefreshInv ==
    ASSUME RunnerInv, Refresh
    PROVE  RunnerInv'
<1> DEFINE window == Days(now, 0, delay)
           history == Merged(refreshing, window)
<1>1. /\ TypeOK /\ Past /\ BacktestTypeOK /\ OneAtATime /\ WindowsDownloaded /\ WaitsForRefresh
  BY DEF RunnerInv, BackfillInv
<1>2. /\ runner = "refresh" /\ runner' = "ready"
      /\ UNCHANGED <<now, stop, pc, begun, missing, delay, received, refused, cause, days, refreshing, whole>>
  BY DEF Refresh
<1>3. pc = "off" /\ refreshing \cap missing = {}
  BY <1>1, <1>2 DEF OneAtATime
<1>4. delay \in RecentDays .. MaxWindow /\ delay \in Nat
  <2>1. RecentDays \in Nat
    BY BacktestAssumption
  <2>2. QED
    BY <1>1, <1>2, <2>1 DEF WaitsForRefresh
<1>5. window \subseteq 1 .. now /\ window \subseteq Moment
  BY <1>1, DaysPast DEF TypeOK
<1>6. refreshing \in SUBSET Symbol /\ missing \in SUBSET Symbol /\ whole \in SUBSET Symbol
  BY <1>1, CachedAssumption DEF TypeOK, BacktestTypeOK
<1> HIDE DEF window
<1>7. /\ history \in [Symbol -> SUBSET Moment] /\ \A s \in Symbol : history[s] \subseteq 1 .. now
      /\ \A s \in refreshing : history[s] = held[s] \cup window
      /\ \A s \in Symbol \ refreshing : history[s] = held[s]
  BY <1>1, <1>5, <1>6, MergedKeeps
<1> HIDE DEF history
<1>8. (held' = history /\ Save(Cached, history)) \/ (held' = held /\ SaveFails(history))
  BY DEF Refresh, history, window
<1>9. /\ held' \in [Symbol -> SUBSET Moment] /\ \A s \in Symbol : held'[s] \subseteq 1 .. now
      /\ filed' \in [Symbol -> SUBSET Moment] /\ \A s \in Symbol : filed'[s] \subseteq 1 .. now
  <2>1. CASE held' = history /\ Save(Cached, history)
    BY <1>1, <1>7, <2>1, SaveKeeps
  <2>2. CASE held' = held /\ SaveFails(history)
    BY <1>1, <1>7, <2>2, SaveFailsKeeps DEF TypeOK, Past
  <2>3. QED
    BY <1>8, <2>1, <2>2
<1>10. TypeOK' /\ Past'
  BY <1>1, <1>2, <1>9 DEF TypeOK, Past
<1>11. BacktestTypeOK' /\ OneAtATime'
  BY <1>1, <1>2 DEF BacktestTypeOK, OneAtATime
<1>12. \A s \in missing : held'[s] = held[s]
  BY <1>3, <1>6, <1>7, <1>8
<1>13. WindowsDownloaded'
  BY <1>1, <1>2, <1>12 DEF WindowsDownloaded
<1>14. ASSUME now = begun, NEW s \in whole \ missing
       PROVE  Gapless(held'[s])
  <2>1. Joinable(held[s], begun) /\ s \in Symbol
    BY <1>1, <1>2, <1>6, <1>14 DEF WaitsForRefresh
  <2>2. held[s] # {} /\ Gapless(held[s]) /\ RefreshReaches(held[s], now) /\ AgeDays(held[s], now) <= MaxWindow
    BY <1>14, <2>1 DEF Joinable
  <2>3. CASE held'[s] = held[s]
    BY <2>2, <2>3
  <2>4. CASE s \in refreshing /\ held'[s] = held[s] \cup window
    <3>1. AgeDays(held[s], now) + 2 <= delay \/ delay = MaxWindow
      BY <1>1, <1>2, <1>14, <2>4 DEF WaitsForRefresh
    <3>2. held[s] \in SUBSET Moment /\ held[s] \subseteq 1 .. now /\ now \in First .. Latest
      BY <1>1, <2>1 DEF TypeOK, Past
    <3>3. now - PerDay * delay <= Newest(held[s])
      BY <1>4, <2>2, <3>1, <3>2, RefreshJoins
    <3>4. Gapless(held[s] \cup Days(now, 0, delay))
      BY <1>4, <2>2, <3>2, <3>3, JoinedGapless
    <3>5. QED
      BY <2>4, <3>4 DEF window
  <2>5. QED
    BY <1>7, <1>8, <2>1, <2>3, <2>4
<1>15. WaitsForRefresh'
  BY <1>2, <1>14 DEF WaitsForRefresh
<1>16. QED
  BY <1>2, <1>3, <1>10, <1>11, <1>13, <1>15, BackfillStopped DEF RunnerInv

LEMMA FinishInv ==
    ASSUME RunnerInv, Finish
    PROVE  RunnerInv'
<1>1. TypeOK /\ Past /\ BacktestTypeOK /\ OneAtATime
  BY DEF RunnerInv, BackfillInv
<1>2. /\ runner # "off" /\ runner' = "off" /\ held' = Nothing
      /\ begun' = First /\ missing' = {} /\ delay' = 0 /\ received' = Nothing /\ refused' = {}
      /\ cause' = None
      /\ days' = Lookback /\ refreshing' = {} /\ whole' = {}
      /\ UNCHANGED <<now, stop, pc, filed>>
  BY DEF Finish, Forget
<1>3. pc = "off"
  BY <1>1, <1>2 DEF OneAtATime
<1>4. 0 \in Int /\ 0 >= -MaxWindow
  BY SpanAssumption
<1>5. TypeOK' /\ Past'
  BY <1>1, <1>2, <1>4, MomentInt, NothingHeld DEF TypeOK, Past
<1>6. BacktestTypeOK' /\ OneAtATime' /\ WindowsDownloaded' /\ WaitsForRefresh'
  BY <1>2 DEF BacktestTypeOK, OneAtATime, WindowsDownloaded, WaitsForRefresh
<1>7. QED
  BY <1>2, <1>3, <1>5, <1>6, BackfillStopped DEF RunnerInv

\* The monitor, while no backtest runs, and the calendar.
LEMMA MonitorInv ==
    ASSUME RunnerInv, Monitor \/ NextMoment, UNCHANGED backtest
    PROVE  RunnerInv'
<1>1. BackfillInv /\ BacktestTypeOK /\ OneAtATime /\ WindowsDownloaded /\ WaitsForRefresh
  BY DEF RunnerInv
<1>2. UNCHANGED <<runner, days, refreshing, whole>>
  BY DEF backtest
<1>3. BacktestTypeOK'
  BY <1>1, <1>2 DEF BacktestTypeOK
<1>4. CASE Monitor
  <2>1. runner = "off"
    BY <1>4 DEF Monitor
  <2>2. BackfillInv'
    BY <1>1, <1>4, NextInv DEF Monitor, Next
  <2>3. OneAtATime' /\ WindowsDownloaded' /\ WaitsForRefresh'
    BY <1>1, <1>2, <2>1 DEF OneAtATime, WindowsDownloaded, WaitsForRefresh
  <2>4. QED
    BY <1>3, <2>2, <2>3 DEF RunnerInv
<1>5. CASE NextMoment
  <2>1. BackfillInv' /\ now' # begun'
    BY <1>1, <1>5, NextMomentInv
  <2>2. UNCHANGED <<pc, begun, missing, delay, held>>
    BY <1>5 DEF NextMoment, backfill
  <2>3. OneAtATime' /\ WindowsDownloaded' /\ WaitsForRefresh'
    BY <1>1, <1>2, <2>1, <2>2 DEF OneAtATime, WindowsDownloaded, WaitsForRefresh
  <2>4. QED
    BY <1>3, <2>1, <2>3 DEF RunnerInv
<1>6. QED
  BY <1>4, <1>5

LEMMA RunnerNextInv == RunnerInv /\ [BacktestNext]_allVars => RunnerInv'
<1> SUFFICES ASSUME RunnerInv, [BacktestNext]_allVars PROVE RunnerInv'
  OBVIOUS
<1>1. CASE Backtest
  BY <1>1, LoadHistoryInv, FetchWindowInv, RefreshInv, FinishInv DEF Backtest
<1>2. CASE (Monitor \/ NextMoment) /\ UNCHANGED backtest
  BY <1>2, MonitorInv
<1>3. CASE UNCHANGED allVars
  <2>1. UNCHANGED vars /\ UNCHANGED <<runner, days, refreshing, whole>>
    BY <1>3 DEF allVars, backtest
  <2>2. BackfillInv'
    BY <2>1, NextInv DEF RunnerInv
  <2>3. UNCHANGED <<now, pc, begun, missing, delay, held>>
    BY <2>1 DEF vars, backfill
  <2>4. BacktestTypeOK' /\ OneAtATime' /\ WindowsDownloaded' /\ WaitsForRefresh'
    BY <2>1, <2>3 DEF RunnerInv, BacktestTypeOK, OneAtATime, WindowsDownloaded, WaitsForRefresh
  <2>5. QED
    BY <2>2, <2>4 DEF RunnerInv
<1>4. QED
  BY <1>1, <1>2, <1>3 DEF BacktestNext

LEMMA RunnerInitInv == BacktestInit => RunnerInv
<1> SUFFICES ASSUME BacktestInit PROVE RunnerInv
  OBVIOUS
<1>1. BackfillInv
  BY InitInv DEF BacktestInit
<1>2. /\ runner = "off" /\ days = Lookback /\ refreshing = {} /\ whole = {}
  BY DEF BacktestInit
<1>3. BacktestTypeOK /\ OneAtATime /\ WindowsDownloaded /\ WaitsForRefresh
  BY <1>2 DEF BacktestTypeOK, OneAtATime, WindowsDownloaded, WaitsForRefresh
<1>4. QED
  BY <1>1, <1>3 DEF RunnerInv

-----------------------------------------------------------------------------
(* The theorems about the monitor and the runner on one cache.             *)

\* Type correctness of the two together.
THEOREM CacheTypeCorrect == BacktestSpec => [](TypeOK /\ BacktestTypeOK)
<1>1. RunnerInv => TypeOK /\ BacktestTypeOK
  BY DEF RunnerInv, BackfillInv
<1>2. QED
  BY <1>1, RunnerInitInv, RunnerNextInv, PTL DEF BacktestSpec

\* A backfill keeps its promise also when backtests write the cache between two runs of
\* the monitor.
THEOREM BackfillCompleteBetween == BacktestSpec => []CompleteAtOnce
<1>1. RunnerInv => CompleteAtOnce
  BY DEF RunnerInv, BackfillInv
<1>2. QED
  BY <1>1, RunnerInitInv, RunnerNextInv, PTL DEF BacktestSpec

\* A backtest that is given its history at once has the whole range of what it had to
\* download, and no gap that the cache did not have in the rest.
THEOREM BacktestIsCovered == BacktestSpec => []BacktestCovered
<1>1. RunnerInv => BacktestCovered
  BY DEF RunnerInv, WindowsDownloaded, WaitsForRefresh, BacktestCovered
<1>2. QED
  BY <1>1, RunnerInitInv, RunnerNextInv, PTL DEF BacktestSpec

=============================================================================
