------------------------ MODULE SetupCalibrationProofs ------------------------
(***************************************************************************)
(* Proofs about SetupCalibration: its type invariant, the separation of    *)
(* the samples of a wave key, and that the CSV file implements the         *)
(* abstract ledger when no write is torn.                                  *)
(***************************************************************************)
EXTENDS SetupCalibration, WellFoundedInduction, TLAPS

\* A nonempty set of minutes has a least element.
LEMMA LeastMinute ==
    ASSUME NEW S \in SUBSET Minute, S # {}
    PROVE  \E m \in S : \A n \in S : m <= n
<1>1. S \subseteq Nat
  BY MinuteAssumption DEF Minute
<1>2. PICK m \in S : \A n \in S : <<n, m>> \notin OpToRel(<, Nat)
  BY <1>1, NatLessThanWellFounded, WFMin, Zenon
<1>3. \A n \in S : ~(n < m)
  BY <1>1, <1>2 DEF OpToRel
<1>4. QED
  BY <1>1, <1>3

\* FirstTouch is one of the touching minutes.
LEMMA FirstTouchIn ==
    ASSUME NEW r, NEW h, Touches(r, h) # {}
    PROVE  FirstTouch(r, h) \in Touches(r, h)
<1>1. Touches(r, h) \subseteq Minute
  BY DEF Touches
<1>2. \E m \in Touches(r, h) : \A n \in Touches(r, h) : m <= n
  BY <1>1, LeastMinute
<1>3. QED
  BY <1>2 DEF FirstTouch

\* Resolution keeps what was frozen, keeps a resolved record as it is, and
\* yields a record.
LEMMA ResolveKeeps ==
    ASSUME NEW r \in Record, NEW h
    PROVE  /\ Resolve(r, h) \in Record
           /\ Resolve(r, h).wave = r.wave
           /\ Resolve(r, h).seen = r.seen
           /\ Resolve(r, h).entry = r.entry
           /\ Resolve(r, h).bucket = r.bucket
           /\ r.outcome # Pending => Resolve(r, h) = r
<1>1. CASE r.outcome # Pending
  BY <1>1 DEF Resolve
<1>2. CASE r.outcome = Pending /\ Touches(r, h) # {}
  <2>1. FirstTouch(r, h) \in Minute
    BY <1>2, FirstTouchIn DEF Touches
  <2>2. TouchOutcome(r, h[FirstTouch(r, h)]) \in Outcome
    BY DEF TouchOutcome, Outcome
  <2>3. QED
    BY <1>2, <2>1, <2>2 DEF Resolve, Settle, Record
<1>3. CASE r.outcome = Pending /\ Touches(r, h) = {} /\ TimedOut(r, h)
  <2>1. Deadline(r) \in Minute
    BY <1>3, MinuteAssumption, HorizonAssumption DEF TimedOut, Deadline, Minute, Record
  <2>2. QED
    BY <1>3, <2>1 DEF Resolve, Settle, Record, Outcome
<1>4. CASE r.outcome = Pending /\ Touches(r, h) = {} /\ ~TimedOut(r, h)
  BY <1>4 DEF Resolve
<1>5. QED
  BY <1>1, <1>2, <1>3, <1>4

-----------------------------------------------------------------------------
(* One call of observe_and_enrich, as an operation on a set of records.    *)

LEMMA SucceedsTransitive ==
    ASSUME NEW e, NEW f, NEW g, Ledger!Succeeds(e, f), Ledger!Succeeds(f, g)
    PROVE  Ledger!Succeeds(e, g)
BY DEF Ledger!Succeeds, Ledger!SameSample

\* Resolving the pending records preserves everything but their outcomes.
LEMMA ResolvePendingPreserves ==
    ASSUME NEW S \in SUBSET Record
    PROVE  /\ ResolvePending(S) \subseteq Record
           /\ \A r \in S : \E f \in ResolvePending(S) : Ledger!Succeeds(r, f)
           /\ \A f \in ResolvePending(S) : \E r \in S : r.seen = f.seen
           /\ Ledger!OnePending(S) => Ledger!OnePending(ResolvePending(S))
           /\ Ledger!Separated(S) => Ledger!Separated(ResolvePending(S))
<1> DEFINE R(r) == Resolve(r, bars[SymbolOf(r.wave)])
<1>1. ResolvePending(S) = {R(r) : r \in S}
  BY DEF ResolvePending
<1>2. \A r \in S : /\ R(r) \in Record /\ R(r).wave = r.wave /\ R(r).seen = r.seen
                   /\ R(r).entry = r.entry /\ R(r).bucket = r.bucket
                   /\ r.outcome # Pending => R(r) = r
  BY ResolveKeeps
<1> HIDE DEF R
<1>3. ResolvePending(S) \subseteq Record
  BY <1>1, <1>2
<1>4. \A r \in S : \E f \in ResolvePending(S) : Ledger!Succeeds(r, f)
  BY <1>1, <1>2 DEF Ledger!Succeeds, Ledger!SameSample, Ledger!Pending, Pending
<1>5. \A f \in ResolvePending(S) : \E r \in S : r.seen = f.seen
  BY <1>1, <1>2
<1>6. ASSUME Ledger!OnePending(S) PROVE Ledger!OnePending(ResolvePending(S))
  BY <1>1, <1>2, <1>6 DEF Ledger!OnePending, Ledger!Pending, Pending
<1>7. ASSUME Ledger!Separated(S) PROVE Ledger!Separated(ResolvePending(S))
  BY <1>1, <1>2, <1>7 DEF Ledger!Separated
<1>8. QED
  BY <1>3, <1>4, <1>5, <1>6, <1>7

\* Entering the new waves of a scan at t keeps one pending sample and the
\* separation, when no record is from after t.
LEMMA StartNewWavesPreserves ==
    ASSUME NEW S \in SUBSET Record, NEW t \in Minute,
           NEW obs \in [Wave -> Observation],
           \A r \in S : r.seen <= t
    PROVE  /\ StartNewWaves(S, t, obs) \subseteq Record
           /\ S \subseteq StartNewWaves(S, t, obs)
           /\ \A r \in StartNewWaves(S, t, obs) : r.seen <= t
           /\ Ledger!OnePending(S) => Ledger!OnePending(StartNewWaves(S, t, obs))
           /\ Ledger!Separated(S) => Ledger!Separated(StartNewWaves(S, t, obs))
<1> DEFINE New == {NewRecord(w, t, obs[w]) : w \in {v \in Wave : Starts(S, t, obs, v)}}
<1>1. StartNewWaves(S, t, obs) = S \cup New
  BY DEF StartNewWaves
<1>2. \A r \in New : /\ r \in Record
                     /\ r.seen = t
                     /\ r.outcome = Pending
                     /\ ~AlreadyObserved(S, r.wave, t)
  <2>1. SUFFICES ASSUME NEW w \in Wave, Starts(S, t, obs, w)
                 PROVE  LET r == NewRecord(w, t, obs[w])
                        IN  /\ r \in Record
                            /\ r.seen = t
                            /\ r.outcome = Pending
                            /\ ~AlreadyObserved(S, r.wave, t)
    OBVIOUS
  <2>2. obs[w].entry \in EntryPrice \ {0} /\ obs[w].bucket \in Bucket
    BY <2>1, PriceAssumption DEF Observation, Starts
  <2>3. QED
    BY <2>1, <2>2 DEF NewRecord, Record, Outcome, Starts, Pending
<1>3. \A e, f \in New : e.wave = f.wave => e = f
  BY DEF NewRecord
<1>4. \A e \in New, f \in S : e.wave = f.wave =>
          f.outcome # Pending /\ e.seen > f.seen + Horizon
  <2>1. SUFFICES ASSUME NEW e \in New, NEW f \in S, e.wave = f.wave
                 PROVE  f.outcome # Pending /\ e.seen > f.seen + Horizon
    OBVIOUS
  <2>2. f.outcome # Pending /\ ~(f.seen <= t /\ f.seen >= t - Horizon)
    BY <1>2, <2>1 DEF AlreadyObserved
  <2>3. f.seen <= t /\ f.seen \in Int /\ t \in Int /\ Horizon \in Int
    BY <2>1, HorizonAssumption DEF Record, Minute
  <2>4. e.seen = t
    BY <1>2, <2>1
  <2>5. QED
    BY <2>2, <2>3, <2>4
<1> HIDE DEF New
<1>5. \A r \in S \cup New : r.seen <= t
  BY <1>2 DEF Minute
<1>6. ASSUME Ledger!OnePending(S) PROVE Ledger!OnePending(S \cup New)
  BY <1>3, <1>4, <1>6 DEF Ledger!OnePending, Ledger!Pending, Pending
<1>7. ASSUME Ledger!Separated(S) PROVE Ledger!Separated(S \cup New)
  BY <1>3, <1>4, <1>7 DEF Ledger!Separated
<1>8. QED
  BY <1>1, <1>2, <1>5, <1>6, <1>7

-----------------------------------------------------------------------------
(* The invariant.                                                          *)

\* What a call of observe_and_enrich does to the records in memory.
LEMMA ObserveKeeps ==
    ASSUME CalibrationInv, NEW t \in Minute, NEW obs \in [Wave -> Observation],
           NEW result \in SaveResult, ObserveAndEnrich(t, obs, result)
    PROVE  /\ records' \subseteq Record
           /\ \A r \in records' : r.seen <= scanned'
           /\ Ledger!OnePending(records')
           /\ Ledger!Separated(records')
           /\ \A r \in records : \E f \in records' : Ledger!Succeeds(r, f)
<1> DEFINE R == ResolvePending(records)
<1>1. /\ records \in SUBSET Record
      /\ Ledger!OnePending(records)
      /\ Ledger!Separated(records)
  BY DEF CalibrationInv, TypeOK, OnePending, Separated
<1>2. \A r \in records : r.seen <= t
  <2>1. \A r \in records : r.seen <= scanned /\ r.seen \in Int
    BY <1>1 DEF CalibrationInv, SeenScanned, Record, Minute
  <2>2. scanned <= t /\ scanned \in Int /\ t \in Int
    BY DEF ObserveAndEnrich, CalibrationInv, TypeOK, Minute
  <2>3. QED
    BY <2>1, <2>2
<1>3. /\ R \in SUBSET Record
      /\ \A r \in records : \E f \in R : Ledger!Succeeds(r, f)
      /\ Ledger!OnePending(R)
      /\ Ledger!Separated(R)
  BY <1>1, ResolvePendingPreserves
<1>4. \A r \in R : r.seen <= t
  BY <1>1, <1>2, ResolvePendingPreserves
<1>5. records' = StartNewWaves(R, t, obs) /\ scanned' = t
  BY DEF ObserveAndEnrich
<1> HIDE DEF R
<1>6. /\ records' \subseteq Record
      /\ R \subseteq records'
      /\ \A r \in records' : r.seen <= t
      /\ Ledger!OnePending(records')
      /\ Ledger!Separated(records')
  BY <1>3, <1>4, <1>5, StartNewWavesPreserves
<1>7. QED
  BY <1>3, <1>5, <1>6

\* A save leaves the records of memory, the old ones, or none.
LEMMA SaveOutcomes ==
    ASSUME CalibrationInv, NEW t \in Minute, NEW obs \in [Wave -> Observation],
           NEW result \in SaveResult, ObserveAndEnrich(t, obs, result)
    PROVE  /\ stored' \in {records', stored, {}}
           /\ readable' \in BOOLEAN
           /\ result # "torn" => stored' \in {records', stored}
BY DEF ObserveAndEnrich, Save, disk, CalibrationInv, TypeOK

LEMMA ObserveInv ==
    ASSUME CalibrationInv, NEW t \in Minute, NEW obs \in [Wave -> Observation],
           NEW result \in SaveResult, ObserveAndEnrich(t, obs, result)
    PROVE  CalibrationInv'
<1>1. \A r \in stored : r.seen <= scanned'
  <2>1. \A r \in stored : r.seen <= scanned /\ r.seen \in Int
    BY DEF CalibrationInv, SeenScanned, TypeOK, Record, Minute
  <2>2. scanned <= scanned' /\ scanned \in Int /\ scanned' \in Int
    BY DEF ObserveAndEnrich, CalibrationInv, TypeOK, Minute
  <2>3. QED
    BY <2>1, <2>2
<1>2. TypeOK'
  <2>1. /\ scanned' \in Minute \cup {-1}
        /\ fresh' \in BOOLEAN
        /\ clock' \in Minute
        /\ bars' \in [Symbol -> [Minute -> Bar \cup {NoBar}]]
    BY DEF ObserveAndEnrich, CalibrationInv, TypeOK
  <2>2. active' \in [Wave -> BOOLEAN]
    BY DEF ObserveAndEnrich, Observation, CalibrationInv, TypeOK
  <2>3. records' \subseteq Record /\ stored' \subseteq Record /\ readable' \in BOOLEAN
    BY ObserveKeeps, SaveOutcomes DEF CalibrationInv, TypeOK
  <2>4. QED
    BY <2>1, <2>2, <2>3 DEF TypeOK
<1>3. SeenScanned'
  BY <1>1, ObserveKeeps, SaveOutcomes DEF SeenScanned
<1>4. OnePending'
  <2>1. Ledger!OnePending({})
    BY DEF Ledger!OnePending
  <2>2. Ledger!OnePending(stored)
    BY DEF CalibrationInv, OnePending
  <2>3. QED
    BY <2>1, <2>2, ObserveKeeps, SaveOutcomes DEF OnePending
<1>5. Separated'
  <2>1. Ledger!Separated({})
    BY DEF Ledger!Separated
  <2>2. Ledger!Separated(stored)
    BY DEF CalibrationInv, Separated
  <2>3. QED
    BY <2>1, <2>2, ObserveKeeps, SaveOutcomes DEF Separated
<1>6. MemoryCoversDisk'
  <2>1. \A e \in stored : \E f \in records' : Ledger!Succeeds(e, f)
    BY ObserveKeeps, SucceedsTransitive DEF CalibrationInv, MemoryCoversDisk
  <2>2. \A e \in records' : Ledger!Succeeds(e, e)
    BY DEF Ledger!Succeeds, Ledger!SameSample
  <2>3. QED
    BY <2>1, <2>2, SaveOutcomes DEF MemoryCoversDisk
<1>7. QED
  BY <1>2, <1>3, <1>4, <1>5, <1>6 DEF CalibrationInv

\* A restart replaces the memory with a copy of the file.
LEMMA RestartInv ==
    ASSUME CalibrationInv, Restart
    PROVE  CalibrationInv'
<1>1. records' = stored /\ stored' = stored /\ scanned' = scanned
  BY DEF Restart, disk
<1>2. TypeOK'
  BY DEF Restart, disk, CalibrationInv, TypeOK
<1>3. SeenScanned'
  BY <1>1 DEF CalibrationInv, SeenScanned
<1>4. OnePending' /\ Separated'
  BY <1>1 DEF CalibrationInv, OnePending, Separated
<1>5. MemoryCoversDisk'
  BY <1>1 DEF MemoryCoversDisk, Ledger!Succeeds, Ledger!SameSample
<1>6. QED
  BY <1>2, <1>3, <1>4, <1>5 DEF CalibrationInv

\* The clock and the bars are not part of what the invariant relates.
LEMMA EnvironmentInv ==
    ASSUME CalibrationInv, UNCHANGED <<memory, disk>>, clock' \in Minute,
           bars' \in [Symbol -> [Minute -> Bar \cup {NoBar}]]
    PROVE  CalibrationInv'
BY DEF memory, disk, CalibrationInv, TypeOK, SeenScanned, OnePending, Separated,
       MemoryCoversDisk

LEMMA NextInv == CalibrationInv /\ [Next]_vars => CalibrationInv'
<1> SUFFICES ASSUME CalibrationInv, [Next]_vars
             PROVE  CalibrationInv'
  OBVIOUS
<1>1. CASE AdvanceClock
  <2>1. clock' \in Minute
    BY <1>1, MinuteAssumption DEF AdvanceClock, CalibrationInv, TypeOK, Minute
  <2>2. QED
    BY <1>1, <2>1, EnvironmentInv DEF AdvanceClock, CalibrationInv, TypeOK
<1>2. ASSUME NEW s \in Symbol, NEW m \in Minute, NEW b \in Bar, ReceiveBar(s, m, b)
      PROVE  CalibrationInv'
  <2>1. bars' \in [Symbol -> [Minute -> Bar \cup {NoBar}]]
    BY <1>2 DEF ReceiveBar, CalibrationInv, TypeOK
  <2>2. QED
    BY <1>2, <2>1, EnvironmentInv DEF ReceiveBar, CalibrationInv, TypeOK
<1>3. ASSUME NEW t \in Minute, NEW obs \in [Wave -> Observation],
             NEW result \in SaveResult, ObserveAndEnrich(t, obs, result)
      PROVE  CalibrationInv'
  BY <1>3, ObserveInv
<1>4. CASE Restart
  BY <1>4, RestartInv
<1>5. CASE UNCHANGED vars
  BY <1>5, EnvironmentInv DEF vars, memory, disk, CalibrationInv, TypeOK
<1>6. QED
  BY <1>1, <1>2, <1>3, <1>4, <1>5 DEF Next

LEMMA InitInv == Init => CalibrationInv
<1> SUFFICES ASSUME Init PROVE CalibrationInv
  OBVIOUS
<1>1. TypeOK
  BY MinuteAssumption DEF Init, TypeOK, Minute
<1>2. SeenScanned /\ OnePending /\ Separated /\ MemoryCoversDisk
  BY DEF Init, SeenScanned, OnePending, Separated, MemoryCoversDisk,
         Ledger!OnePending, Ledger!Separated
<1>3. QED
  BY <1>1, <1>2 DEF CalibrationInv

-----------------------------------------------------------------------------
(* When a sample is resolved, and that it stays resolved.                  *)

\* The bar that resolves a sample is one of its horizon.  CalibrationInv says nothing
\* of when a sample was resolved; next to it this is inductive.
WithinHorizon(r) == r.outcome # Pending => r.seen < r.resolved /\ r.resolved <= Deadline(r)
ResolvedWithin == \A r \in records \cup stored : WithinHorizon(r)

\* A touch and the deadline are both within the horizon.
LEMMA ResolveWithin ==
    ASSUME NEW r \in Record, NEW h, WithinHorizon(r)
    PROVE  WithinHorizon(Resolve(r, h))
<1>1. r.seen \in Int /\ Horizon \in Int /\ Horizon > 0
  BY HorizonAssumption DEF Record, Minute
<1>2. CASE r.outcome # Pending
  BY <1>2 DEF Resolve
<1>3. CASE r.outcome = Pending /\ Touches(r, h) # {}
  <2> DEFINE m == FirstTouch(r, h)
             outcome == TouchOutcome(r, h[m])
  <2>1. r.seen < m /\ m <= Deadline(r)
    BY <1>3, FirstTouchIn DEF Touches
  <2>2. Resolve(r, h) = Settle(r, outcome, m)
    BY <1>3 DEF Resolve
  <2> HIDE DEF m, outcome
  <2>3. QED
    BY <2>1, <2>2 DEF Settle, WithinHorizon, Deadline
<1>4. CASE r.outcome = Pending /\ Touches(r, h) = {} /\ TimedOut(r, h)
  <2>1. Resolve(r, h) = Settle(r, "failure", Deadline(r))
    BY <1>4 DEF Resolve
  <2>2. QED
    BY <1>1, <2>1 DEF Settle, WithinHorizon, Deadline
<1>5. CASE r.outcome = Pending /\ Touches(r, h) = {} /\ ~TimedOut(r, h)
  BY <1>5 DEF Resolve
<1>6. QED
  BY <1>2, <1>3, <1>4, <1>5

\* A call of observe_and_enrich leaves resolved records as they are and resolves the
\* others within their horizons.
LEMMA ObserveFreezes ==
    ASSUME CalibrationInv, ResolvedWithin, NEW t \in Minute, NEW obs \in [Wave -> Observation],
           NEW result \in SaveResult, ObserveAndEnrich(t, obs, result)
    PROVE  /\ \A r \in records' : WithinHorizon(r)
           /\ \A r \in records : r.outcome # Pending => r \in records'
<1> DEFINE R(r) == Resolve(r, bars[SymbolOf(r.wave)])
           New == {NewRecord(w, t, obs[w]) :
                      w \in {v \in Wave : Starts(ResolvePending(records), t, obs, v)}}
<1>1. \A r \in records : /\ WithinHorizon(R(r))
                         /\ r.outcome # Pending => R(r) = r
  BY ResolveKeeps, ResolveWithin DEF CalibrationInv, TypeOK, ResolvedWithin
<1>2. records' = {R(r) : r \in records} \cup New
  BY DEF ObserveAndEnrich, StartNewWaves, ResolvePending
<1>3. \A r \in New : WithinHorizon(r)
  BY DEF NewRecord, WithinHorizon
<1> HIDE DEF R, New
<1>4. QED
  BY <1>1, <1>2, <1>3

LEMMA ResolvedWithinInv == CalibrationInv /\ ResolvedWithin /\ [Next]_vars => ResolvedWithin'
<1> SUFFICES ASSUME CalibrationInv, ResolvedWithin, [Next]_vars
             PROVE  ResolvedWithin'
  OBVIOUS
<1>1. ASSUME NEW t \in Minute, NEW obs \in [Wave -> Observation],
             NEW result \in SaveResult, ObserveAndEnrich(t, obs, result)
      PROVE  ResolvedWithin'
  <2>1. \A r \in records' \cup stored' : WithinHorizon(r)
    BY <1>1, ObserveFreezes, SaveOutcomes DEF ResolvedWithin
  <2>2. QED
    BY <2>1 DEF ResolvedWithin, WithinHorizon, Deadline
<1>2. CASE AdvanceClock \/ Restart \/ UNCHANGED vars
           \/ \E s \in Symbol, m \in Minute, b \in Bar : ReceiveBar(s, m, b)
  BY <1>2 DEF AdvanceClock, Restart, ReceiveBar, vars, memory, disk,
              ResolvedWithin, WithinHorizon, Deadline
<1>3. QED
  BY <1>1, <1>2 DEF Next

-----------------------------------------------------------------------------
(* The theorems.                                                           *)

\* Type correctness, for any symbols, kinds, prices, bars, horizon and levels.
THEOREM TypeCorrect == Spec => []TypeOK
<1>1. Spec => []CalibrationInv
  BY InitInv, NextInv, PTL DEF Spec
<1>2. CalibrationInv => TypeOK
  BY DEF CalibrationInv
<1>3. QED
  BY <1>1, <1>2, PTL

\* A wave key never has two unresolved samples, nor two samples observed within
\* a horizon of each other, in memory or on disk, whatever saves fail or tear
\* and wherever the process restarts.
THEOREM SamplesDisjoint == Spec => []Disjoint
<1>1. Spec => []CalibrationInv
  BY InitInv, NextInv, PTL DEF Spec
<1>2. CalibrationInv => Disjoint
  BY DEF CalibrationInv, Disjoint
<1>3. QED
  BY <1>1, <1>2, PTL

\* The memory accounts for every stored sample.
THEOREM MemoryComplete == Spec => []MemoryCoversDisk
<1>1. Spec => []CalibrationInv
  BY InitInv, NextInv, PTL DEF Spec
<1>2. CalibrationInv => MemoryCoversDisk
  BY DEF CalibrationInv
<1>3. QED
  BY <1>1, <1>2, PTL

\* When no write is torn, the file implements the abstract ledger: samples are
\* entered once, resolved at most once and never lost, across failed saves and
\* restarts.
THEOREM LedgerImplemented ==
    ASSUME "torn" \notin SaveResult
    PROVE  Spec => ImplementsLedger
<1>1. Spec => []CalibrationInv
  BY InitInv, NextInv, PTL DEF Spec
<1>2. Init => Ledger!Init
  BY DEF Init, Ledger!Init
<1>3. CalibrationInv /\ [Next]_vars => [Ledger!Next]_stored
  <2> SUFFICES ASSUME CalibrationInv, [Next]_vars, stored' # stored
               PROVE  Ledger!Commit
    BY DEF Ledger!Next
  <2>1. PICK t \in Minute, obs \in [Wave -> Observation], result \in SaveResult :
            ObserveAndEnrich(t, obs, result)
    BY DEF Next, AdvanceClock, ReceiveBar, Restart, disk, vars
  <2>2. stored' = records'
    BY <2>1, SaveOutcomes
  <2>3. /\ Ledger!OnePending(records')
        /\ Ledger!Separated(records')
        /\ \A r \in records : \E f \in records' : Ledger!Succeeds(r, f)
    BY <2>1, ObserveKeeps
  <2>4. \A e \in stored : \E f \in records' : Ledger!Succeeds(e, f)
    BY <2>3, SucceedsTransitive DEF CalibrationInv, MemoryCoversDisk
  <2>5. QED
    BY <2>2, <2>3, <2>4 DEF Ledger!Commit
<1>4. QED
  BY <1>1, <1>2, <1>3, PTL DEF Spec, ImplementsLedger, Ledger!Spec

\* When no write is torn, a sample is resolved within its horizon and never again:
\* bars that are revised or come late, failed saves and restarts do not change it.
THEOREM OutcomesStayFrozen ==
    ASSUME "torn" \notin SaveResult
    PROVE  Spec => OutcomesFrozen
<1> DEFINE Frozen ==
             /\ \A r \in records' :
                    r.outcome # Pending => r.seen < r.resolved /\ r.resolved <= Deadline(r)
             /\ ~fresh' => \A r \in records : r.outcome # Pending => r \in records'
             /\ \A r \in stored : r.outcome # Pending => r \in stored'
<1>1. Init => ResolvedWithin
  BY DEF Init, ResolvedWithin
<1>2. CalibrationInv /\ ResolvedWithin /\ [Next]_vars => [Frozen]_vars
  <2> SUFFICES ASSUME CalibrationInv, ResolvedWithin, Next
               PROVE  Frozen
    OBVIOUS
  <2>1. ASSUME NEW t \in Minute, NEW obs \in [Wave -> Observation],
               NEW result \in SaveResult, ObserveAndEnrich(t, obs, result)
        PROVE  Frozen
    <3>1. /\ \A r \in records' : WithinHorizon(r)
          /\ \A r \in records : r.outcome # Pending => r \in records'
      BY <2>1, ObserveFreezes
    <3>2. stored' \in {records', stored}
      BY <2>1, SaveOutcomes
    <3>3. \A r \in stored : r.outcome # Pending => r \in records
      BY DEF CalibrationInv, MemoryCoversDisk, Ledger!Succeeds, Ledger!Pending, Pending
    <3>4. QED
      BY <3>1, <3>2, <3>3 DEF WithinHorizon
  <2>2. CASE AdvanceClock \/ Restart
             \/ \E s \in Symbol, m \in Minute, b \in Bar : ReceiveBar(s, m, b)
    BY <2>2 DEF AdvanceClock, Restart, ReceiveBar, memory, disk, ResolvedWithin, WithinHorizon
  <2>3. QED
    BY <2>1, <2>2 DEF Next
<1>3. QED
  BY <1>1, <1>2, InitInv, NextInv, ResolvedWithinInv, PTL DEF Spec, OutcomesFrozen

=============================================================================
