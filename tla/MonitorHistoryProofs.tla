------------------------ MODULE MonitorHistoryProofs ------------------------
(***************************************************************************)
(* Proofs about MarketDataClient and about MonitorHistory on top of it:    *)
(* types, what a normal return of the client means, that the handler is    *)
(* called once per common bar, that the memory covers the files, and that  *)
(* every call of the handler is answered by a scan.                        *)
(***************************************************************************)
EXTENDS MonitorHistory, WellFoundedInduction, TLAPS

-----------------------------------------------------------------------------
(* The inductive invariant of the client.                                  *)

\* A stored bar is of a minute that has begun, a final one of a minute that is over,
\* and only the newest bar of a symbol is in progress.
BarsInOrder ==
    \A i \in Request, m \in Minute :
        results[i][m] # Absent =>
            /\ m <= clock
            /\ results[i][m] = Final => m < clock
            /\ \A n \in Minute : n < m => results[i][n] # InProgress

\* Every synchronization symbol has a bar of the minute.
Common(m) == \A i \in Sync : results[i][m] # Absent

\* From the first call of the handler on, the only common minute it may not have been
\* called for is the one that was in progress at the latest callback, so that every
\* symbol still shows it in progress.
PublishedSoFar ==
    (published # NoMinute /\ ~aborted) =>
        /\ keepUpToDate /\ ended = Request
        /\ \A m \in Minute : (m > published /\ Common(m)) =>
               \A i \in Sync : results[i][m] = InProgress

ClientInv == TypeOK /\ BarsInOrder /\ PublishedSoFar

-----------------------------------------------------------------------------
(* Minutes.                                                                *)

LEMMA MinuteInt == Minute \subseteq Int /\ Minute \subseteq Nat /\ 0 \in Minute /\ NoMinute \notin Minute
BY LastMinuteAssumption DEF Minute, NoMinute

\* A nonempty set of minutes has a latest one, and Latest is it.
LEMMA LatestIn ==
    ASSUME NEW S \in SUBSET Minute, S # {}
    PROVE  Latest(S) \in S /\ \A n \in S : n <= Latest(S)
<1> DEFINE T == {LastMinute - m : m \in S}
<1>1. T \subseteq Nat /\ T # {}
  <2>1. \A m \in S : LastMinute - m \in Nat
    BY LastMinuteAssumption DEF Minute
  <2>2. QED
    BY <2>1
<1>2. PICK t \in T : \A u \in T : <<u, t>> \notin OpToRel(<, Nat)
  BY <1>1, NatLessThanWellFounded, WFMin, Zenon
<1>3. \A u \in T : ~(u < t)
  BY <1>1, <1>2 DEF OpToRel
<1>4. PICK m \in S : t = LastMinute - m
  BY <1>2
<1>5. \A n \in S : n <= m
  <2> SUFFICES ASSUME NEW n \in S PROVE n <= m
    OBVIOUS
  <2>1. ~(LastMinute - n < t)
    BY <1>3
  <2>2. QED
    BY <1>4, <2>1, LastMinuteAssumption DEF Minute
<1> HIDE DEF T
<1>6. \E x \in S : \A n \in S : n <= x
  BY <1>5
<1>7. QED
  BY <1>6 DEF Latest

-----------------------------------------------------------------------------
(* The client's callbacks.                                                 *)

LEMMA VersionType == Delivered \subseteq {InProgress, Final} /\ Delivered \subseteq Version
BY DeliveredAssumption DEF Version, InProgress, Final, Absent

\* A bar that is stored in order keeps the bars in order.
LEMMA StoreBarKeeps ==
    ASSUME TypeOK, BarsInOrder, NEW i \in Request, NEW m \in Minute, NEW v \in Delivered,
           InOrder(i, m, v), StoreBar(i, m, v), clock' = clock
    PROVE  /\ results' \in [Request -> [Minute -> Version]]
           /\ BarsInOrder'
<1>1. results' = [results EXCEPT ![i] = [results[i] EXCEPT ![m] = v]]
  BY DEF StoreBar
<1>2. results \in [Request -> [Minute -> Version]] /\ v \in Version
  BY VersionType DEF TypeOK
<1>3. results' \in [Request -> [Minute -> Version]]
  BY <1>1, <1>2
<1>4. \A j \in Request, n \in Minute :
        results'[j][n] = IF j = i /\ n = m THEN v ELSE results[j][n]
  BY <1>1, <1>2
<1>5. BarsInOrder'
  <2> SUFFICES ASSUME NEW j \in Request, NEW n \in Minute, results'[j][n] # Absent
               PROVE  /\ n <= clock
                      /\ results'[j][n] = Final => n < clock
                      /\ \A o \in Minute : o < n => results'[j][o] # InProgress
    BY DEF BarsInOrder
  <2>1. CASE j = i /\ n = m
    BY <1>4, <2>1, MinuteInt DEF InOrder
  <2>2. CASE j = i /\ n # m
    <3>1. results[i][n] # Absent
      BY <1>4, <2>2
    <3>2. ~(n > m)
      BY <3>1 DEF InOrder
    <3>3. n < m
      BY <2>2, <3>2, MinuteInt
    <3>4. \A o \in Minute : o < n => o # m /\ results[i][o] # InProgress
      BY <3>1, <3>3, MinuteInt DEF BarsInOrder
    <3>5. QED
      BY <1>4, <2>2, <3>1, <3>4 DEF BarsInOrder
  <2>3. CASE j # i
    BY <1>4, <2>3 DEF BarsInOrder
  <2>4. QED
    BY <2>1, <2>2, <2>3
<1>6. QED
  BY <1>3, <1>5

\* A common minute that is not over is the one in progress.
LEMMA CommonNow ==
    ASSUME TypeOK, clock' = clock, keepUpToDate', ended' = Request, BarsInOrder',
           results' \in [Request -> [Minute -> Version]], published' \in Minute \cup {NoMinute},
           \A m \in Minute : m > published' => m \notin CommonCompleted(results')
    PROVE  PublishedSoFar'
<1> SUFFICES ASSUME NEW m \in Minute, m > published', Common(m)', NEW i \in Sync
             PROVE  results'[i][m] = InProgress
  BY DEF PublishedSoFar
<1>1. i \in Request /\ clock \in Int /\ m \in Int
  BY SyncAssumption, MinuteInt DEF TypeOK
<1>2. ~(m < clock)
  BY DEF CommonCompleted, Common
<1>3. results'[i][m] # Absent /\ results'[i][m] \in Version
  BY <1>1 DEF Common
<1>4. results'[i][m] # Final
  BY <1>1, <1>2, <1>3 DEF BarsInOrder
<1>5. QED
  BY <1>3, <1>4 DEF Version

\* After a callback that publishes what is to be published, no common minute that is
\* over is left behind, unless the handler threw.
LEMMA PublishKeeps ==
    ASSUME TypeOK, PublishedSoFar, ~aborted, PublishCompletedBar, clock' = clock,
           keepUpToDate' = keepUpToDate, ended' \subseteq Request, ended \subseteq ended',
           results' \in [Request -> [Minute -> Version]], BarsInOrder'
    PROVE  /\ published' \in Minute \cup {NoMinute}
           /\ handed' \in [minute : Minute \cup {NoMinute}, shows : [Sync -> Version]]
           /\ failure' \in Failure \cup {None}
           /\ aborted' \in BOOLEAN
           /\ PublishedSoFar'
<1> DEFINE C == CommonCompleted(results')
<1>1. C \subseteq Minute
  BY DEF CommonCompleted
<1>2. CASE Publishes
  <2> DEFINE minute == Latest(C)
  <2>1. minute \in C /\ \A n \in C : n <= minute
    BY <1>1, <1>2, LatestIn DEF Publishes
  <2>2. minute \in Minute
    BY <1>1, <2>1
  <2>3. /\ handed' = HandOver(minute, results')
        /\ \/ published' = minute /\ failure' = failure /\ aborted' = aborted
           \/ published' = published /\ aborted' = TRUE /\ Fail("handler")
    BY <1>2 DEF PublishCompletedBar
  <2> HIDE DEF minute
  <2>4. handed' \in [minute : Minute \cup {NoMinute}, shows : [Sync -> Version]]
    BY <2>2, <2>3, SyncAssumption DEF HandOver
  <2>5. /\ published' \in Minute \cup {NoMinute} /\ aborted' \in BOOLEAN
        /\ failure' \in Failure \cup {None}
    BY <2>2, <2>3 DEF TypeOK, Fail, Failure
  <2>6. ASSUME ~aborted'
        PROVE  PublishedSoFar'
    <3>1. published' = minute /\ keepUpToDate' /\ ended' = Request
      BY <1>2, <2>3, <2>6 DEF Publishes
    <3>2. \A m \in Minute : m > minute => m \notin C
      BY <2>1, <2>2, MinuteInt
    <3>3. \A m \in Minute : m > published' => m \notin C
      BY <3>1, <3>2
    <3>4. QED
      BY <2>5, <3>1, <3>3, CommonNow
  <2>7. QED
    BY <2>4, <2>5, <2>6 DEF PublishedSoFar
<1>3. CASE ~Publishes
  <2>1. UNCHANGED <<published, handed, failure, aborted>>
    BY <1>3 DEF PublishCompletedBar
  <2>2. ASSUME published # NoMinute
        PROVE  PublishedSoFar'
    <3>1. keepUpToDate' /\ ended' = Request
      BY <2>2 DEF PublishedSoFar
    <3>2. ASSUME NEW m \in Minute, m > published, m \in C
          PROVE  FALSE
      <4>1. Latest(C) \in C /\ m <= Latest(C)
        BY <1>1, <3>2, LatestIn
      <4>2. ~(Latest(C) > published)
        BY <1>3, <3>1, <3>2 DEF Publishes
      <4> HIDE DEF C
      <4>3. Latest(C) \in Int /\ m \in Int
        BY <1>1, <4>1, MinuteInt
      <4>4. published \in Int
        BY MinuteInt DEF TypeOK, NoMinute
      <4>5. QED
        BY <3>2, <4>1, <4>2, <4>3, <4>4
    <3>3. published' \in Minute \cup {NoMinute}
      BY <2>1 DEF TypeOK
    <3>4. \A m \in Minute : m > published' => m \notin C
      BY <2>1, <3>2
    <3>5. QED
      BY <3>1, <3>3, <3>4, CommonNow
  <2>3. QED
    BY <2>1, <2>2 DEF PublishedSoFar, TypeOK
<1>4. QED
  BY <1>2, <1>3

\* Every callback of the client.
LEMMA CallbacksKeep ==
    ASSUME ClientInv, Callbacks
    PROVE  ClientInv'
<1>1. /\ TypeOK /\ BarsInOrder /\ PublishedSoFar
      /\ UNCHANGED <<clock, keepUpToDate, stop, phase>> /\ ~aborted
  BY DEF ClientInv, Callbacks, NextValidId, HistoricalData, HistoricalDataUpdate,
         HistoricalDataEnd, Error, ConnectionClosed, UnreadableBar, Callback
<1>2. ASSUME PublishCompletedBar, ended' \subseteq Request, ended \subseteq ended',
             results' \in [Request -> [Minute -> Version]], BarsInOrder', started' \in BOOLEAN
      PROVE  ClientInv'
  <2>1. /\ published' \in Minute \cup {NoMinute}
        /\ handed' \in [minute : Minute \cup {NoMinute}, shows : [Sync -> Version]]
        /\ failure' \in Failure \cup {None}
        /\ aborted' \in BOOLEAN
        /\ PublishedSoFar'
    BY <1>1, <1>2, PublishKeeps
  <2>2. TypeOK'
    BY <1>1, <1>2, <2>1 DEF TypeOK
  <2>3. QED
    BY <1>2, <2>1, <2>2 DEF ClientInv
<1>3. ASSUME UNCHANGED <<ended, results, published, handed, aborted>>,
             failure' \in Failure \cup {None}, started' \in BOOLEAN
      PROVE  ClientInv'
  <2>1. TypeOK'
    BY <1>1, <1>3 DEF TypeOK
  <2>2. BarsInOrder' /\ PublishedSoFar'
    BY <1>1, <1>3 DEF BarsInOrder, PublishedSoFar, Common
  <2>3. QED
    BY <2>1, <2>2 DEF ClientInv
<1>4. ASSUME NEW i \in Request, CompleteInitialRequest(i)
      PROVE  ClientInv'
  <2>1. BarsInOrder' /\ results' \in [Request -> [Minute -> Version]]
    BY <1>1, <1>4 DEF CompleteInitialRequest, BarsInOrder, TypeOK
  <2>2. /\ PublishCompletedBar /\ ended' \subseteq Request /\ ended \subseteq ended'
        /\ started' \in BOOLEAN
    BY <1>1, <1>4 DEF CompleteInitialRequest, TypeOK
  <2>3. QED
    BY <1>2, <2>1, <2>2
<1>5. CASE NextValidId
  BY <1>1, <1>3, <1>5 DEF NextValidId, TypeOK
<1>6. ASSUME NEW i \in Request, NEW m \in Minute, NEW v \in Delivered, HistoricalData(i, m, v)
      PROVE  ClientInv'
  <2>1. BarsInOrder' /\ results' \in [Request -> [Minute -> Version]]
    BY <1>1, <1>6, StoreBarKeeps DEF HistoricalData
  <2>2. /\ UNCHANGED <<started, ended, published, handed, failure, aborted>>
        /\ i \notin ended
    BY <1>6 DEF HistoricalData
  <2>3. TypeOK'
    BY <1>1, <2>1, <2>2 DEF TypeOK
  <2>4. PublishedSoFar'
    BY <1>1, <2>2 DEF PublishedSoFar
  <2>5. QED
    BY <2>1, <2>3, <2>4 DEF ClientInv
<1>7. ASSUME NEW i \in Request, NEW m \in Minute, NEW v \in Delivered,
             HistoricalDataUpdate(i, m, v)
      PROVE  ClientInv'
  <2>1. BarsInOrder' /\ results' \in [Request -> [Minute -> Version]]
    BY <1>1, <1>7, StoreBarKeeps DEF HistoricalDataUpdate
  <2>2. PublishCompletedBar /\ UNCHANGED <<started, ended>>
    BY <1>7 DEF HistoricalDataUpdate
  <2>3. QED
    BY <1>1, <1>2, <2>1, <2>2 DEF TypeOK
<1>8. ASSUME NEW i \in Request, HistoricalDataEnd(i)
      PROVE  ClientInv'
  BY <1>4, <1>8 DEF HistoricalDataEnd
<1>9. CASE Error
  <2>1. CASE \E i \in Request \cap Optional : started /\ CompleteInitialRequest(i)
    BY <1>4, <2>1
  <2>2. ASSUME NEW why \in Fault, Fail(why),
               UNCHANGED <<started, ended, results, published, handed, aborted>>
        PROVE  ClientInv'
    BY <1>1, <1>3, <2>2 DEF Fail, Failure, TypeOK
  <2>3. QED
    BY <1>9, <2>1, <2>2 DEF Error
<1>10. CASE ConnectionClosed \/ UnreadableBar
  <2>1. failure' \in Failure \cup {None}
    BY <1>1, <1>10 DEF ConnectionClosed, UnreadableBar, Fail, Failure, TypeOK
  <2>2. UNCHANGED <<started, ended, results, published, handed, aborted>>
    BY <1>10 DEF ConnectionClosed, UnreadableBar
  <2>3. QED
    BY <1>1, <1>3, <2>1, <2>2 DEF TypeOK
<1>11. QED
  BY <1>5, <1>6, <1>7, <1>8, <1>9, <1>10 DEF Callbacks

\* A new connection has no bars and nothing published.
LEMMA ResetKeeps ==
    ASSUME TypeOK, ResetConnection, UNCHANGED <<clock, keepUpToDate>>, stop' \in BOOLEAN,
           phase' \in {"idle", "running", "returned", "threw"}, failure' \in Failure \cup {None}
    PROVE  ClientInv'
<1>1. NoBars \in [Request -> [Minute -> Version]]
  BY DEF NoBars, Version
<1>2. NoHandOver \in [minute : Minute \cup {NoMinute}, shows : [Sync -> Version]]
  BY DEF NoHandOver, Version
<1>3. TypeOK'
  BY <1>1, <1>2 DEF TypeOK, ResetConnection
<1>4. BarsInOrder' /\ PublishedSoFar'
  BY DEF BarsInOrder, PublishedSoFar, ResetConnection, NoBars
<1>5. QED
  BY <1>3, <1>4 DEF ClientInv

LEMMA ClientNextInv == ClientInv /\ [Next]_clientVars => ClientInv'
<1> SUFFICES ASSUME ClientInv, [Next]_clientVars
             PROVE  ClientInv'
  OBVIOUS
<1>1. TypeOK /\ BarsInOrder /\ PublishedSoFar
  BY DEF ClientInv
<1>2. ASSUME UNCHANGED connection, clock' \in Minute, clock' >= clock,
             UNCHANGED keepUpToDate, stop' \in BOOLEAN,
             phase' \in {"idle", "running", "returned", "threw"}
      PROVE  ClientInv'
  <2>1. TypeOK'
    BY <1>1, <1>2 DEF TypeOK, connection
  <2>2. BarsInOrder'
    BY <1>1, <1>2, MinuteInt DEF BarsInOrder, connection, TypeOK
  <2>3. PublishedSoFar'
    BY <1>1, <1>2 DEF PublishedSoFar, Common, connection
  <2>4. QED
    BY <2>1, <2>2, <2>3 DEF ClientInv
<1>3. clock \in Minute /\ clock >= clock
  BY <1>1, MinuteInt DEF TypeOK
<1>4. CASE Connect
  BY <1>1, <1>4, ResetKeeps DEF Connect, Failure, TypeOK
<1>5. CASE Callbacks
  BY <1>5, CallbacksKeep
<1>6. CASE Exit \/ RequestStop \/ UNCHANGED clientVars
  BY <1>1, <1>2, <1>3, <1>6 DEF Exit, RequestStop, clientVars, TypeOK
<1>7. CASE AdvanceClock
  <2>1. clock' \in Minute /\ clock' >= clock
    BY <1>3, <1>7, LastMinuteAssumption DEF AdvanceClock, Minute
  <2>2. QED
    BY <1>1, <1>2, <1>7, <2>1 DEF AdvanceClock, TypeOK
<1>8. QED
  BY <1>4, <1>5, <1>6, <1>7 DEF Next

LEMMA ClientInitInv == Init => ClientInv
<1> SUFFICES ASSUME Init PROVE ClientInv
  OBVIOUS
<1>1. NoBars \in [Request -> [Minute -> Version]]
  BY DEF NoBars, Version
<1>2. NoHandOver \in [minute : Minute \cup {NoMinute}, shows : [Sync -> Version]]
  BY DEF NoHandOver, Version
<1>3. TypeOK
  BY <1>1, <1>2, MinuteInt DEF Init, TypeOK
<1>4. BarsInOrder /\ PublishedSoFar
  BY DEF Init, BarsInOrder, PublishedSoFar, NoBars
<1>5. QED
  BY <1>3, <1>4 DEF ClientInv

LEMMA ClientInvariant == Spec => []ClientInv
BY ClientInitInv, ClientNextInv, PTL DEF Spec

-----------------------------------------------------------------------------
(* The theorems about the client.                                          *)

\* Type correctness of the client, for any requests, synchronization symbols and faults.
THEOREM ClientTypeCorrect == Spec => []TypeOK
<1>1. ClientInv => TypeOK
  BY DEF ClientInv
<1>2. QED
  BY <1>1, ClientInvariant, PTL

\* What a normal return tells a caller that did not ask to stop: a fetch has the data
\* of every request, and a monitor does not return.
THEOREM NormalReturnMeansData == Spec => []NormalReturn
<1>1. Init => NormalReturn
  BY DEF Init, NormalReturn
<1>2. NormalReturn /\ [Next]_clientVars => NormalReturn'
  <2> SUFFICES ASSUME NormalReturn, [Next]_clientVars, phase' = "returned", ~stop'
               PROVE  ~keepUpToDate' /\ failure' = None /\ ended' = Request
    BY DEF NormalReturn
  <2>1. CASE Exit
    BY <2>1 DEF Exit, connection
  <2>2. CASE Connect
    BY <2>2 DEF Connect
  <2>3. CASE Callbacks
    BY <2>3 DEF Callbacks, NextValidId, HistoricalData, HistoricalDataUpdate,
                HistoricalDataEnd, Error, ConnectionClosed, UnreadableBar, Callback
  <2>4. CASE RequestStop
    BY <2>4 DEF RequestStop
  <2>5. CASE AdvanceClock \/ UNCHANGED clientVars
    BY <2>5 DEF AdvanceClock, clientVars, connection, NormalReturn
  <2>6. QED
    BY <2>1, <2>2, <2>3, <2>4, <2>5 DEF Next
<1>3. QED
  BY <1>1, <1>2, PTL DEF Spec

\* A call of the handler is a publication of a callback.
LEMMA HandOverPublishes ==
    ASSUME ClientInv, [Next]_clientVars, HandsOver
    PROVE  Callbacks /\ Publishes /\ PublishCompletedBar /\ ~aborted /\ clock' = clock
BY DEF HandsOver, Next, Connect, ResetConnection, Exit, RequestStop, AdvanceClock, connection,
       clientVars, Callbacks, NextValidId, HistoricalData, HistoricalDataUpdate,
       HistoricalDataEnd, Error, ConnectionClosed, UnreadableBar, Callback,
       CompleteInitialRequest, PublishCompletedBar

\* Two common minutes after the published one would both be in progress, and only the
\* newest bar of a symbol is.
LEMMA OneCommonLeft ==
    ASSUME ClientInv, ~aborted, published # NoMinute, NEW m \in Minute, NEW n \in Minute,
           m > published, n > published, Common(m), Common(n)
    PROVE  m = n
<1>1. PICK i \in Sync : i \in Request
  BY SyncAssumption
<1>2. /\ results[i][m] = InProgress /\ results[i][n] = InProgress
      /\ results[i][m] # Absent /\ results[i][n] # Absent
  BY <1>1 DEF ClientInv, PublishedSoFar, Common
<1>3. ~(m < n) /\ ~(n < m)
  BY <1>1, <1>2 DEF ClientInv, BarsInOrder
<1>4. QED
  BY <1>3, MinuteInt

\* A callback stores at most one bar, in the order of its symbol, so that of two common
\* minutes after the published one the earlier was common, and in progress, before.
LEMMA OneCommonNext ==
    ASSUME ClientInv, ~aborted, published # NoMinute, Callbacks, NEW m \in Minute, NEW n \in Minute,
           m > published, n > published, Common(m)', Common(n)'
    PROVE  m = n
<1>1. CASE results' = results
  BY <1>1, OneCommonLeft DEF Common
<1>2. CASE results' # results
  <2>1. PICK i \in Request, o \in Minute, v \in Delivered :
            InOrder(i, o, v) /\ StoreBar(i, o, v)
    BY <1>2 DEF Callbacks, NextValidId, HistoricalData, HistoricalDataUpdate,
         HistoricalDataEnd, Error, ConnectionClosed, UnreadableBar, CompleteInitialRequest
  <2>2. \A j \in Request, x \in Minute :
            results'[j][x] = IF j = i /\ x = o THEN v ELSE results[j][x]
    BY <2>1 DEF StoreBar, ClientInv, TypeOK
  <2>3. \A x \in Minute : Common(x)' /\ (x # o \/ i \notin Sync) => Common(x)
    BY <2>2, SyncAssumption DEF Common
  <2>4. CASE i \notin Sync \/ (m # o /\ n # o)
    BY <2>3, <2>4, OneCommonLeft
  <2>5. ASSUME i \in Sync, NEW x \in Minute, x # o, Common(x)', x > published
        PROVE  FALSE
    <3>1. Common(x)
      BY <2>3, <2>5
    <3>2. results[i][x] = InProgress /\ results[i][x] # Absent
      BY <2>5, <3>1 DEF ClientInv, PublishedSoFar, Common
    <3>3. ~(x > o) /\ ~(x < o)
      BY <2>1, <3>2 DEF InOrder
    <3>4. QED
      BY <2>5, <3>3, MinuteInt
  <2>6. QED
    BY <2>4, <2>5
<1>3. QED
  BY <1>1, <1>2

\* The handler is called once per common bar: for bars that are over and that every
\* synchronization symbol has, in the order of time, and without leaving one out.
THEOREM HandlerOncePerCommonBar == Spec => OncePerCommonBar
<1> DEFINE Once ==
             (handed' # handed /\ handed' # NoHandOver) =>
                 /\ ended' = Request
                 /\ handed'.minute < clock'
                 /\ \A i \in Sync : handed'.shows[i] # Absent
                 /\ handed'.minute > published
                 /\ published # NoMinute =>
                        \A m \in CommonCompleted(results') : m > published => m = handed'.minute
<1>1. ClientInv /\ [Next]_clientVars => [Once]_clientVars
  <2> SUFFICES ASSUME ClientInv, Next, HandsOver
               PROVE  /\ ended' = Request
                      /\ handed'.minute < clock'
                      /\ \A i \in Sync : handed'.shows[i] # Absent
                      /\ handed'.minute > published
                      /\ published # NoMinute =>
                             \A m \in CommonCompleted(results') :
                                 m > published => m = handed'.minute
    BY DEF HandsOver
  <2> DEFINE C == CommonCompleted(results')
             minute == Latest(C)
  <2>1. Callbacks /\ Publishes /\ PublishCompletedBar /\ ~aborted /\ clock' = clock
    BY HandOverPublishes
  <2>2. C \subseteq Minute /\ \A m \in C : m < clock /\ Common(m)'
    BY DEF CommonCompleted, Common
  <2>3. minute \in C
    BY <2>1, <2>2, LatestIn DEF Publishes
  <2>4. ended' = Request /\ minute > published
    BY <2>1 DEF Publishes
  <2>5. handed' = HandOver(minute, results')
    BY <2>1 DEF PublishCompletedBar
  <2> HIDE DEF minute, C
  <2>6. handed'.minute = minute /\ \A i \in Sync : handed'.shows[i] = results'[i][minute]
    BY <2>5 DEF HandOver
  <2>7. published # NoMinute => \A m \in C : m > published => m = minute
    BY <2>1, <2>2, <2>3, <2>4, OneCommonNext
  <2>8. QED
    BY <2>1, <2>2, <2>3, <2>4, <2>6, <2>7 DEF Common, C
<1>2. QED
  BY <1>1, ClientInvariant, PTL DEF Spec, OncePerCommonBar

-----------------------------------------------------------------------------
(* The inductive invariant of the monitor.                                 *)

Bars == [Request -> [Minute -> Version]]

HistoryTypeOK ==
    /\ history \in Bars /\ cache \in Bars
    /\ loadable \in BOOLEAN
    /\ scan \in [minute : Minute \cup {NoMinute}, covers : SUBSET Sync]

MonitorInv == ClientInv /\ HistoryTypeOK /\ MemoryCoversCache /\ ScanCoversHandOver

\* The bars that one history has the other has as well.
CoveredBy(old, new) == \A i \in Request, m \in Minute : old[i][m] # Absent => new[i][m] # Absent

-----------------------------------------------------------------------------
(* The handler.                                                            *)

\* A merge loses no bar of either side, whichever version it keeps.
LEMMA MergeCovers ==
    ASSUME NEW old \in Bars, NEW new \in Bars, NEW refreshed \in SUBSET Duplicates(old, new)
    PROVE  /\ Merge(old, new, refreshed) \in Bars
           /\ CoveredBy(old, Merge(old, new, refreshed))
           /\ CoveredBy(new, Merge(old, new, refreshed))
<1> DEFINE both == Merge(old, new, refreshed)
<1>1. \A i \in Request, m \in Minute :
        both[i][m] = IF old[i][m] = Absent \/ <<i, m>> \in refreshed THEN new[i][m] ELSE old[i][m]
  BY DEF Merge
<1>2. \A i \in Request, m \in Minute : <<i, m>> \in refreshed => new[i][m] # Absent
  BY DEF Duplicates
<1>3. both \in Bars
  BY DEF Merge, Bars
<1> HIDE DEF both
<1>4. QED
  BY <1>1, <1>2, <1>3 DEF CoveredBy, both

\* A save leaves files of bars that the memory has, whatever write fails.
LEMMA SaveCovered ==
    ASSUME history' \in Bars, cache \in Bars, CoveredBy(cache, history'), SaveCache
    PROVE  cache' \in Bars /\ CoveredBy(cache', history') /\ loadable' \in BOOLEAN
<1>1. CASE cache' = history' /\ loadable' = TRUE
  BY <1>1 DEF CoveredBy
<1>2. ASSUME NEW i \in Request, NEW cut \in Minute, NEW done \in SUBSET (Request \ {i}),
             cache' = [j \in Request |->
                          IF j \in done THEN history'[j]
                          ELSE IF j = i THEN CutAt(history'[i], cut) ELSE cache[j]],
             loadable' \in {TRUE, FALSE}
      PROVE  cache' \in Bars /\ CoveredBy(cache', history') /\ loadable' \in BOOLEAN
  <2>1. CutAt(history'[i], cut) \in [Minute -> Version]
    BY DEF CutAt, Bars, Version
  <2>2. \A m \in Minute : CutAt(history'[i], cut)[m] # Absent => history'[i][m] # Absent
    BY DEF CutAt
  <2>3. cache' \in Bars
    BY <1>2, <2>1 DEF Bars
  <2>4. CoveredBy(cache', history')
    BY <1>2, <2>2 DEF CoveredBy
  <2>5. QED
    BY <1>2, <2>3, <2>4
<1>3. QED
  BY <1>1, <1>2 DEF SaveCache

\* The handler, called for a common minute: if it does not throw, the latest scan is
\* of that minute or of a later one.
LEMMA HandlerKeeps ==
    ASSUME MonitorInv, Callbacks, HandsOver, OnCompletedBar
    PROVE  HistoryTypeOK' /\ MemoryCoversCache' /\ ScanCoversHandOver'
<1>1. /\ ClientInv /\ TypeOK /\ ClientInv' /\ TypeOK' /\ HistoryTypeOK
      /\ MemoryCoversCache /\ [Next]_clientVars
  BY CallbacksKeep DEF MonitorInv, ClientInv, Next
<1>2. Publishes /\ PublishCompletedBar /\ ~aborted /\ clock' = clock
  BY <1>1, HandOverPublishes
<1>3. results' \in Bars /\ history \in Bars /\ cache \in Bars
  BY <1>1 DEF TypeOK, HistoryTypeOK, Bars
<1>4. PICK refreshed \in SUBSET Duplicates(history, results') :
          history' = Merge(history, results', refreshed)
  BY DEF OnCompletedBar
<1>5. history' \in Bars /\ CoveredBy(history, history') /\ CoveredBy(results', history')
  BY <1>3, <1>4, MergeCovers
<1>6. CoveredBy(cache, history')
  BY <1>1, <1>5 DEF CoveredBy, MemoryCoversCache
<1> DEFINE new == Scanned(history')
           A == Aligned(history')
<1>7. PICK minute \in A : handed'.minute = minute
  <2> DEFINE C == CommonCompleted(results')
  <2>1. C \subseteq Minute
    BY DEF CommonCompleted
  <2>2. Latest(C) \in C
    BY <1>2, <2>1, LatestIn DEF Publishes
  <2>3. handed'.minute = Latest(C)
    BY <1>2 DEF PublishCompletedBar, HandOver
  <2>4. C \subseteq A
    BY <1>5, BenchmarkAssumption, SyncAssumption DEF CommonCompleted, Aligned, CoveredBy
  <2> HIDE DEF C
  <2>5. QED
    BY <2>2, <2>3, <2>4
<1>8. new.minute \in Minute /\ new.minute >= minute
  <2>1. A \subseteq Minute
    BY DEF Aligned
  <2>2. new.minute = Latest(A)
    BY DEF Scanned
  <2>3. Latest(A) \in A /\ \A n \in A : n <= Latest(A)
    BY <1>7, <2>1, LatestIn
  <2> HIDE DEF A, new
  <2>4. QED
    BY <1>7, <2>1, <2>2, <2>3, MinuteInt
<1>9. new \in [minute : Minute \cup {NoMinute}, covers : SUBSET Sync]
  <2>1. new.covers \in SUBSET Sync
    BY DEF Scanned
  <2>2. QED
    BY <1>8, <2>1 DEF Scanned
<1>10. minute \in Minute /\ scan.minute \in Minute \cup {NoMinute}
  BY <1>1 DEF Aligned, HistoryTypeOK
<1> HIDE DEF new, A
<1>11. CASE aborted' /\ UNCHANGED <<scan, cache, loadable>>
  BY <1>1, <1>5, <1>6, <1>11 DEF HistoryTypeOK, CoveredBy, MemoryCoversCache, ScanCoversHandOver
<1>12. CASE ScanHistory
  <2>1. CASE new.minute > scan.minute
    <3>1. scan' = new /\ SaveCache
      BY <1>12, <2>1 DEF ScanHistory, new
    <3>2. cache' \in Bars /\ CoveredBy(cache', history') /\ loadable' \in BOOLEAN
      BY <1>3, <1>5, <1>6, <3>1, SaveCovered
    <3>3. QED
      BY <1>5, <1>7, <1>8, <1>9, <3>1, <3>2
         DEF HistoryTypeOK, CoveredBy, MemoryCoversCache, ScanCoversHandOver
  <2>2. CASE ~(new.minute > scan.minute)
    <3>1. UNCHANGED <<scan, cache, loadable>>
      BY <1>12, <2>2 DEF ScanHistory, new
    <3>2. scan.minute >= minute
      <4>1. new.minute \in Int /\ minute \in Int
        BY <1>8, <1>10, MinuteInt
      <4>2. NoMinute \in Int
        BY DEF NoMinute
      <4>3. scan.minute \in Int
        BY <1>10, <4>2, MinuteInt
      <4>4. QED
        BY <1>8, <2>2, <4>1, <4>3
    <3>3. QED
      BY <1>1, <1>5, <1>6, <1>7, <3>1, <3>2
         DEF HistoryTypeOK, CoveredBy, MemoryCoversCache, ScanCoversHandOver
  <2>3. QED
    BY <2>1, <2>2
<1>13. QED
  BY <1>11, <1>12 DEF OnCompletedBar

-----------------------------------------------------------------------------
(* Every step of the monitor.                                              *)

\* Steps without a call of the handler, unless they end the connection, leave the
\* call and its answer.
LEMMA QuietKeeps ==
    ASSUME MonitorInv, ClientInv', UNCHANGED historyVars,
           handed' = NoHandOver \/ (handed' = handed /\ (~aborted' => ~aborted))
    PROVE  MonitorInv'
<1>1. HistoryTypeOK' /\ MemoryCoversCache'
  BY DEF MonitorInv, HistoryTypeOK, MemoryCoversCache, historyVars
<1>2. ScanCoversHandOver'
  BY DEF MonitorInv, ScanCoversHandOver, historyVars
<1>3. QED
  BY <1>1, <1>2 DEF MonitorInv

LEMMA MonitorNextInv == MonitorInv /\ [MonitorNext]_monitorVars => MonitorInv'
<1> SUFFICES ASSUME MonitorInv, [MonitorNext]_monitorVars
             PROVE  MonitorInv'
  OBVIOUS
<1>1. ClientInv
  BY DEF MonitorInv
<1>2. CASE Callbacks /\ HandsOver /\ OnCompletedBar
  BY <1>1, <1>2, CallbacksKeep, HandlerKeeps DEF MonitorInv
<1>3. CASE Callbacks /\ ~HandsOver /\ UNCHANGED historyVars
  <2>1. ~aborted
    BY <1>3 DEF Callbacks, NextValidId, HistoricalData, HistoricalDataUpdate,
         HistoricalDataEnd, Error, ConnectionClosed, UnreadableBar, Callback
  <2>2. ClientInv'
    BY <1>1, <1>3, CallbacksKeep
  <2>3. QED
    BY <1>3, <2>1, <2>2, QuietKeeps DEF HandsOver
<1>4. CASE (Connect \/ Exit \/ RequestStop \/ AdvanceClock) /\ UNCHANGED historyVars
  <2>1. ClientInv'
    BY <1>1, <1>4, ClientNextInv DEF Next
  <2>2. handed' = NoHandOver \/ UNCHANGED <<handed, aborted>>
    BY <1>4 DEF Connect, ResetConnection, Exit, RequestStop, AdvanceClock, connection
  <2>3. QED
    BY <1>4, <2>1, <2>2, QuietKeeps
<1>5. CASE Restart
  <2>1. ClientInv'
    BY <1>1, <1>5, ResetKeeps DEF Restart, ClientInv
  <2>2. handed' = NoHandOver /\ history' = cache /\ UNCHANGED <<cache, loadable>>
        /\ scan' = NoScan
    BY <1>5 DEF Restart, ResetConnection
  <2>3. HistoryTypeOK'
    BY <2>2 DEF MonitorInv, HistoryTypeOK, NoScan
  <2>4. MemoryCoversCache' /\ ScanCoversHandOver'
    BY <2>2 DEF MemoryCoversCache, ScanCoversHandOver
  <2>5. QED
    BY <2>1, <2>3, <2>4 DEF MonitorInv
<1>6. CASE UNCHANGED monitorVars
  <2>1. UNCHANGED clientVars /\ UNCHANGED historyVars
    BY <1>6 DEF monitorVars
  <2>2. ClientInv' /\ UNCHANGED <<handed, aborted>>
    BY <1>1, <2>1, ClientNextInv DEF clientVars, connection
  <2>3. QED
    BY <2>1, <2>2, QuietKeeps
<1>7. QED
  BY <1>2, <1>3, <1>4, <1>5, <1>6 DEF MonitorNext, Monitors

LEMMA MonitorInitInv == MonitorInit => MonitorInv
<1> SUFFICES ASSUME MonitorInit PROVE MonitorInv
  OBVIOUS
<1>1. ClientInv
  BY ClientInitInv DEF MonitorInit
<1>2. NoBars \in Bars
  BY DEF NoBars, Bars, Version
<1>3. HistoryTypeOK
  BY <1>2 DEF MonitorInit, HistoryTypeOK, NoScan
<1>4. MemoryCoversCache /\ ScanCoversHandOver
  BY DEF MonitorInit, Init, MemoryCoversCache, ScanCoversHandOver, NoBars
<1>5. QED
  BY <1>1, <1>3, <1>4 DEF MonitorInv

LEMMA MonitorInvariant == MonitorSpec => []MonitorInv
BY MonitorInitInv, MonitorNextInv, PTL DEF MonitorSpec

-----------------------------------------------------------------------------
(* The theorems about the monitor.                                         *)

\* A bar that is in a file is in memory, across failed saves, files cut short and
\* restarts: a save never takes away a bar that only the disk had.
THEOREM MemoryComplete == MonitorSpec => []MemoryCoversCache
<1>1. MonitorInv => MemoryCoversCache
  BY DEF MonitorInv
<1>2. QED
  BY <1>1, MonitorInvariant, PTL

\* Every call of the handler that does not throw is answered by a scan of its minute
\* or of a later one.
THEOREM HandOversScanned == MonitorSpec => []ScanCoversHandOver
<1>1. MonitorInv => ScanCoversHandOver
  BY DEF MonitorInv
<1>2. QED
  BY <1>1, MonitorInvariant, PTL

=============================================================================
