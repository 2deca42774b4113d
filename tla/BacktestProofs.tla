---------------------------- MODULE BacktestProofs ----------------------------
(***************************************************************************)
(* Proofs about Backtest: types, that no order outlives what it was        *)
(* decided for, that a wave of READY bars is filled once, that stops are   *)
(* honoured, that the market regime has no veto over an ETF, and that no   *)
(* minute sees a trend bar that a live scan of it would not see.           *)
(***************************************************************************)
EXTENDS Backtest, FiniteSetTheorems, SequenceTheorems, WellFoundedInduction, TLAPS

-----------------------------------------------------------------------------
(* The inductive invariant.                                                *)

\* A position was opened on a bar.
HeldOnBar == position # None => bar # None

\* A fill leaves the entry disarmed for as long as the wave lasts.
WaveDisarmed == wave => ~armed

\* A position whose momentum faded twice is on its way out, so that the count of
\* its bars without strength ends at two.
FadedLeaves == (position # None /\ position.nonStrong = 2) => pendingExit # None

BacktestInv ==
    /\ TypeOK
    /\ HeldOnBar
    /\ ~over => NoStaleOrders /\ WaveDisarmed /\ FadedLeaves

-----------------------------------------------------------------------------
(* The position.                                                           *)

LEMMA TimesInt == ASSUME NEW q \in Nat, NEW atr \in Nat PROVE Times(q, atr) \in Int
<1>1. q * atr \in Int
  OBVIOUS
<1>2. QED
  BY <1>1 DEF Times

LEMMA AtrNat == Atr \subseteq Nat
BY ZoneAssumption DEF Atr

LEMMA OpenedKeeps ==
    ASSUME NEW b \in Bar, NEW atr \in Atr
    PROVE  /\ Opened(b, atr) \in Position
           /\ Opened(b, atr).entry = b.open
           /\ Opened(b, atr).atr = atr
           /\ Opened(b, atr).stop = b.open - Times(InitialStop, atr)
           /\ Opened(b, atr).nonStrong = 0
<1>1. b.open \in Nat
  BY BarAssumption
<1>2. Times(InitialStop, atr) \in Int
  BY TimesInt, AtrNat, SettingsAssumption
<1>3. b.open - Times(InitialStop, atr) \in Int
  BY <1>1, <1>2
<1>4. QED
  BY <1>1, <1>3 DEF Opened, Position

\* A stop that is trailed never falls.
LEMMA TrailedKeeps ==
    ASSUME NEW p \in Position, NEW b \in Bar, NEW zone \in Zone
    PROVE  /\ Trailed(p, b, zone) \in Position
           /\ Trailed(p, b, zone).entry = p.entry
           /\ Trailed(p, b, zone).atr = p.atr
           /\ Trailed(p, b, zone).nonStrong = p.nonStrong
           /\ Trailed(p, b, zone).stop >= p.stop
<1> DEFINE peak == Larger(p.peak, b.high)
           atr == IF zone = None THEN p.atr ELSE zone.atr
           trails == peak - p.entry >= Times(Activation, p.atr)
           stop == IF trails THEN Larger(p.stop, peak - Times(Distance, atr)) ELSE p.stop
<1>1. p.peak \in Nat /\ b.high \in Nat /\ p.entry \in Nat /\ p.atr \in Nat /\ p.stop \in Int
  BY BarAssumption, AtrNat DEF Position
<1>2. peak \in Nat
  BY <1>1 DEF Larger
<1>3. atr \in Nat
  BY <1>1, ZoneAssumption
<1>4. Times(Activation, p.atr) \in Int /\ Times(Distance, atr) \in Int
  BY <1>1, <1>3, TimesInt, SettingsAssumption
<1> HIDE DEF peak, atr
<1>5. stop \in Int /\ stop >= p.stop
  <2>1. peak - Times(Distance, atr) \in Int
    BY <1>2, <1>4
  <2>2. QED
    BY <1>1, <2>1 DEF Larger
<1>6. trails \in BOOLEAN
  BY <1>1, <1>2, <1>4
<1>7. Trailed(p, b, zone) =
        [p EXCEPT !.peak = peak, !.trailing = p.trailing \/ trails, !.stop = stop]
  BY DEF Trailed, peak, atr
<1> HIDE DEF trails, stop
<1>8. QED
  BY <1>2, <1>5, <1>6, <1>7 DEF Position

\* A second bar without strength gives a reason to leave.
LEMMA ReasonKeeps ==
    ASSUME NEW p \in Position, NEW b, NEW m, NEW scan
    PROVE  /\ ExitReason(p, b, m, scan) \in Reason \cup {None}
           /\ p.nonStrong # 2 =>
                  /\ NonStrong(p, b, m, scan) \in 0 .. 2
                  /\ NonStrong(p, b, m, scan) = 2 => ExitReason(p, b, m, scan) # None
<1> DEFINE reason == ExitReason(p, b, m, scan)
           signal == Decision(scan, None).held
<1>1. reason \in Reason \cup {None}
  BY DEF ExitReason, Reason
<1>2. None \notin Reason
  BY EmptyAssumption
<1>3. p.nonStrong \in 0 .. 2
  BY DEF Position
<1>4. reason = None => signal = "hold" \/ p.nonStrong = 0
  BY <1>2, <1>3 DEF ExitReason, Reason
<1>5. NonStrong(p, b, m, scan) =
        IF reason \notin {None, "momentum_faded"} THEN p.nonStrong
        ELSE IF signal = "hold" THEN 0 ELSE p.nonStrong + 1
  BY DEF NonStrong
<1> HIDE DEF reason, signal
<1>6. ASSUME p.nonStrong # 2
      PROVE  /\ NonStrong(p, b, m, scan) \in 0 .. 2
             /\ NonStrong(p, b, m, scan) = 2 => reason # None
  BY <1>3, <1>4, <1>5, <1>6
<1>7. QED
  BY <1>1, <1>6 DEF reason

-----------------------------------------------------------------------------
(* The fills.                                                              *)

\* The state the fills start from: a session starts without orders and positions.
LEMMA CarryKeeps ==
    ASSUME BacktestInv, ~over, NEW new \in BOOLEAN, NEW carry, carry = Carry(new)
    PROVE  /\ carry.position \in Position \cup {None}
           /\ carry.entry \in Atr \cup {None}
           /\ carry.exit \in Reason \cup {None}
           /\ carry.armed \in BOOLEAN
           /\ carry.position # None => carry.position = position /\ ~new
           /\ carry.exit # None => carry.position # None
           /\ carry.entry # None => carry.position = None /\ carry.armed /\ ~new /\ ~wave
           /\ wave /\ ~new => ~carry.armed
           /\ carry.position # None /\ carry.exit = None => carry.position.nonStrong # 2
<1>1. /\ carry.position = IF new THEN None ELSE position
      /\ carry.entry = IF new THEN None ELSE pendingEntry
      /\ carry.exit = IF new THEN None ELSE pendingExit
      /\ carry.armed = (armed \/ new)
  BY DEF Carry
<1>2. CASE new
  BY <1>1, <1>2
<1>3. CASE ~new
  BY <1>1, <1>3 DEF BacktestInv, TypeOK, NoStaleOrders, WaveDisarmed, FadedLeaves
<1>4. QED
  BY <1>2, <1>3

\* The position after the fills is the one just opened or the one held before.
LEMMA FilledKeeps ==
    ASSUME NEW carry, NEW b \in Bar,
           carry.position \in Position \cup {None}, carry.entry \in Atr \cup {None},
           carry.entry # None => carry.position = None,
           carry.position # None /\ carry.exit = None => carry.position.nonStrong # 2
    PROVE  /\ Filled(carry, b) \in Position \cup {None}
           /\ Opens(carry) <=> carry.entry # None
           /\ Opens(carry) => Filled(carry, b) = Opened(b, carry.entry)
           /\ (~Opens(carry) /\ Filled(carry, b) # None) =>
                  Filled(carry, b) = carry.position /\ carry.exit = None
           /\ Filled(carry, b) # None => Filled(carry, b).nonStrong # 2
<1>1. CASE carry.entry # None
  <2>1. carry.entry \in Atr /\ carry.position = None
    BY <1>1
  <2>2. Opens(carry) /\ Filled(carry, b) = Opened(b, carry.entry)
    BY <1>1, <2>1 DEF Opens, Filled
  <2>3. QED
    BY <1>1, <2>1, <2>2, OpenedKeeps
<1>2. CASE carry.entry = None
  <2>1. ~Opens(carry)
    BY <1>2 DEF Opens
  <2>2. Filled(carry, b) = IF carry.position = None \/ carry.exit # None
                           THEN None ELSE carry.position
    BY <1>2 DEF Filled
  <2>3. QED
    BY <1>2, <2>1, <2>2
<1>3. QED
  BY <1>1, <1>2
-----------------------------------------------------------------------------
(* Every step.                                                             *)

\* A position that survives the bar is one of the two, and the stop lay below it.
LEMMA SurvivorKeeps ==
    ASSUME BacktestInv, ~over, NEW new \in BOOLEAN, NEW b \in Bar, NEW carry, NEW p,
           carry = Carry(new), p = (IF Stopped(Filled(carry, b), b) THEN None ELSE Filled(carry, b))
    PROVE  /\ p \in Position \cup {None}
           /\ p # None => /\ p \in Position /\ p.nonStrong # 2
                          /\ b.low > p.stop
                          /\ Opens(carry) => p = Opened(b, carry.entry) /\ carry.entry \in Atr
                          /\ ~Opens(carry) => p = position /\ carry.exit = None
<1> DEFINE f == Filled(carry, b)
<1>1. /\ f \in Position \cup {None}
      /\ Opens(carry) <=> carry.entry # None
      /\ Opens(carry) => f = Opened(b, carry.entry)
      /\ (~Opens(carry) /\ f # None) => f = carry.position /\ carry.exit = None
      /\ f # None => f.nonStrong # 2
  BY CarryKeeps, FilledKeeps
<1>2. carry.entry \in Atr \cup {None} /\ (carry.position # None => carry.position = position)
  BY CarryKeeps
<1>3. p = IF f # None /\ b.low <= f.stop THEN None ELSE f
  BY DEF Stopped
<1> HIDE DEF f
<1>4. p # None => p = f /\ ~(b.low <= f.stop)
  BY <1>3
<1>5. p \in Position \cup {None}
  BY <1>1, <1>3
<1>6. p # None => b.low \in Int /\ p.stop \in Int
  BY <1>5, BarAssumption DEF Position
<1>7. QED
  BY <1>1, <1>2, <1>4, <1>5, <1>6

\* What the bar leaves of the position and of the orders.
LEMMA StepKeeps ==
    ASSUME BacktestInv, ~over, NEW new \in BOOLEAN, NEW b \in Bar, NEW m \in Minute,
           NEW scan \in Scan, tested' \in BOOLEAN, Step(new, b, m, scan), NEW carry, carry = Carry(new)
    PROVE  /\ position' \in Position \cup {None}
           /\ pendingEntry' \in Atr \cup {None}
           /\ pendingExit' \in Reason \cup {None}
           /\ armed' \in BOOLEAN
           /\ NoStaleOrders'
           /\ FadedLeaves'
           /\ WaveDisarmed'
<1> DEFINE p == IF Stopped(Filled(carry, b), b) THEN None ELSE Filled(carry, b)
           exit == IF carry.position = None THEN carry.exit ELSE None
<1>1. /\ p \in Position \cup {None}
      /\ p # None => p \in Position /\ p.nonStrong # 2
  BY SurvivorKeeps
<1>2. exit = None
  BY CarryKeeps
<1>3. Armed(carry) \in BOOLEAN
  BY CarryKeeps DEF Armed
<1>4. /\ wave' \in BOOLEAN
      /\ wave' => /\ ~new /\ (wave \/ Opens(carry))
                  /\ scan # None => Ready(scan)
  BY DEF Step
<1>5. wave' => ~Armed(carry)
  BY <1>4, CarryKeeps DEF Armed
<1>6. ASSUME scan # None
      PROVE  scan.zone \in Zone
  BY <1>6 DEF Scan
<1> HIDE DEF p, exit
<1>7. CASE scan = None
  <2>1. /\ position' = p /\ pendingEntry' = None /\ pendingExit' = None
        /\ armed' = Armed(carry)
    BY <1>2, <1>7 DEF Step, p, exit
  <2>2. QED
    BY <1>1, <1>3, <1>5, <2>1 DEF NoStaleOrders, FadedLeaves, WaveDisarmed
<1>8. CASE scan # None /\ p # None
  <2> DEFINE q == Trailed(p, b, scan.zone)
             reason == ExitReason(q, b, m, scan)
             count == NonStrong(q, b, m, scan)
  <2>1. q \in Position /\ q.nonStrong # 2
    BY <1>1, <1>6, <1>8, TrailedKeeps
  <2>2. /\ reason \in Reason \cup {None}
        /\ count \in 0 .. 2
        /\ count = 2 => reason # None
    BY <2>1, ReasonKeeps
  <2>3. Manage(p, exit, b, m, scan) /\ armed' = Armed(carry)
    BY <1>8 DEF Step, p, exit
  <2>4. /\ position' = [q EXCEPT !.nonStrong = count]
        /\ pendingExit' = reason
        /\ pendingEntry' = None
    BY <1>2, <2>3 DEF Manage
  <2> HIDE DEF q, reason, count
  <2>5. position' \in Position /\ position'.nonStrong = count
    BY <2>1, <2>2, <2>4 DEF Position
  <2>6. position' # None
    BY <2>5, EmptyAssumption
  <2>7. QED
    BY <1>3, <1>5, <2>2, <2>3, <2>4, <2>5, <2>6 DEF NoStaleOrders, FadedLeaves, WaveDisarmed
<1>9. CASE scan # None /\ p = None
  <2>1. Decide(Armed(carry), exit, m, scan)
    BY <1>9 DEF Step, p, exit
  <2>2. /\ position' = None /\ pendingExit' = None
        /\ pendingEntry' =
              IF MayEnter(m, scan) /\ Armed(carry) /\ Ready(scan) THEN scan.zone.atr ELSE None
        /\ armed' = (Armed(carry) \/ (MayEnter(m, scan) /\ ~Ready(scan)))
    BY <1>2, <2>1 DEF Decide
  <2>3. MayEnter(m, scan) => scan.zone.atr \in Atr
    BY <1>6, <1>9 DEF MayEnter, Atr
  <2>4. QED
    BY <1>3, <1>4, <1>5, <1>9, <2>2, <2>3 DEF NoStaleOrders, FadedLeaves, WaveDisarmed
<1>10. QED
  BY <1>7, <1>8, <1>9

LEMMA NextInv == BacktestInv /\ [Next]_vars => BacktestInv'
<1> SUFFICES ASSUME BacktestInv, [Next]_vars
             PROVE  BacktestInv'
  OBVIOUS
<1>1. CASE NextBar
  <2>1. PICK new \in BOOLEAN, b \in Bar, m \in Minute, scan \in Scan :
            tested' \in {tested, TRUE} /\ Step(new, b, m, scan)
    BY <1>1 DEF NextBar
  <2>2. ~over /\ tested' \in BOOLEAN
    BY <1>1, <2>1 DEF NextBar, BacktestInv, TypeOK
  <2>3. /\ position' \in Position \cup {None}
        /\ pendingEntry' \in Atr \cup {None}
        /\ pendingExit' \in Reason \cup {None}
        /\ armed' \in BOOLEAN
        /\ NoStaleOrders' /\ FadedLeaves' /\ WaveDisarmed'
    BY <2>1, <2>2, StepKeeps
  <2>4. /\ bar' = b /\ minute' = m /\ over' = over
        /\ opened' \in BOOLEAN /\ wave' \in BOOLEAN
    BY <2>1 DEF Step, Opens
  <2>5. TypeOK'
    BY <2>2, <2>3, <2>4 DEF BacktestInv, TypeOK
  <2>6. HeldOnBar'
    BY <2>4, EmptyAssumption DEF HeldOnBar
  <2>7. QED
    BY <2>3, <2>5, <2>6 DEF BacktestInv
<1>2. CASE DataEnd
  BY <1>2 DEF DataEnd, BacktestInv, TypeOK, HeldOnBar
<1>3. CASE UNCHANGED vars
  BY <1>3 DEF vars, BacktestInv, TypeOK, HeldOnBar, NoStaleOrders, WaveDisarmed, FadedLeaves
<1>4. QED
  BY <1>1, <1>2, <1>3 DEF Next

LEMMA InitInv == Init => BacktestInv
<1>1. 1 \in Minute
  BY SettingsAssumption DEF Minute
<1>2. Init => TypeOK
  BY <1>1 DEF Init, TypeOK
<1>3. QED
  BY <1>2 DEF Init, BacktestInv, HeldOnBar, NoStaleOrders, WaveDisarmed, FadedLeaves

LEMMA Invariant == Spec => []BacktestInv
BY InitInv, NextInv, PTL DEF Spec

-----------------------------------------------------------------------------
(* The theorems about a backtest.                                          *)

\* Type correctness, for any bars, evidence, zones and settings.
THEOREM TypeCorrect == Spec => []TypeOK
<1>1. BacktestInv => TypeOK
  BY DEF BacktestInv
<1>2. QED
  BY <1>1, Invariant, PTL

\* No order outlives what it was decided for, at the end of a session either.
THEOREM OrdersNeverStale == Spec => []NoStaleOrders
<1>1. BacktestInv => NoStaleOrders
  BY DEF BacktestInv, NoStaleOrders
<1>2. QED
  BY <1>1, Invariant, PTL

\* A wave of READY bars is filled once: the fill disarms the entry, and only a bar
\* that is not READY, or a new session, arms it.
THEOREM WavesFillOnce == Spec => OneFillPerWave
<1>1. BacktestInv /\ [Next]_vars => [opened' => ~wave]_vars
  <2> SUFFICES ASSUME BacktestInv, Next, opened'
               PROVE  ~wave
    OBVIOUS
  <2>1. CASE NextBar
    <3>1. PICK new \in BOOLEAN, b \in Bar, m \in Minute, scan \in Scan : Step(new, b, m, scan)
      BY <2>1 DEF NextBar
    <3>2. Carry(new).entry # None
      BY <3>1 DEF Step, Opens
    <3>3. QED
      BY <2>1, <3>2, CarryKeeps DEF NextBar
  <2>2. CASE DataEnd
    BY <2>2 DEF DataEnd
  <2>3. QED
    BY <2>1, <2>2 DEF Next
<1>2. QED
  BY <1>1, Invariant, PTL DEF Spec, OneFillPerWave

\* The prices of a trade the bar closes are prices of the bar.
LEMMA ClosesInside ==
    ASSUME BacktestInv, ~over, NEW new \in BOOLEAN, NEW b \in Bar, NEW carry,
           carry = Carry(new), Closes(new, carry, b) # None
    PROVE  LET trade == Closes(new, carry, b)
           IN trade.bar.low <= trade.price /\ trade.price <= trade.bar.high
<1> DEFINE p == Filled(carry, b)
           trade == Closes(new, carry, b)
<1>1. \A c \in Bar : /\ c.open \in Nat /\ c.low \in Nat /\ c.high \in Nat /\ c.close \in Nat
                     /\ c.low <= c.open /\ c.open <= c.high
                     /\ c.low <= c.close /\ c.close <= c.high
  BY BarAssumption
<1>2. CASE new /\ position # None
  <2>1. bar \in Bar
    BY <1>2 DEF BacktestInv, HeldOnBar, TypeOK
  <2>2. trade = Closed(bar, bar.close, "session_end")
    BY <1>2 DEF Closes
  <2>3. trade.bar = bar /\ trade.price = bar.close
    BY <2>2 DEF Closed
  <2>4. QED
    BY <1>1, <2>1, <2>3
<1>3. CASE ~(new /\ position # None) /\ carry.position # None /\ carry.exit # None
  <2>1. trade = Closed(b, b.open, carry.exit)
    BY <1>3 DEF Closes
  <2>2. trade.bar = b /\ trade.price = b.open
    BY <2>1 DEF Closed
  <2>3. QED
    BY <1>1, <2>2
<1>4. CASE ~(new /\ position # None) /\ ~(carry.position # None /\ carry.exit # None)
  <2>1. Stopped(p, b)
    BY <1>4 DEF Closes
  <2>2. p \in Position \cup {None}
    BY CarryKeeps, FilledKeeps
  <2>3. p.stop \in Int /\ b.low <= p.stop
    BY <2>1, <2>2 DEF Stopped, Position
  <2>4. trade = Closed(b, StopPrice(p, b), IF p.trailing THEN "trailing_stop" ELSE "protective_stop")
    BY <1>4, <2>1 DEF Closes
  <2>5. trade.bar = b /\ trade.price = StopPrice(p, b)
    BY <2>4 DEF Closed
  <2>6. QED
    BY <1>1, <2>3, <2>5 DEF StopPrice
<1>5. QED
  BY <1>2, <1>3, <1>4

\* A bar that ends with a position stayed above its stop, on the bar of the entry as
\* well as on a later one, stops never fall, and trades close at prices of their bars.
THEOREM StopsAlwaysHonoured == Spec => StopsHonoured
<1> DEFINE Honoured ==
             /\ (position' # None /\ opened') =>
                    bar'.low > position'.entry - Times(InitialStop, position'.atr)
             /\ (position' # None /\ ~opened') =>
                    (bar'.low > position.stop /\ position'.stop >= position.stop)
             /\ closed' # None =>
                    (closed'.bar.low <= closed'.price /\ closed'.price <= closed'.bar.high)
<1>1. BacktestInv /\ [Next]_vars => [Honoured]_vars
  <2> SUFFICES ASSUME BacktestInv, Next
               PROVE  Honoured
    OBVIOUS
  <2>1. CASE NextBar
    <3>1. PICK new \in BOOLEAN, b \in Bar, m \in Minute, scan \in Scan : Step(new, b, m, scan)
      BY <2>1 DEF NextBar
    <3>2. ~over
      BY <2>1 DEF NextBar
    <3> DEFINE carry == Carry(new)
               p == IF Stopped(Filled(carry, b), b) THEN None ELSE Filled(carry, b)
               q == Trailed(p, b, scan.zone)
    <3>3. bar' = b /\ opened' = Opens(carry) /\ closed' = Closes(new, carry, b)
      BY <3>1 DEF Step
    <3>4. p # None => /\ p \in Position /\ b.low > p.stop
                      /\ Opens(carry) => p = Opened(b, carry.entry) /\ carry.entry \in Atr
                      /\ ~Opens(carry) => p = position
      BY <3>2, SurvivorKeeps
    <3>5. ASSUME position' # None
          PROVE  /\ p # None
                 /\ position'.entry = p.entry /\ position'.atr = p.atr
                 /\ position'.stop >= p.stop
      <4>1. CASE scan = None
        <5>1. position' = p
          BY <3>1, <4>1 DEF Step
        <5>2. p.stop \in Int
          BY <3>4, <3>5, <5>1 DEF Position
        <5>3. QED
          BY <3>5, <5>1, <5>2
      <4>2. CASE scan # None
        <5>1. p # None
          BY <3>1, <3>5, <4>2 DEF Step, Decide
        <5>2. scan.zone \in Zone
          BY <4>2 DEF Scan
        <5>3. /\ q \in Position /\ q.entry = p.entry /\ q.atr = p.atr
              /\ q.stop >= p.stop
          BY <3>4, <5>1, <5>2, TrailedKeeps
        <5>4. \E count : position' = [q EXCEPT !.nonStrong = count]
          BY <3>1, <4>2, <5>1 DEF Step, Manage
        <5> HIDE DEF p, q
        <5>5. position'.entry = q.entry /\ position'.atr = q.atr /\ position'.stop = q.stop
          BY <5>3, <5>4 DEF Position
        <5>6. QED
          BY <5>1, <5>3, <5>5
      <4>3. QED
        BY <4>1, <4>2
    <3>6. ASSUME closed' # None
          PROVE  closed'.bar.low <= closed'.price /\ closed'.price <= closed'.bar.high
      BY <3>2, <3>3, <3>6, ClosesInside
    <3> HIDE DEF p
    <3>7. ASSUME position' # None, Opens(carry)
          PROVE  b.low > position'.entry - Times(InitialStop, position'.atr)
      BY <3>4, <3>5, <3>7, OpenedKeeps
    <3>8. ASSUME position' # None, ~Opens(carry)
          PROVE  b.low > position.stop /\ position'.stop >= position.stop
      BY <3>4, <3>5, <3>8
    <3>9. QED
      BY <3>3, <3>6, <3>7, <3>8
  <2>2. CASE DataEnd
    <3>1. position' = None /\ (closed' # None => closed' = Closed(bar, bar.close, "data_end"))
      BY <2>2 DEF DataEnd
    <3>2. bar \in Bar
      BY <2>2 DEF DataEnd, BacktestInv, TypeOK
    <3>3. bar.low <= bar.close /\ bar.close <= bar.high
      BY <3>2, BarAssumption
    <3>4. QED
      BY <3>1, <3>3 DEF Closed
  <2>3. QED
    BY <2>1, <2>2 DEF Next
<1>2. QED
  BY <1>1, Invariant, PTL DEF Spec, StopsHonoured

-----------------------------------------------------------------------------
(* The regime.                                                             *)

\* The regime weighs in the score with at most ten points.
LEMMA ScoreSpread ==
    ASSUME NEW rank, NEW g \in Regime, NEW h \in Regime
    PROVE  /\ BullishScore(rank, g) \in Int /\ BullishScore(rank, h) \in Int
           /\ BullishScore(rank, h) >= BullishScore(rank, g) - 10
<1> DEFINE spy == HorizonPoints(rank.change, 20)
           qqq == HorizonPoints(rank.vsQqq, 10)
           vwap == If(BullishVwap(rank), 20)
           ema == If(rank.ema > 0, 15)
           ratio == If(rank.ratio > 0, 15)
           spyPoints == IF spy >= 0 THEN spy ELSE If(HourChange(rank.change) > 0, 20)
           qqqPoints == If(qqq > 0, qqq)
           expanding == If(rank.volume = "expanding", 10)
           normal == If(rank.volume = "normal", 5)
           OfRegime(regime) == If(regime = "bullish", 10) + If(regime = "neutral", 5)
<1>1. \A points \in Int, c \in BOOLEAN : If(c, points) \in Int
  BY DEF If
<1>2. spy \in Int /\ qqq \in Int
  BY DEF HorizonPoints
<1>3. /\ vwap \in Int /\ ema \in Int /\ ratio \in Int /\ spyPoints \in Int /\ qqqPoints \in Int
      /\ expanding \in Int /\ normal \in Int
  BY <1>2 DEF If
<1>4. \A regime \in Regime : OfRegime(regime) \in 0 .. 10
  BY DEF If, Regime
<1>5. \A regime \in Regime :
        BullishScore(rank, regime) =
            vwap + ema + ratio + spyPoints + qqqPoints + expanding + normal
                + If(regime = "bullish", 10) + If(regime = "neutral", 5)
  BY DEF BullishScore
<1> HIDE DEF vwap, ema, ratio, spyPoints, qqqPoints, expanding, normal
<1>6. \A regime \in Regime :
        BullishScore(rank, regime) =
            (vwap + ema + ratio + spyPoints + qqqPoints + expanding + normal) + OfRegime(regime)
  BY <1>3, <1>5 DEF If, Regime
<1> HIDE DEF OfRegime
<1>7. QED
  BY <1>3, <1>4, <1>6

\* Losing the VWAP is closing below it.
LEMMA LostIsBelow ==
    ASSUME NEW previous \in PricedMinute, NEW current \in PricedMinute, NEW sameAnchor,
           VwapStructure(previous, current, sameAnchor) = "lost"
    PROVE  current.vwap # None /\ ~(current.close > current.vwap)
<1>1. current.vwap # None /\ current.close < current.vwap
  BY DEF VwapStructure
<1>2. current.close \in Int /\ current.vwap \in Int
  BY <1>1 DEF PricedMinute
<1>3. QED
  BY <1>1, <1>2

\* Which phases the regime cannot change: weak and fading depend on the ETF alone, and
\* a strong ETF has the score and the momentum of a building one in any regime.
LEMMA PhaseOfRegime ==
    ASSUME NEW rank, NEW regime \in Regime,
           rank.signal = "strong" => PositiveMomentum(rank)
    PROVE  /\ Phase(rank, regime) = "weak" <=> rank.signal = "weak"
           /\ Phase(rank, regime) = "fading" <=>
                  /\ rank.signal # "weak"
                  /\ rank.structure = "lost" \/ (AboveVwap(rank) /\ ~PositiveMomentum(rank))
           /\ Phase(rank, regime) = "strong" <=>
                  /\ rank.structure # "lost" /\ rank.signal = "strong"
                  /\ BullishScore(rank, regime) >= 80
           /\ (/\ rank.signal = "strong" /\ rank.structure # "lost"
               /\ BullishScore(rank, regime) >= 60) => Phase(rank, regime) \in {"strong", "building"}
<1> DEFINE score == BullishScore(rank, regime)
<1>1. score \in Int
  BY ScoreSpread
<1>2. Phase(rank, regime) =
        IF rank.signal = "weak" THEN "weak"
        ELSE IF rank.structure = "lost" THEN "fading"
        ELSE IF rank.signal = "strong" /\ score >= 80 THEN "strong"
        ELSE IF score >= 60 /\ PositiveMomentum(rank) THEN "building"
        ELSE IF AboveVwap(rank) /\ ~PositiveMomentum(rank) THEN "fading"
        ELSE "neutral"
  BY DEF Phase
<1> HIDE DEF score
<1>3. QED
  BY <1>1, <1>2 DEF score

\* The candidate of a single ETF, and what it takes to be one.
LEMMA CandidateOfOne ==
    ASSUME NEW rank, NEW regime
    PROVE  LET c == Candidate(<<rank>>, regime)
               strong == rank.signal = "strong" /\ AboveVwap(rank) /\ rank.ema > 0
           IN /\ (c # None /\ c.side = "long") <=> strong
              /\ (c # None /\ c.side = "short") => rank.signal = "weak"
<1> DEFINE ranks == <<rank>>
           long == {n \in DOMAIN ranks :
                       ranks[n].signal = "strong" /\ AboveVwap(ranks[n]) /\ ranks[n].ema > 0}
           short == {n \in DOMAIN ranks :
                       /\ ranks[n].signal = "weak" /\ ranks[n].ema < 0
                       /\ ranks[n].vwap # None /\ ranks[n].close < ranks[n].vwap}
           first == CHOOSE n \in long : \A o \in long : n <= o
           last == CHOOSE n \in short : \A o \in short : n >= o
           strong == rank.signal = "strong" /\ AboveVwap(rank) /\ rank.ema > 0
           c == Candidate(<<rank>>, regime)
<1>1. DOMAIN ranks = {1} /\ ranks[1] = rank
  OBVIOUS
<1>2. long = IF strong THEN {1} ELSE {}
  BY <1>1
<1>3. short # {} => rank.signal = "weak"
  BY <1>1
<1>4. c = IF long # {} THEN [side |-> "long", rank |-> first]
          ELSE IF regime = "bearish" /\ short # {} THEN [side |-> "short", rank |-> last]
          ELSE None
  BY DEF Candidate
<1>5. long # {} => first = 1
  <2>1. long # {} => 1 \in long /\ \A n \in long : n = 1
    BY <1>2
  <2> HIDE DEF long
  <2>2. QED
    BY <2>1
<1> HIDE DEF long, short, first, last, strong, c
<1>6. CASE strong
  <2>1. c = [side |-> "long", rank |-> 1]
    BY <1>2, <1>4, <1>5, <1>6
  <2>2. c # None /\ c.side = "long"
    BY <2>1, CandidateAssumption
  <2>3. QED
    BY <1>6, <2>2 DEF strong, c
<1>7. CASE ~strong
  <2>1. long = {}
    BY <1>2, <1>7
  <2>2. c = None \/ (c.side = "short" /\ rank.signal = "weak")
    BY <1>3, <1>4, <2>1
  <2>3. QED
    BY <1>7, <2>2 DEF strong, c
<1>8. QED
  BY <1>6, <1>7

LEMMA EvidenceNotVetoed == ASSUME NEW e \in Evidence PROVE ~Vetoed(e)
<1> DEFINE rank == Rank(e)
           Held(regime) == HoldingGuidance(Phase(rank, regime))
<1>1. /\ rank.signal = Signal(e) /\ rank.ema = e.ema /\ rank.change = e.change
      /\ rank.close = e.current.close /\ rank.vwap = e.current.vwap
      /\ rank.structure = VwapStructure(e.previous, e.current, e.sameAnchor)
  BY DEF Rank
<1> HIDE DEF rank
<1>2. rank.signal = "strong" => PositiveMomentum(rank)
  BY <1>1 DEF Signal, PositiveMomentum, HourChange
<1>3. rank.structure = "lost" => ~AboveVwap(rank)
  BY <1>1, LostIsBelow, EvidenceAssumption DEF AboveVwap
<1>4. \A regime \in Regime :
        /\ LongOpportunity(rank, regime).phase = Phase(rank, regime)
        /\ LongOpportunity(rank, regime).held = Held(regime)
  BY DEF LongOpportunity
<1>5. \A regime \in Regime :
        /\ Held(regime) = "exit" <=> rank.signal = "weak"
        /\ Held(regime) = "trim" <=>
               /\ rank.signal # "weak"
               /\ rank.structure = "lost" \/ (AboveVwap(rank) /\ ~PositiveMomentum(rank))
  <2> SUFFICES ASSUME NEW regime \in Regime
               PROVE  /\ Held(regime) = "exit" <=> Phase(rank, regime) = "weak"
                      /\ Held(regime) = "trim" <=> Phase(rank, regime) = "fading"
    BY <1>2, PhaseOfRegime
  <2>1. Phase(rank, regime) \in {"weak", "fading", "strong", "building", "neutral"}
    BY DEF Phase
  <2>2. QED
    BY <2>1 DEF HoldingGuidance
<1> HIDE DEF Held
<1>6. ASSUME NEW g \in Regime, NEW h \in Regime
      PROVE  /\ Held(g) \in {"trim", "exit"} => Held(h) = Held(g)
             /\ Phase(rank, g) = "strong" => Phase(rank, h) \in {"strong", "building"}
             /\ (rank.signal = "strong" /\ AboveVwap(rank)) => Held(g) \notin {"trim", "exit"}
  <2>1. Held(g) \in {"trim", "exit"} => Held(h) = Held(g)
    BY <1>5
  <2>2. ASSUME Phase(rank, g) = "strong"
        PROVE  Phase(rank, h) \in {"strong", "building"}
    <3>1. rank.structure # "lost" /\ rank.signal = "strong" /\ BullishScore(rank, g) >= 80
      BY <1>2, <2>2, PhaseOfRegime
    <3>2. BullishScore(rank, h) >= 60
      BY <3>1, ScoreSpread
    <3>3. QED
      BY <1>2, <3>1, <3>2, PhaseOfRegime
  <2>3. (rank.signal = "strong" /\ AboveVwap(rank)) => Held(g) \notin {"trim", "exit"}
    BY <1>2, <1>3, <1>5
  <2>4. QED
    BY <2>1, <2>2, <2>3
<1>7. \A regime \in Regime :
        LET c == Candidate(<<rank>>, regime)
            strong == rank.signal = "strong" /\ AboveVwap(rank) /\ rank.ema > 0
        IN /\ (c # None /\ c.side = "long") <=> strong
           /\ (c # None /\ c.side = "short") => rank.signal = "weak"
  BY CandidateOfOne
<1>8. QED
  BY <1>4, <1>5, <1>6, <1>7 DEF Vetoed, rank

\* The market regime has no veto over any evidence an ETF may show: it does not decide
\* who is to be trimmed or left, hides no strong candidate and demotes no strong ETF,
\* and no long candidate is one to leave.
THEOREM RegimeHasNoVeto == Spec => []RegimeIsNoVeto
<1>1. RegimeIsNoVeto
  BY EvidenceNotVetoed DEF RegimeIsNoVeto, Overridden
<1>2. QED
  BY <1>1, PTL

-----------------------------------------------------------------------------
(* Recursion on the numbers up to n: what is defined so exists, and what   *)
(* each step keeps holds at the end.                                       *)

LEMMA LeastOf ==
    ASSUME NEW S \in SUBSET Nat, S # {}
    PROVE  \E m \in S : \A n \in S : m <= n
<1>1. PICK m \in S : \A n \in S : <<n, m>> \notin OpToRel(<, Nat)
  BY NatLessThanWellFounded, WFMin, Zenon
<1>2. \A n \in S : ~(n < m)
  BY <1>1 DEF OpToRel
<1>3. QED
  BY <1>2

LEMMA Inductively ==
    ASSUME NEW n \in Nat, NEW S, 0 \in S, \A k \in 1 .. n : k - 1 \in S => k \in S
    PROVE  \A k \in 0 .. n : k \in S
<1> DEFINE bad == {k \in 0 .. n : k \notin S}
<1>1. SUFFICES ASSUME bad # {} PROVE FALSE
  OBVIOUS
<1>2. PICK m \in bad : \A k \in bad : m <= k
  <2>1. bad \in SUBSET Nat
    OBVIOUS
  <2> HIDE DEF bad
  <2>2. QED
    BY <1>1, <2>1, LeastOf, Zenon
<1>3. m \in 0 .. n /\ m \notin S /\ m # 0
  BY <1>2
<1>4. m - 1 \in 0 .. n /\ m - 1 \notin bad /\ m \in 1 .. n
  BY <1>2, <1>3
<1>5. QED
  BY <1>3, <1>4

\* f is computed from base, its value at k by step[k] from the one before.
Computes(f, n, base, step) == f[0] = base /\ \A k \in 1 .. n : f[k] = step[k][f[k - 1]]

LEMMA Computed ==
    ASSUME NEW n \in Nat, NEW R, NEW base \in R, NEW step \in [1 .. n -> [R -> R]]
    PROVE  \E f \in [0 .. n -> R] : Computes(f, n, base, step)
<1> DEFINE good == {m \in 0 .. n : \E f \in [0 .. m -> R] : Computes(f, m, base, step)}
<1>1. 0 \in good
  <2>1. [k \in 0 .. 0 |-> base] \in [0 .. 0 -> R]
    OBVIOUS
  <2>2. Computes([k \in 0 .. 0 |-> base], 0, base, step)
    BY DEF Computes
  <2>3. QED
    BY <2>1, <2>2
<1>2. ASSUME NEW m \in 1 .. n, m - 1 \in good PROVE m \in good
  <2>1. PICK f \in [0 .. m - 1 -> R] : Computes(f, m - 1, base, step)
    BY <1>2
  <2> DEFINE g == [k \in 0 .. m |-> IF k = m THEN step[m][f[m - 1]] ELSE f[k]]
  <2>2. step[m] \in [R -> R] /\ f[m - 1] \in R
    BY <2>1
  <2>3. g \in [0 .. m -> R]
    BY <2>1, <2>2
  <2>4. f[0] = base /\ \A k \in 1 .. m - 1 : f[k] = step[k][f[k - 1]]
    BY <2>1 DEF Computes
  <2>5. g[0] = base /\ \A k \in 1 .. m : g[k] = step[k][g[k - 1]]
    BY <2>4
  <2>6. Computes(g, m, base, step)
    BY <2>5 DEF Computes
  <2>7. QED
    BY <2>3, <2>6
<1> HIDE DEF good
<1>3. n \in good
  <2>1. \A m \in 1 .. n : m - 1 \in good => m \in good
    BY <1>2
  <2>2. \A k \in 0 .. n : k \in good
    BY <1>1, <2>1, Inductively, Zenon
  <2>3. QED
    BY <2>2
<1>4. QED
  BY <1>3 DEF good

\* What is computed alike agrees.
Alike(f, g, n) == f[0] = g[0] /\ \A k \in 1 .. n : f[k - 1] = g[k - 1] => f[k] = g[k]
Agree(f, g, n) == \A k \in 0 .. n : f[k] = g[k]

LEMMA AlikeAgree ==
    ASSUME NEW n \in Nat, NEW f, NEW g, Alike(f, g, n)
    PROVE  Agree(f, g, n)
<1> DEFINE S == {k \in 0 .. n : f[k] = g[k]}
<1>1. 0 \in S /\ \A k \in 1 .. n : k - 1 \in S => k \in S
  BY DEF Alike
<1> HIDE DEF S
<1>2. \A k \in 0 .. n : k \in S
  BY <1>1, Inductively, Zenon
<1>3. QED
  BY <1>2 DEF S, Agree

-----------------------------------------------------------------------------
(* Sorting by rank.                                                        *)

\* The members of a finite set that go before each, in a total order.
Orders(before, D) ==
    /\ before \in [D -> SUBSET D]
    /\ \A x \in D : x \notin before[x]
    /\ \A x, y \in D : y \in before[x] => before[y] \subseteq before[x]
    /\ \A x, y \in D : x = y \/ x \in before[y] \/ y \in before[x]

\* Their number gives each member a place of its own, and every place is taken.
LEMMA Places ==
    ASSUME NEW D, IsFiniteSet(D), NEW before, Orders(before, D)
    PROVE  /\ Cardinality(D) \in Nat
           /\ \A x \in D : Cardinality(before[x]) \in 0 .. Cardinality(D) - 1
           /\ \A x, y \in D : Cardinality(before[x]) < Cardinality(before[y]) <=> x \in before[y]
           /\ \A k \in 1 .. Cardinality(D) : \E x \in D : Cardinality(before[x]) = k - 1
<1> DEFINE c == Cardinality(D)
           rank == [x \in D |-> Cardinality(before[x])]
<1>1. c \in Nat
  BY FS_CardinalityType
<1>2. ASSUME NEW x \in D
      PROVE  IsFiniteSet(before[x]) /\ rank[x] \in 0 .. c - 1
  <2>1. before[x] \in SUBSET D /\ before[x] # D
    BY DEF Orders
  <2>2. /\ IsFiniteSet(before[x]) /\ Cardinality(before[x]) <= c
        /\ c = Cardinality(before[x]) => D = before[x]
    BY <2>1, FS_Subset
  <2>3. Cardinality(before[x]) \in Nat
    BY <2>2, FS_CardinalityType
  <2>4. QED
    BY <1>1, <2>1, <2>2, <2>3
<1>3. ASSUME NEW x \in D, NEW y \in D, x \in before[y]
      PROVE  rank[x] < rank[y]
  <2>1. before[x] \in SUBSET before[y] /\ before[x] # before[y]
    BY <1>3 DEF Orders
  <2>2. /\ Cardinality(before[x]) <= Cardinality(before[y])
        /\ Cardinality(before[y]) = Cardinality(before[x]) => before[y] = before[x]
    BY <1>2, <2>1, FS_Subset
  <2>3. Cardinality(before[x]) \in Int /\ Cardinality(before[y]) \in Int
    BY <1>2
  <2>4. QED
    BY <2>1, <2>2, <2>3
<1>4. \A x, y \in D : rank[x] < rank[y] <=> x \in before[y]
  <2>1. SUFFICES ASSUME NEW x \in D, NEW y \in D, rank[x] < rank[y] PROVE x \in before[y]
    BY <1>3
  <2>2. rank[x] \in Int /\ rank[y] \in Int
    BY <1>2
  <2>3. x # y /\ y \notin before[x]
    BY <1>3, <2>1, <2>2
  <2>4. QED
    BY <2>3 DEF Orders
<1>5. rank \in Injection(D, 0 .. c - 1)
  <2>1. rank \in [D -> 0 .. c - 1]
    BY <1>2
  <2>2. ASSUME NEW x \in D, NEW y \in D, rank[x] = rank[y] PROVE x = y
    <3>1. rank[x] \in Int /\ rank[y] \in Int
      BY <1>2
    <3>2. x \notin before[y] /\ y \notin before[x]
      BY <1>4, <2>2, <3>1
    <3>3. QED
      BY <3>2 DEF Orders
  <2>3. IsInjective(rank)
    BY <2>2 DEF IsInjective
  <2>4. QED
    BY <2>1, <2>3, Zenon DEF Injection
<1>6. IsFiniteSet(0 .. c - 1) /\ Cardinality(0 .. c - 1) = c
  BY <1>1, FS_Interval
<1>7. rank \in Surjection(D, 0 .. c - 1)
  BY <1>5, <1>6, FS_Injection
<1>8. \A k \in 1 .. c : \E x \in D : rank[x] = k - 1
  <2>1. \A k \in 0 .. c - 1 : \E x \in D : rank[x] = k
    BY <1>7 DEF Surjection
  <2>2. \A k \in 1 .. c : k - 1 \in 0 .. c - 1
    BY <1>1
  <2>3. QED
    BY <2>1, <2>2
<1>9. \A x \in D : rank[x] = Cardinality(before[x])
  OBVIOUS
<1> HIDE DEF rank
<1>10. QED
  BY <1>1, <1>2, <1>4, <1>8, <1>9


-----------------------------------------------------------------------------
(* The minutes of a tape.                                                  *)

LEMMA MinutesOfTape ==
    ASSUME NEW tape \in Tape
    PROVE  tape \subseteq TapeMinute /\ IsFiniteSet(tape) /\ \A t \in tape : t \in Nat
<1>1. tape \subseteq 0 .. LastTapeMinute /\ LastTapeMinute \in Nat
  BY TapeAssumption DEF Tape, TapeMinute
<1>2. IsFiniteSet(0 .. LastTapeMinute)
  BY <1>1, FS_Interval
<1>3. IsFiniteSet(tape)
  BY <1>1, <1>2, FS_Subset, Zenon
<1>4. ASSUME NEW t \in tape PROVE t \in Nat
  BY <1>1
<1>5. QED
  BY <1>1, <1>3, <1>4 DEF TapeMinute

\* Every minute has a place of its own in its tape.
LEMMA PlacesOfTape ==
    ASSUME NEW tape \in Tape
    PROVE  LET place(t) == Cardinality({u \in tape : u < t})
           IN /\ Cardinality(tape) \in Nat
              /\ \A t \in tape : place(t) \in 0 .. Cardinality(tape) - 1
              /\ \A t, u \in tape : place(t) < place(u) <=> t < u
              /\ \A k \in 1 .. Cardinality(tape) : \E t \in tape : place(t) = k - 1
<1> DEFINE before == [t \in tape |-> {u \in tape : u < t}]
<1>1. IsFiniteSet(tape) /\ \A t \in tape : t \in Nat
  BY MinutesOfTape
<1>2. Orders(before, tape)
  <2>1. before \in [tape -> SUBSET tape]
    OBVIOUS
  <2>2. \A x, y \in tape : y \in before[x] <=> y < x
    OBVIOUS
  <2> HIDE DEF before
  <2>3. \A x \in tape : x \notin before[x]
    BY <1>1, <2>2
  <2>4. \A x, y \in tape : x = y \/ x \in before[y] \/ y \in before[x]
    BY <1>1, <2>2
  <2>5. ASSUME NEW x \in tape, NEW y \in tape, y \in before[x], NEW z \in before[y]
        PROVE  z \in before[x]
    <3>1. z \in tape
      BY <2>1
    <3>2. QED
      BY <1>1, <2>2, <2>5, <3>1
  <2>6. QED
    BY <2>1, <2>3, <2>4, <2>5 DEF Orders
<1>3. \A t \in tape : before[t] = {u \in tape : u < t}
  OBVIOUS
<1>4. \A t, u \in tape : t \in before[u] <=> t < u
  OBVIOUS
<1> HIDE DEF before
<1>5. /\ Cardinality(tape) \in Nat
      /\ \A t \in tape : Cardinality(before[t]) \in 0 .. Cardinality(tape) - 1
      /\ \A t, u \in tape : Cardinality(before[t]) < Cardinality(before[u]) <=> t \in before[u]
      /\ \A k \in 1 .. Cardinality(tape) : \E t \in tape : Cardinality(before[t]) = k - 1
  BY <1>1, <1>2, Places
<1>6. QED
  BY <1>3, <1>4, <1>5

TrendBar == [time : Nat, open : Int, high : Int, low : Int, close : Int, volume : Nat]

\* Every bar of the sequence is of a later minute than those before.
InTime(bars) == \A i, j \in DOMAIN bars : i < j => bars[i].time < bars[j].time

LEMMA BarOfMinute ==
    ASSUME NEW tape \in Tape, NEW t \in tape
    PROVE  /\ BarAt(t) \in TrendBar /\ BarAt(t).time = t /\ t \in Nat /\ t <= LastTapeMinute
<1>1. t \in TapeMinute /\ t \in Nat /\ t <= LastTapeMinute
  BY TapeAssumption DEF Tape, TapeMinute
<1>2. TapePrice(t) \in Int
  BY <1>1, TapeAssumption
<1>3. QED
  BY <1>1, <1>2 DEF BarAt, TrendBar

\* A minute has its bar at the place it has in the tape.
LEMMA BarsOfTape ==
    ASSUME NEW tape \in Tape
    PROVE  /\ Bars(tape) \in Seq(TrendBar) /\ Len(Bars(tape)) = Cardinality(tape)
           /\ Cardinality(tape) \in Nat
           /\ \A t \in tape : \A k \in 1 .. Cardinality(tape) :
                  Cardinality({u \in tape : u < t}) = k - 1 => Bars(tape)[k] = BarAt(t)
           /\ InTime(Bars(tape))
<1> DEFINE n == Cardinality(tape)
           place(t) == Cardinality({u \in tape : u < t})
           at(k) == CHOOSE t \in tape : place(t) = k - 1
           bars == Bars(tape)
<1>1. /\ n \in Nat
      /\ \A t \in tape : place(t) \in 0 .. n - 1
      /\ \A t, u \in tape : place(t) < place(u) <=> t < u
      /\ \A k \in 1 .. n : \E t \in tape : place(t) = k - 1
  BY PlacesOfTape
<1>2. bars = [k \in 1 .. n |-> BarAt(at(k))]
  BY DEF Bars
<1> HIDE DEF place, bars, n
<1>3. \A k \in 1 .. n : at(k) \in tape /\ place(at(k)) = k - 1
  BY <1>1
<1> HIDE DEF at
<1>4. \A k \in 1 .. n : bars[k] = BarAt(at(k)) /\ bars[k] \in TrendBar /\ bars[k].time = at(k)
  BY <1>2, <1>3, BarOfMinute
<1>5. bars \in Seq(TrendBar) /\ Len(bars) = n /\ DOMAIN bars = 1 .. n
  BY <1>1, <1>2, <1>4
<1>6. ASSUME NEW t \in tape, NEW k \in 1 .. n, place(t) = k - 1 PROVE at(k) = t
  <2>1. ~(at(k) < t) /\ ~(t < at(k))
    BY <1>1, <1>3, <1>6
  <2>2. at(k) \in Nat /\ t \in Nat
    BY <1>3, BarOfMinute
  <2>3. QED
    BY <2>1, <2>2
<1>7. ASSUME NEW i \in 1 .. n, NEW j \in 1 .. n, i < j PROVE bars[i].time < bars[j].time
  <2>1. place(at(i)) < place(at(j))
    BY <1>3, <1>7
  <2>2. QED
    BY <1>1, <1>3, <1>4, <2>1
<1>8. InTime(bars)
  BY <1>5, <1>7 DEF InTime
<1>9. \A t \in tape : \A k \in 1 .. n : place(t) = k - 1 => bars[k] = BarAt(t)
  BY <1>4, <1>6
<1>10. QED
  BY <1>1, <1>5, <1>8, <1>9 DEF bars, n, place

UpTo(tape, t) == {u \in tape : u <= t}

\* The bars up to a minute are the first of all bars, and the others are later.
LEMMA BarsUpTo ==
    ASSUME NEW tape \in Tape, NEW t \in tape
    PROVE  LET k == Cardinality(UpTo(tape, t))
           IN /\ UpTo(tape, t) \in Tape
              /\ k \in 1 .. Cardinality(tape)
              /\ Len(Bars(UpTo(tape, t))) = k
              /\ \A i \in 1 .. k : Bars(UpTo(tape, t))[i] = Bars(tape)[i]
              /\ Bars(tape)[k].time = t
              /\ \A i \in k + 1 .. Cardinality(tape) : Bars(tape)[i].time > t
<1> DEFINE early == UpTo(tape, t)
           n == Cardinality(tape)
           k == Cardinality(early)
           place(u) == Cardinality({v \in tape : v < u})
           placed(u) == Cardinality({v \in early : v < u})
<1>1. /\ early \in Tape /\ t \in early /\ \A u \in tape : u \in Nat
      /\ \A u \in early : u \in tape /\ u <= t
      /\ \A u \in tape : u <= t => u \in early
  <2>1. tape \subseteq TapeMinute /\ \A u \in tape : u \in Nat
    BY MinutesOfTape
  <2>2. early \subseteq tape /\ \A u \in tape : u \in early <=> u <= t
    BY DEF UpTo
  <2> HIDE DEF early
  <2>3. t \in early
    BY <2>1, <2>2
  <2>4. early \in Tape
    BY <2>1, <2>2 DEF Tape
  <2>5. QED
    BY <2>1, <2>2, <2>3, <2>4
<1> HIDE DEF early
<1>2. \A u \in early : u \in tape /\ placed(u) = place(u)
  <2>1. TAKE u \in early
  <2>2. u \in tape /\ u <= t /\ u \in Nat /\ t \in Nat
    BY <1>1
  <2>3. \A v \in tape : v < u => v \in early
    BY <1>1, <2>2
  <2>4. {v \in early : v < u} = {v \in tape : v < u}
    BY <1>1, <2>3
  <2>5. QED
    BY <2>2, <2>4
<1>3. k = place(t) + 1 /\ k \in Nat
  <2>1. early = {v \in tape : v < t} \cup {t} /\ t \notin {v \in tape : v < t}
    <3>1. \A v \in tape : v <= t <=> (v < t \/ v = t)
      BY <1>1
    <3>2. \A v : v \in early <=> (v \in tape /\ v < t) \/ v = t
      BY <1>1, <3>1
    <3>3. ~(t < t)
      BY <1>1
    <3>4. QED
      BY <3>2, <3>3
  <2>2. IsFiniteSet({v \in tape : v < t})
    <3>1. IsFiniteSet(tape) /\ {v \in tape : v < t} \subseteq tape
      BY MinutesOfTape
    <3>2. QED
      BY <3>1, FS_Subset, Zenon
  <2>3. Cardinality(early) = Cardinality({v \in tape : v < t}) + 1
    BY <2>1, <2>2, FS_AddElement
  <2>4. place(t) \in Nat
    BY <2>2, FS_CardinalityType
  <2>5. QED
    BY <2>3, <2>4
<1>4. /\ n \in Nat /\ \A u \in tape : place(u) \in 0 .. n - 1
      /\ \A u, v \in tape : place(u) < place(v) <=> u < v
      /\ \A i \in 1 .. n : \E u \in tape : place(u) = i - 1
  BY PlacesOfTape
<1>5. \A i \in 1 .. k : \E u \in early : placed(u) = i - 1
  BY <1>1, PlacesOfTape
<1>6. /\ \A u \in tape : \A i \in 1 .. n : place(u) = i - 1 => Bars(tape)[i] = BarAt(u)
      /\ \A u \in early : \A i \in 1 .. k : placed(u) = i - 1 => Bars(early)[i] = BarAt(u)
      /\ Len(Bars(early)) = k
  BY <1>1, BarsOfTape
<1> HIDE DEF place, placed, k, n
<1>7. k \in 1 .. n
  BY <1>3, <1>4
<1>8. ASSUME NEW i \in 1 .. k PROVE Bars(early)[i] = Bars(tape)[i]
  <2>1. PICK u \in early : placed(u) = i - 1
    BY <1>5
  <2>2. u \in tape /\ placed(u) = place(u)
    BY <1>2
  <2>3. i \in 1 .. n
    BY <1>4, <1>7
  <2>4. QED
    BY <1>6, <2>1, <2>2, <2>3
<1>9. Bars(tape)[k].time = t
  <2>1. place(t) = k - 1
    BY <1>3, <1>4
  <2>2. QED
    BY <1>6, <1>7, <2>1, BarOfMinute
<1>10. ASSUME NEW i \in k + 1 .. n PROVE Bars(tape)[i].time > t
  <2>1. i \in 1 .. n
    BY <1>7
  <2>2. PICK u \in tape : place(u) = i - 1
    BY <1>4, <2>1
  <2>3. place(t) < place(u)
    BY <1>3, <1>4, <1>7, <2>2
  <2>4. t < u /\ Bars(tape)[i] = BarAt(u)
    BY <1>4, <1>6, <2>1, <2>2, <2>3
  <2>5. QED
    BY <1>1, <2>4, BarOfMinute
<1>11. QED
  BY <1>1, <1>6, <1>7, <1>8, <1>9, <1>10 DEF k, n, early

-----------------------------------------------------------------------------
(* Resampling and aligning, bar by bar.                                    *)

\* f[k] is what the first k bars make.
Resamples(f, bars) ==
    /\ f[0] = <<>> /\ \A k \in 1 .. Len(bars) : f[k] = WithBar(f[k - 1], bars[k])
    /\ Resample(bars) = f[Len(bars)]

LEMMA ResampleBy ==
    ASSUME NEW R, <<>> \in R, NEW bars, Len(bars) \in Nat,
           \A x \in R : \A k \in 1 .. Len(bars) : WithBar(x, bars[k]) \in R
    PROVE  \E f \in [0 .. Len(bars) -> R] : Resamples(f, bars)
<1> DEFINE n == Len(bars)
           step == [k \in 1 .. n |-> [x \in R |-> WithBar(x, bars[k])]]
           body(f) == [k \in 0 .. n |-> IF k = 0 THEN <<>> ELSE WithBar(f[k - 1], bars[k])]
           after == CHOOSE f : f = body(f)
<1>1. step \in [1 .. n -> [R -> R]]
  OBVIOUS
<1>2. \A k \in 1 .. n, x \in R : step[k][x] = WithBar(x, bars[k])
  OBVIOUS
<1>3. Resample(bars) = after[n]
  BY DEF Resample
<1> HIDE DEF step
<1>4. PICK f \in [0 .. n -> R] : Computes(f, n, <<>>, step)
  BY <1>1, Computed
<1>5. f[0] = <<>> /\ \A k \in 1 .. n : f[k] = WithBar(f[k - 1], bars[k])
  <2>1. ASSUME NEW k \in 1 .. n PROVE f[k] = WithBar(f[k - 1], bars[k])
    <3>1. f[k - 1] \in R
      BY <1>4
    <3>2. QED
      BY <1>2, <1>4, <3>1 DEF Computes
  <2>2. QED
    BY <1>4, <2>1 DEF Computes
<1>6. f = body(f)
  BY <1>4, <1>5
<1>7. after = body(after)
  <2> HIDE DEF body
  <2>1. QED
    BY <1>6
<1>8. after[0] = <<>> /\ \A k \in 1 .. n : after[k] = WithBar(after[k - 1], bars[k])
  <2> HIDE DEF after
  <2>1. QED
    BY <1>7
<1> HIDE DEF after
<1>9. Agree(f, after, n)
  <2>1. Alike(f, after, n)
    BY <1>5, <1>8 DEF Alike
  <2>2. QED
    BY <2>1, AlikeAgree
<1>10. QED
  BY <1>3, <1>5, <1>9 DEF Agree, Resamples

Aligns(f, signal, benchmark, interval, now) ==
    /\ f[0] = <<>> /\ \A k \in 1 .. Len(signal) :
           f[k] = WithPair(f[k - 1], signal[k], benchmark, interval, now)
    /\ AlignCompleted(signal, benchmark, interval, now) = f[Len(signal)]

LEMMA AlignBy ==
    ASSUME NEW benchmark, NEW interval, NEW now, NEW R, <<>> \in R, NEW signal, Len(signal) \in Nat,
           \A x \in R : \A k \in 1 .. Len(signal) :
               WithPair(x, signal[k], benchmark, interval, now) \in R
    PROVE  \E f \in [0 .. Len(signal) -> R] : Aligns(f, signal, benchmark, interval, now)
<1> DEFINE n == Len(signal)
           paired(x, k) == WithPair(x, signal[k], benchmark, interval, now)
           step == [k \in 1 .. n |-> [x \in R |-> paired(x, k)]]
           body(f) == [k \in 0 .. n |-> IF k = 0 THEN <<>> ELSE paired(f[k - 1], k)]
           after == CHOOSE f : f = body(f)
<1>1. step \in [1 .. n -> [R -> R]]
  OBVIOUS
<1>2. \A k \in 1 .. n, x \in R : step[k][x] = paired(x, k)
  OBVIOUS
<1>3. AlignCompleted(signal, benchmark, interval, now) = after[n]
  BY DEF AlignCompleted
<1> HIDE DEF step
<1>4. PICK f \in [0 .. n -> R] : Computes(f, n, <<>>, step)
  BY <1>1, Computed
<1>5. f[0] = <<>> /\ \A k \in 1 .. n : f[k] = paired(f[k - 1], k)
  <2>1. ASSUME NEW k \in 1 .. n PROVE f[k] = paired(f[k - 1], k)
    <3>1. f[k - 1] \in R
      BY <1>4
    <3>2. QED
      BY <1>2, <1>4, <3>1 DEF Computes
  <2>2. QED
    BY <1>4, <2>1 DEF Computes
<1>6. f = body(f)
  BY <1>4, <1>5
<1>7. after = body(after)
  <2> HIDE DEF body
  <2>1. QED
    BY <1>6
<1>8. after[0] = <<>> /\ \A k \in 1 .. n : after[k] = paired(after[k - 1], k)
  <2> HIDE DEF after
  <2>1. QED
    BY <1>7
<1> HIDE DEF after
<1>9. Agree(f, after, n)
  <2>1. Alike(f, after, n)
    BY <1>5, <1>8 DEF Alike
  <2>2. QED
    BY <2>1, AlikeAgree
<1>10. QED
  BY <1>3, <1>5, <1>9 DEF Agree, Aligns

\* A bucket starts at a minute and takes in the interval from there on.
LEMMA BucketHolds ==
    ASSUME NEW t \in Nat
    PROVE  /\ BucketStart(t) \in Nat /\ BucketStart(t) <= t /\ t < BucketStart(t) + TrendInterval
           /\ \E q \in Nat : BucketStart(t) = q * TrendInterval
<1> DEFINE w == TrendInterval
           q == t \div w
           r == t % w
<1>1. w \in Nat /\ w > 0
  BY TapeAssumption
<1>2. r \in 0 .. w - 1 /\ q \in Int /\ t = w * q + r
  BY <1>1
<1>3. BucketStart(t) = t - r
  BY DEF BucketStart
<1> HIDE DEF q, r
<1>4. q >= 0
  <2>1. ASSUME q <= -1 PROVE FALSE
    <3>1. w * q <= -w
      BY <1>1, <1>2, <2>1
    <3>2. QED
      BY <1>1, <1>2, <3>1
  <2>2. QED
    BY <1>2, <2>1
<1>5. w * q \in Nat
  BY <1>1, <1>2, <1>4
<1>6. QED
  BY <1>1, <1>2, <1>3, <1>4, <1>5

LEMMA Multiples ==
    ASSUME NEW w \in Nat, NEW p \in Nat, NEW q \in Nat, p < q
    PROVE  p * w \in Nat /\ q * w \in Nat /\ p * w + w <= q * w
<1>1. PICK d \in Nat : q = p + 1 + d
  <2>1. q - p - 1 \in Nat /\ q = p + 1 + (q - p - 1)
    OBVIOUS
  <2>2. QED
    BY <2>1
<1>2. q * w = p * w + w + d * w /\ d * w \in Nat /\ p * w \in Nat
  BY <1>1
<1>3. QED
  BY <1>2

\* A later minute is in a later bucket or in the same.
LEMMA BucketsInOrder ==
    ASSUME NEW a \in Nat, NEW b \in Nat, a <= b
    PROVE  BucketStart(a) <= BucketStart(b)
<1>1. /\ BucketStart(a) \in Nat /\ BucketStart(b) \in Nat
      /\ BucketStart(a) <= a /\ b < BucketStart(b) + TrendInterval
  BY BucketHolds
<1>2. SUFFICES ASSUME BucketStart(b) < BucketStart(a) PROVE FALSE
  BY <1>1
<1>3. PICK p \in Nat, q \in Nat :
          BucketStart(b) = p * TrendInterval /\ BucketStart(a) = q * TrendInterval
  BY BucketHolds
<1>4. TrendInterval \in Nat
  BY TapeAssumption
<1>5. p < q
  <2>1. p = q => BucketStart(b) = BucketStart(a)
    BY <1>3
  <2>2. q < p => BucketStart(a) <= BucketStart(b)
    BY <1>1, <1>3, <1>4, Multiples
  <2>3. QED
    BY <1>1, <1>2, <2>1, <2>2
<1>6. BucketStart(b) + TrendInterval <= BucketStart(a)
  BY <1>3, <1>4, <1>5, Multiples
<1>7. QED
  BY <1>1, <1>4, <1>6

\* The last bar is that of the bar's bucket; those before are as they were.
PutInto(done, source, new) ==
    /\ new \in Seq(TrendBar) /\ Len(new) \in Nat \ {0}
    /\ new[Len(new)].time = BucketStart(source.time)
    /\ \/ Len(done) = Len(new) /\ done[Len(done)].time = BucketStart(source.time)
       \/ Len(done) = Len(new) - 1
              /\ (Len(done) # 0 => done[Len(done)].time # BucketStart(source.time))
    /\ \A i \in 1 .. Len(new) - 1 : new[i] = done[i]

LEMMA IntoBucketKeeps ==
    ASSUME NEW a \in TrendBar, NEW b \in TrendBar
    PROVE  IntoBucket(a, b) \in TrendBar /\ IntoBucket(a, b).time = a.time
<1>1. /\ Higher(a.high, b.high) \in Int /\ Lower(a.low, b.low) \in Int
      /\ b.close \in Int /\ a.volume + b.volume \in Nat
  BY DEF TrendBar, Higher, Lower
<1> DEFINE h == Higher(a.high, b.high)
           l == Lower(a.low, b.low)
           v == a.volume + b.volume
<1>2. IntoBucket(a, b) = [a EXCEPT !.high = h, !.low = l, !.close = b.close, !.volume = v]
  BY DEF IntoBucket
<1> HIDE DEF h, l, v
<1>3. h \in Int /\ l \in Int /\ v \in Nat
  BY <1>1 DEF h, l, v
<1>4. QED
  BY <1>1, <1>2, <1>3 DEF TrendBar

LEMMA BarsTyped ==
    ASSUME NEW trend \in Seq(TrendBar)
    PROVE  /\ Len(trend) \in Nat /\ DOMAIN trend = 1 .. Len(trend)
           /\ \A i \in 1 .. Len(trend) : trend[i] \in TrendBar /\ trend[i].time \in Nat
<1>1. ASSUME NEW i \in 1 .. Len(trend) PROVE trend[i] \in TrendBar /\ trend[i].time \in Nat
  <2>1. trend[i] \in TrendBar
    OBVIOUS
  <2>2. QED
    BY <2>1 DEF TrendBar
<1>2. QED
  BY <1>1

LEMMA WithBarPuts ==
    ASSUME NEW done \in Seq(TrendBar), NEW source \in TrendBar
    PROVE  PutInto(done, source, WithBar(done, source))
<1> DEFINE n == Len(done)
           start == BucketStart(source.time)
           new == WithBar(done, source)
<1>1. start \in Nat /\ n \in Nat
  <2>1. source.time \in Nat
    BY DEF TrendBar
  <2>2. \A t \in Nat : BucketStart(t) \in Nat
    BY BucketHolds
  <2>3. start \in Nat
    BY <2>1, <2>2
  <2>4. QED
    BY <2>3, BarsTyped
<1>2. CASE n # 0 /\ done[n].time = start
  <2>1. new = [done EXCEPT ![n] = IntoBucket(done[n], source)]
    BY <1>2 DEF WithBar
  <2>2. n \in 1 .. n /\ done[n] \in TrendBar
    BY <1>1, <1>2
  <2>3. IntoBucket(done[n], source) \in TrendBar /\ IntoBucket(done[n], source).time = start
    BY <1>2, <2>2, IntoBucketKeeps
  <2> HIDE DEF new, start
  <2>4. /\ new \in Seq(TrendBar) /\ Len(new) = n /\ new[n].time = start
        /\ \A i \in 1 .. n - 1 : new[i] = done[i]
    BY <1>1, <2>1, <2>2, <2>3
  <2>5. QED
    BY <1>1, <1>2, <2>4 DEF PutInto, new, start
<1>3. CASE ~(n # 0 /\ done[n].time = start)
  <2> DEFINE first == [source EXCEPT !.time = start]
  <2>1. new = Append(done, first)
    BY <1>3 DEF WithBar
  <2>2. first \in TrendBar /\ first.time = start
    BY <1>1 DEF TrendBar
  <2> HIDE DEF new, start, first
  <2>3. /\ new \in Seq(TrendBar) /\ Len(new) = n + 1 /\ new[n + 1] = first
        /\ \A i \in 1 .. n : new[i] = done[i]
    BY <1>1, <2>1, <2>2
  <2>4. QED
    BY <1>1, <1>3, <2>2, <2>3 DEF PutInto, new, start
<1>4. QED
  BY <1>2, <1>3

-----------------------------------------------------------------------------
(* The trend bars up to a minute.                                          *)

\* The first p bars are those that start by x.
Cut(trend, p, x) ==
    /\ p \in 0 .. Len(trend)
    /\ \A i \in 1 .. p : trend[i].time <= x
    /\ \A i \in p + 1 .. Len(trend) : trend[i].time > x

LEMMA CutOf ==
    ASSUME NEW trend \in Seq(TrendBar), InTime(trend), NEW x \in Int
    PROVE  \E p \in 0 .. Len(trend) : Cut(trend, p, x)
<1> DEFINE n == Len(trend)
           S == {p \in 0 .. n : \A i \in p + 1 .. n : trend[i].time > x}
<1>1. n \in Nat /\ \A i \in 1 .. n : trend[i].time \in Nat
  BY BarsTyped
<1>2. n \in S
  BY <1>1
<1>3. PICK p \in S : \A q \in S : p <= q
  <2>1. S \in SUBSET Nat
    BY <1>1
  <2> HIDE DEF S
  <2>2. QED
    BY <1>2, <2>1, LeastOf, Zenon
<1>4. p \in 0 .. n /\ \A i \in p + 1 .. n : trend[i].time > x
  OBVIOUS
<1>5. ASSUME p > 0 PROVE trend[p].time <= x
  <2>1. p - 1 \in 0 .. n /\ p - 1 \notin S
    BY <1>3, <1>4, <1>5
  <2>2. PICK i \in (p - 1) + 1 .. n : ~(trend[i].time > x)
    BY <2>1
  <2>3. i = p /\ p \in 1 .. n
    BY <1>4, <1>5, <2>2
  <2>4. QED
    BY <1>1, <2>2, <2>3
<1> HIDE DEF S
<1>6. ASSUME NEW i \in 1 .. p PROVE trend[i].time <= x
  <2>1. i = p \/ (i < p /\ p \in 1 .. n /\ i \in 1 .. n)
    BY <1>4
  <2>2. CASE i = p
    BY <1>4, <1>5, <2>2
  <2>3. CASE i < p /\ p \in 1 .. n /\ i \in 1 .. n
    <3>1. trend[i].time < trend[p].time
      BY <2>3 DEF InTime
    <3>2. trend[i].time \in Nat /\ trend[p].time \in Nat /\ trend[p].time <= x
      BY <1>1, <1>5, <2>3
    <3>3. QED
      BY <3>1, <3>2
  <2>4. QED
    BY <2>1, <2>2, <2>3
<1>7. QED
  BY <1>4, <1>6 DEF Cut

\* The bars that the loop appends: it stops at the cut.
LEMMA AppendedIsCut ==
    ASSUME NEW trend \in Seq(TrendBar), NEW age \in Int, NEW t \in Int,
           NEW p, Cut(trend, p, t - age)
    PROVE  Appended(trend, age, t) = SubSeq(trend, 1, p)
<1> DEFINE n == Len(trend)
           old(i) == trend[i].time + age <= t
           stops(k) == (\A m \in 1 .. k : old(m)) /\ (k < n => ~old(k + 1))
           offset == CHOOSE k \in 0 .. n : stops(k)
<1>1. n \in Nat /\ p \in 0 .. n /\ \A i \in 1 .. n : trend[i].time \in Nat
  BY BarsTyped DEF Cut
<1>2. ASSUME NEW i \in 1 .. n PROVE old(i) <=> i <= p
  <2>1. i \in 1 .. p \/ i \in p + 1 .. n
    BY <1>1
  <2>2. trend[i].time \in Nat
    BY <1>1
  <2>3. CASE i \in 1 .. p
    BY <2>2, <2>3 DEF Cut
  <2>4. CASE i \in p + 1 .. n
    BY <1>1, <2>2, <2>4 DEF Cut
  <2>5. QED
    BY <2>1, <2>3, <2>4
<1>3. Appended(trend, age, t) = SubSeq(trend, 1, offset)
  BY DEF Appended
<1> HIDE DEF n, old
<1>4. stops(p)
  <2>1. \A m \in 1 .. p : m \in 1 .. n /\ m <= p
    BY <1>1
  <2>2. p < n => p + 1 \in 1 .. n /\ ~(p + 1 <= p)
    BY <1>1
  <2>3. QED
    BY <1>2, <2>1, <2>2
<1>5. ASSUME NEW k \in 0 .. n, stops(k) PROVE k = p
  <2>1. CASE k < p
    <3>1. k + 1 \in 1 .. n /\ k + 1 <= p /\ k < n
      BY <1>1, <2>1
    <3>2. QED
      BY <1>2, <1>5, <3>1
  <2>2. CASE p < k
    <3>1. p + 1 \in 1 .. k /\ p + 1 \in 1 .. n /\ ~(p + 1 <= p)
      BY <1>1, <2>2
    <3>2. QED
      BY <1>2, <1>5, <3>1
  <2>3. QED
    BY <1>1, <2>1, <2>2
<1> HIDE DEF stops
<1>6. offset = p
  BY <1>1, <1>4, <1>5
<1>7. QED
  BY <1>3, <1>6

LEMMA PutInTime ==
    ASSUME NEW done \in Seq(TrendBar), InTime(done), NEW source \in TrendBar,
           Len(done) # 0 => done[Len(done)].time <= BucketStart(source.time)
    PROVE  InTime(WithBar(done, source))
<1> DEFINE new == WithBar(done, source)
           n == Len(done)
           m == Len(new)
           start == BucketStart(source.time)
<1>1. /\ new \in Seq(TrendBar) /\ m \in Nat \ {0} /\ new[m].time = start
      /\ (n = m /\ done[n].time = start) \/ (n = m - 1 /\ (n # 0 => done[n].time # start))
      /\ \A i \in 1 .. m - 1 : new[i] = done[i]
  BY WithBarPuts DEF PutInto
<1>2. n \in Nat /\ DOMAIN done = 1 .. n /\ \A i \in 1 .. n : done[i].time \in Nat
  BY BarsTyped
<1>3. DOMAIN new = 1 .. m /\ \A i \in 1 .. m : new[i].time \in Nat
  BY <1>1, BarsTyped
<1>4. start \in Nat
  <2>1. source.time \in Nat
    BY DEF TrendBar
  <2>2. \A t \in Nat : BucketStart(t) \in Nat
    BY BucketHolds
  <2>3. QED
    BY <2>1, <2>2
<1>5. n # 0 => done[n].time <= start
  OBVIOUS
<1> HIDE DEF new, n, m, start
<1>6. \A i, j \in 1 .. n : i < j => done[i].time < done[j].time
  BY <1>2 DEF InTime
<1>7. ASSUME NEW i \in 1 .. m - 1 PROVE i \in 1 .. n /\ new[i] = done[i] /\ done[i].time < start
  <2>1. i \in 1 .. n /\ new[i] = done[i]
    BY <1>1, <1>2
  <2>2. CASE n = m /\ done[n].time = start
    <3>1. n \in 1 .. n /\ i < n
      BY <1>2, <2>1, <2>2
    <3>2. QED
      BY <1>6, <2>1, <2>2, <3>1
  <2>3. CASE n = m - 1 /\ (n # 0 => done[n].time # start)
    <3>1. n \in 1 .. n /\ n # 0 /\ (i < n \/ i = n)
      BY <1>2, <2>1
    <3>2. done[n].time < start
      BY <1>2, <1>4, <1>5, <2>3, <3>1
    <3>3. done[i].time = done[n].time \/ done[i].time < done[n].time
      BY <1>6, <2>1, <3>1
    <3>4. done[i].time \in Nat /\ done[n].time \in Nat
      BY <1>2, <2>1, <3>1
    <3>5. QED
      BY <1>4, <2>1, <3>2, <3>3, <3>4
  <2>4. QED
    BY <1>1, <2>2, <2>3
<1>8. ASSUME NEW i \in 1 .. m, NEW j \in 1 .. m, i < j PROVE new[i].time < new[j].time
  <2>1. i \in 1 .. m - 1 /\ (j = m \/ j \in 1 .. m - 1)
    BY <1>1, <1>8
  <2>2. CASE j = m
    BY <1>1, <1>7, <2>1, <2>2
  <2>3. CASE j \in 1 .. m - 1
    <3>1. i \in 1 .. n /\ j \in 1 .. n /\ new[i] = done[i] /\ new[j] = done[j]
      BY <1>7, <2>1, <2>3
    <3>2. QED
      BY <1>6, <1>8, <3>1
  <2>4. QED
    BY <2>1, <2>2, <2>3
<1>9. QED
  BY <1>3, <1>8 DEF InTime, new

\* What the bars up to the k-th make, of bars in the order of time.
Latest(trend, bars, k) ==
    /\ InTime(trend)
    /\ Len(trend) # 0 => k # 0 /\ trend[Len(trend)].time = BucketStart(bars[k].time)

LEMMA TrendInTime ==
    ASSUME NEW bars \in Seq(TrendBar), InTime(bars),
           NEW f \in [0 .. Len(bars) -> Seq(TrendBar)], Resamples(f, bars)
    PROVE  \A k \in 0 .. Len(bars) : Latest(f[k], bars, k)
<1> DEFINE n == Len(bars)
           S == {k \in 0 .. n : Latest(f[k], bars, k)}
<1>1. n \in Nat /\ DOMAIN bars = 1 .. n /\ \A k \in 1 .. n : bars[k] \in TrendBar /\ bars[k].time \in Nat
  BY BarsTyped
<1>2. f[0] = <<>> /\ \A k \in 1 .. n : f[k] = WithBar(f[k - 1], bars[k])
  BY DEF Resamples
<1>3. 0 \in S
  <2>1. Len(f[0]) = 0 /\ InTime(f[0])
    BY <1>2 DEF InTime
  <2>2. QED
    BY <1>1, <2>1 DEF Latest
<1>4. ASSUME NEW k \in 1 .. n, k - 1 \in S PROVE k \in S
  <2>1. /\ f[k - 1] \in Seq(TrendBar) /\ bars[k] \in TrendBar /\ bars[k].time \in Nat
        /\ f[k] = WithBar(f[k - 1], bars[k]) /\ Latest(f[k - 1], bars, k - 1)
    BY <1>1, <1>2, <1>4
  <2> DEFINE done == f[k - 1]
             last == done[Len(done)].time
  <2>2. ASSUME Len(done) # 0 PROVE last <= BucketStart(bars[k].time)
    <3>1. k - 1 \in 1 .. n /\ last = BucketStart(bars[k - 1].time) /\ k - 1 < k
      BY <1>1, <2>1, <2>2 DEF Latest
    <3>2. bars[k - 1].time < bars[k].time
      BY <1>1, <3>1 DEF InTime
    <3>3. bars[k - 1].time \in Nat /\ bars[k - 1].time <= bars[k].time
      BY <1>1, <2>1, <3>1, <3>2
    <3>4. BucketStart(bars[k - 1].time) <= BucketStart(bars[k].time)
      BY <2>1, <3>3, BucketsInOrder
    <3>5. QED
      BY <3>1, <3>4
  <2>3. InTime(done)
    BY <2>1 DEF Latest
  <2> HIDE DEF done
  <2>4. InTime(WithBar(done, bars[k]))
    BY <2>1, <2>2, <2>3, PutInTime DEF done
  <2>5. PutInto(done, bars[k], WithBar(done, bars[k]))
    BY <2>1, WithBarPuts DEF done
  <2>6. f[k][Len(f[k])].time = BucketStart(bars[k].time) /\ k # 0
    BY <2>1, <2>5 DEF PutInto, done
  <2>7. Latest(f[k], bars, k)
    BY <2>1, <2>4, <2>6 DEF Latest, done
  <2>8. QED
    BY <2>7
<1> HIDE DEF S
<1>5. \A k \in 0 .. n : k \in S
  <2>1. \A k \in 1 .. n : k - 1 \in S => k \in S
    BY <1>4
  <2>2. QED
    BY <1>1, <1>3, <2>1, Inductively, Zenon
<1>6. QED
  BY <1>5 DEF S

\* The same bars up to x, and how many.
SameFront(one, other, p, x) ==
    Cut(one, p, x) /\ Cut(other, p, x) /\ \A i \in 1 .. p : one[i] = other[i]

\* A bar that goes into a later bucket changes none of them.
LEMMA FrontStays ==
    ASSUME NEW one, NEW done \in Seq(TrendBar), NEW source \in TrendBar, NEW x \in Int, NEW p,
           SameFront(one, done, p, x), BucketStart(source.time) > x
    PROVE  SameFront(one, WithBar(done, source), p, x)
<1> DEFINE new == WithBar(done, source)
           n == Len(done)
           m == Len(new)
           start == BucketStart(source.time)
<1>1. /\ new \in Seq(TrendBar) /\ m \in Nat \ {0} /\ new[m].time = start
      /\ (n = m /\ done[n].time = start) \/ n = m - 1
      /\ \A i \in 1 .. m - 1 : new[i] = done[i]
  BY WithBarPuts DEF PutInto
<1>2. /\ n \in Nat /\ p \in 0 .. n
      /\ \A i \in 1 .. p : done[i].time <= x /\ one[i] = done[i]
      /\ \A i \in p + 1 .. n : done[i].time > x
  BY BarsTyped DEF SameFront, Cut
<1>3. start \in Nat /\ start > x
  BY <1>1, BarsTyped
<1> HIDE DEF new, n, m, start
<1>4. p <= m - 1
  <2>1. CASE n = m /\ done[n].time = start
    <3>1. ~(done[n].time <= x)
      BY <1>3, <2>1
    <3>2. p # n
      BY <1>1, <1>2, <2>1, <3>1
    <3>3. QED
      BY <1>1, <1>2, <2>1, <3>2
  <2>2. CASE n = m - 1
    BY <1>1, <1>2, <2>2
  <2>3. QED
    BY <1>1, <2>1, <2>2
<1>5. ASSUME NEW i \in 1 .. p PROVE new[i].time <= x /\ one[i] = new[i]
  <2>1. i \in 1 .. m - 1
    BY <1>1, <1>2, <1>4
  <2>2. QED
    BY <1>1, <1>2, <2>1
<1>6. ASSUME NEW i \in p + 1 .. m PROVE new[i].time > x
  <2>1. i = m \/ (i \in 1 .. m - 1 /\ i \in p + 1 .. n)
    BY <1>1, <1>2
  <2>2. QED
    BY <1>1, <1>2, <1>3, <2>1
<1>7. p \in 0 .. m
  BY <1>1, <1>2, <1>4
<1>8. QED
  BY <1>5, <1>6, <1>7 DEF SameFront, Cut, new, m

\* A tape up to a minute and the whole tape make the same trend bars, as far as they
\* have ended by the minute.
LEMMA FrontOfTape ==
    ASSUME NEW tape \in Tape, NEW t \in tape
    PROVE  /\ Resample(Bars(UpTo(tape, t))) \in Seq(TrendBar)
           /\ Resample(Bars(tape)) \in Seq(TrendBar)
           /\ \E p \in Nat : SameFront(Resample(Bars(UpTo(tape, t))), Resample(Bars(tape)), p,
                                       t - (TrendInterval - 1))
<1> DEFINE x == t - (TrendInterval - 1)
           early == UpTo(tape, t)
           bars == Bars(tape)
           first == Bars(early)
           n == Cardinality(tape)
           k == Cardinality(early)
<1>1. /\ early \in Tape /\ k \in 1 .. n /\ Len(first) = k
      /\ \A i \in 1 .. k : first[i] = bars[i]
      /\ \A i \in k + 1 .. n : bars[i].time > t
  BY BarsUpTo
<1>2. bars \in Seq(TrendBar) /\ Len(bars) = n /\ n \in Nat /\ InTime(bars)
  BY BarsOfTape
<1>3. first \in Seq(TrendBar)
  BY <1>1, BarsOfTape
<1>4. t \in Nat /\ x \in Int
  BY MinutesOfTape, TapeAssumption
<1> HIDE DEF early, bars, first, n, k
<1>5. ASSUME NEW some \in Seq(TrendBar)
      PROVE  \E f \in [0 .. Len(some) -> Seq(TrendBar)] : Resamples(f, some)
  <2>1. Len(some) \in Nat /\ \A i \in 1 .. Len(some) : some[i] \in TrendBar
    BY BarsTyped
  <2>2. \A s \in Seq(TrendBar) : \A i \in 1 .. Len(some) : WithBar(s, some[i]) \in Seq(TrendBar)
    BY <2>1, WithBarPuts DEF PutInto
  <2>3. <<>> \in Seq(TrendBar)
    OBVIOUS
  <2>4. QED
    BY <2>1, <2>2, <2>3, ResampleBy
<1>6. PICK f \in [0 .. n -> Seq(TrendBar)] : Resamples(f, bars)
  BY <1>2, <1>5
<1>7. PICK g \in [0 .. k -> Seq(TrendBar)] : Resamples(g, first)
  BY <1>1, <1>3, <1>5
<1>8. /\ f[0] = <<>> /\ \A i \in 1 .. n : f[i] = WithBar(f[i - 1], bars[i])
      /\ Resample(bars) = f[n]
  BY <1>2, <1>6 DEF Resamples
<1>9. /\ g[0] = <<>> /\ \A i \in 1 .. k : g[i] = WithBar(g[i - 1], first[i])
      /\ Resample(first) = g[k]
  BY <1>1, <1>7 DEF Resamples
<1>10. Resample(first) = f[k] /\ f[k] \in Seq(TrendBar) /\ f[n] \in Seq(TrendBar)
  <2>1. Alike(f, g, k)
    <3>1. ASSUME NEW i \in 1 .. k, f[i - 1] = g[i - 1] PROVE f[i] = g[i]
      <4>1. i \in 1 .. n
        BY <1>1, <1>2
      <4>2. f[i] = WithBar(f[i - 1], bars[i]) /\ g[i] = WithBar(g[i - 1], bars[i])
        BY <1>1, <1>8, <1>9, <4>1
      <4>3. QED
        BY <3>1, <4>2
    <3>2. QED
      BY <1>8, <1>9, <3>1 DEF Alike
  <2>2. Agree(f, g, k)
    BY <1>1, <2>1, AlikeAgree
  <2>3. k \in 0 .. k /\ k \in 0 .. n /\ n \in 0 .. n
    BY <1>1, <1>2
  <2>4. QED
    BY <1>6, <1>9, <2>2, <2>3 DEF Agree
<1>11. PICK p \in 0 .. Len(f[k]) : Cut(f[k], p, x)
  <2>1. Latest(f[k], bars, k)
    <3>1. k \in 0 .. n
      BY <1>1
    <3>2. QED
      BY <1>2, <1>6, <3>1, TrendInTime
  <2>2. InTime(f[k])
    BY <2>1 DEF Latest
  <2>3. QED
    BY <1>4, <1>10, <2>2, CutOf
<1> DEFINE S == {i \in 0 .. n : i >= k => SameFront(f[k], f[i], p, x)}
<1>12. 0 \in S
  BY <1>1, <1>2
<1>13. ASSUME NEW i \in 1 .. n, i - 1 \in S PROVE i \in S
  <2>1. CASE i < k
    BY <1>1, <2>1
  <2>2. CASE i = k
    BY <1>11, <2>2 DEF SameFront
  <2>3. CASE i > k
    <3>1. i - 1 >= k /\ i - 1 \in 0 .. n /\ i \in k + 1 .. n
      <4>1. k \in Nat /\ n \in Nat
        BY <1>1, <1>2
      <4>2. QED
        BY <2>3, <4>1
    <3>2. SameFront(f[k], f[i - 1], p, x) /\ f[i - 1] \in Seq(TrendBar)
      BY <1>6, <1>13, <3>1
    <3>3. bars[i] \in TrendBar /\ bars[i].time \in Nat /\ bars[i].time > t
      BY <1>1, <1>2, <3>1, BarsTyped
    <3>4. BucketStart(bars[i].time) > x
      <4>1. \A u \in Nat : BucketStart(u) \in Nat /\ u < BucketStart(u) + TrendInterval
        BY BucketHolds
      <4>2. TrendInterval \in Nat
        BY TapeAssumption
      <4> DEFINE u == bars[i].time
      <4>3. u \in Nat /\ u > t /\ BucketStart(u) \in Nat /\ u < BucketStart(u) + TrendInterval
        BY <3>3, <4>1
      <4> HIDE DEF u
      <4>4. BucketStart(u) > x
        BY <1>4, <4>2, <4>3
      <4>5. QED
        BY <4>4 DEF u
    <3> HIDE DEF x
    <3>5. SameFront(f[k], WithBar(f[i - 1], bars[i]), p, x)
      BY <1>4, <3>2, <3>3, <3>4, FrontStays
    <3>6. QED
      BY <1>8, <3>5
  <2>4. QED
    BY <1>1, <2>1, <2>2, <2>3
<1> HIDE DEF S
<1>14. n \in S
  <2>1. \A i \in 1 .. n : i - 1 \in S => i \in S
    BY <1>13
  <2>2. \A i \in 0 .. n : i \in S
    BY <1>2, <1>12, <2>1, Inductively, Zenon
  <2>3. QED
    BY <1>2, <2>2
<1>15. SameFront(f[k], f[n], p, x)
  BY <1>1, <1>14 DEF S
<1>16. p \in Nat
  BY <1>10, <1>11, BarsTyped
<1>17. QED
  BY <1>8, <1>10, <1>15, <1>16 DEF early, bars, first

-----------------------------------------------------------------------------
(* The pairs of bars.                                                      *)

BarPair == [signal : TrendBar, benchmark : TrendBar]

LEMMA WithPairTyped ==
    ASSUME NEW pairs \in Seq(BarPair), NEW b \in TrendBar, NEW benchmark \in Seq(TrendBar),
           NEW interval, NEW now
    PROVE  WithPair(pairs, b, benchmark, interval, now) \in Seq(BarPair)
<1> DEFINE same == {n \in DOMAIN benchmark : benchmark[n].time = b.time}
           n == CHOOSE n \in same : TRUE
           pair == [signal |-> b, benchmark |-> benchmark[n]]
<1>1. CASE same # {} /\ b.time + interval <= now
  <2>1. n \in same
    BY <1>1
  <2>2. n \in DOMAIN benchmark
    BY <2>1
  <2> HIDE DEF n
  <2>3. benchmark[n] \in TrendBar
    BY <2>2
  <2>4. pair \in BarPair
    BY <2>3 DEF BarPair
  <2>5. WithPair(pairs, b, benchmark, interval, now) = Append(pairs, pair)
    BY <1>1 DEF WithPair, n
  <2> HIDE DEF pair
  <2>6. QED
    BY <2>4, <2>5
<1>2. CASE ~(same # {} /\ b.time + interval <= now)
  BY <1>2 DEF WithPair
<1>3. QED
  BY <1>1, <1>2

LEMMA AlignComputed ==
    ASSUME NEW signal \in Seq(TrendBar), NEW benchmark \in Seq(TrendBar), NEW interval, NEW now
    PROVE  \E f \in [0 .. Len(signal) -> Seq(BarPair)] : Aligns(f, signal, benchmark, interval, now)
<1>1. Len(signal) \in Nat /\ \A i \in 1 .. Len(signal) : signal[i] \in TrendBar
  BY BarsTyped
<1>2. \A s \in Seq(BarPair) : \A i \in 1 .. Len(signal) :
          WithPair(s, signal[i], benchmark, interval, now) \in Seq(BarPair)
  BY <1>1, WithPairTyped
<1>3. <<>> \in Seq(BarPair)
  OBVIOUS
<1>4. QED
  BY <1>1, <1>2, <1>3, AlignBy

\* One sequence is the first p bars of the other.
Front(one, other, p) == Len(one) = p /\ \A i \in 1 .. p : one[i] = other[i]

\* A bar of up to x is paired with the same bar in a benchmark cut at x.
LEMMA PairOfFront ==
    ASSUME NEW one \in Seq(TrendBar), NEW other \in Seq(TrendBar), NEW p \in Nat, NEW x \in Int,
           Cut(other, p, x), Front(one, other, p), NEW b \in TrendBar, b.time <= x,
           NEW interval \in Int, NEW now \in Int, NEW later \in Int, now = x + interval,
           now <= later, NEW pairs
    PROVE  WithPair(pairs, b, one, interval, later) = WithPair(pairs, b, other, interval, now)
<1> DEFINE same(trend) == {n \in DOMAIN trend : trend[n].time = b.time}
<1>1. b.time \in Int
  BY DEF TrendBar
<1>2. DOMAIN one = 1 .. p /\ DOMAIN other = 1 .. Len(other) /\ Len(other) \in Nat
  BY BarsTyped DEF Front
<1>3. /\ p \in 0 .. Len(other)
      /\ \A i \in p + 1 .. Len(other) : other[i].time > x /\ other[i].time \in Nat
  BY BarsTyped DEF Cut
<1>4. ASSUME NEW n \in 1 .. Len(other), other[n].time = b.time PROVE n \in 1 .. p
  <2>1. n \in 1 .. p \/ n \in p + 1 .. Len(other)
    BY <1>2, <1>3
  <2>2. ~(other[n].time > x)
    BY <1>1, <1>4
  <2>3. QED
    BY <1>3, <2>1, <2>2
<1>5. same(one) = same(other)
  <2>1. 1 .. p \subseteq 1 .. Len(other)
    BY <1>2, <1>3
  <2>2. \A n \in 1 .. p : one[n] = other[n]
    BY DEF Front
  <2>3. QED
    BY <1>2, <1>4, <2>1, <2>2
<1> DEFINE n == CHOOSE n \in same(other) : TRUE
<1>6. same(other) # {} => one[n] = other[n]
  <2>1. ASSUME same(other) # {} PROVE n \in same(one)
    BY <1>5, <2>1
  <2>2. ASSUME same(other) # {} PROVE n \in 1 .. p
    BY <1>2, <2>1, <2>2
  <2> HIDE DEF n
  <2>3. QED
    BY <2>2 DEF Front
<1>7. b.time + interval <= later /\ b.time + interval <= now
  BY <1>1
<1>8. WithPair(pairs, b, one, interval, later)
          = IF same(one) # {} /\ b.time + interval <= later
            THEN Append(pairs, [signal |-> b, benchmark |-> one[CHOOSE m \in same(one) : TRUE]])
            ELSE pairs
  BY DEF WithPair
<1>9. WithPair(pairs, b, other, interval, now)
          = IF same(other) # {} /\ b.time + interval <= now
            THEN Append(pairs, [signal |-> b, benchmark |-> other[CHOOSE m \in same(other) : TRUE]])
            ELSE pairs
  BY DEF WithPair
<1> HIDE DEF same
<1>10. QED
  BY <1>5, <1>6, <1>7, <1>8, <1>9

AlignAlike(s, b, signal, benchmark, interval, now, later) ==
    AlignCompleted(s, b, interval, later) = AlignCompleted(signal, benchmark, interval, now)

\* Fronts of the same bars make the same pairs as the bars and what follows them, if
\* what follows has not ended.
LEMMA AlignFront ==
    ASSUME NEW signal \in Seq(TrendBar), NEW benchmark \in Seq(TrendBar),
           NEW signals \in Seq(TrendBar), NEW benchmarks \in Seq(TrendBar),
           NEW x \in Int, NEW p \in Nat, NEW q \in Nat,
           SameFront(signal, signals, p, x), SameFront(benchmark, benchmarks, q, x),
           NEW interval \in Int, NEW now \in Int, NEW later \in Int, now = x + interval,
           now <= later
    PROVE  AlignAlike(SubSeq(signals, 1, p), SubSeq(benchmarks, 1, q), signal, benchmark,
                      interval, now, later)
<1> DEFINE s == SubSeq(signals, 1, p)
           b == SubSeq(benchmarks, 1, q)
           n == Len(signal)
<1>1. /\ p \in 0 .. Len(signals) /\ q \in 0 .. Len(benchmarks) /\ p \in 0 .. n
      /\ Cut(benchmark, q, x)
      /\ \A i \in 1 .. p : signal[i] = signals[i] /\ signal[i].time <= x
      /\ \A i \in 1 .. q : benchmark[i] = benchmarks[i]
      /\ \A i \in p + 1 .. n : signal[i].time > x
  BY DEF SameFront, Cut
<1>2. n \in Nat /\ \A i \in 1 .. n : signal[i] \in TrendBar /\ signal[i].time \in Nat
  BY BarsTyped
<1>3. /\ s \in Seq(TrendBar) /\ Len(s) = p /\ \A i \in 1 .. p : s[i] = signals[i]
      /\ b \in Seq(TrendBar) /\ Len(b) = q /\ \A i \in 1 .. q : b[i] = benchmarks[i]
  BY <1>1
<1>4. Front(b, benchmark, q)
  <2>1. \A i \in 1 .. q : b[i] = benchmark[i]
    BY <1>1, <1>3
  <2> HIDE DEF b
  <2>2. QED
    BY <1>3, <2>1 DEF Front
<1> HIDE DEF s, b, n
<1>5. PICK f \in [0 .. p -> Seq(BarPair)] : Aligns(f, s, b, interval, later)
  BY <1>3, AlignComputed
<1>6. PICK g \in [0 .. n -> Seq(BarPair)] : Aligns(g, signal, benchmark, interval, now)
  BY AlignComputed DEF n
<1>7. /\ f[0] = <<>> /\ \A i \in 1 .. p : f[i] = WithPair(f[i - 1], s[i], b, interval, later)
      /\ AlignCompleted(s, b, interval, later) = f[p]
  BY <1>3, <1>5 DEF Aligns
<1>8. /\ g[0] = <<>>
      /\ \A i \in 1 .. n : g[i] = WithPair(g[i - 1], signal[i], benchmark, interval, now)
      /\ AlignCompleted(signal, benchmark, interval, now) = g[n]
  BY <1>6 DEF Aligns, n
<1>9. ASSUME NEW i \in 1 .. p, f[i - 1] = g[i - 1] PROVE f[i] = g[i]
  <2>1. i \in 1 .. n
    BY <1>1, <1>2
  <2>2. s[i] = signal[i] /\ signal[i] \in TrendBar /\ signal[i].time <= x
    BY <1>1, <1>2, <1>3, <2>1
  <2> DEFINE source == signal[i]
             pairs == f[i - 1]
  <2>3. source \in TrendBar /\ source.time <= x
    BY <2>2
  <2> HIDE DEF source, pairs
  <2>4. WithPair(pairs, source, b, interval, later) = WithPair(pairs, source, benchmark, interval, now)
    BY <1>1, <1>3, <1>4, <2>3, PairOfFront
  <2>5. QED
    BY <1>7, <1>8, <1>9, <2>1, <2>2, <2>4 DEF source, pairs
<1>10. f[p] = g[p]
  <2>1. Alike(f, g, p)
    BY <1>7, <1>8, <1>9 DEF Alike
  <2>2. Agree(f, g, p)
    BY <2>1, AlikeAgree
  <2>3. QED
    BY <2>2 DEF Agree
<1>11. ASSUME NEW i \in p + 1 .. n PROVE g[i] = g[i - 1]
  <2>1. i \in 1 .. n
    BY <1>2
  <2> DEFINE u == signal[i].time
  <2>2. ~(u + interval <= now)
    <3>1. u > x /\ u \in Nat
      BY <1>1, <1>2, <2>1
    <3> HIDE DEF u
    <3>2. QED
      BY <3>1
  <2>3. WithPair(g[i - 1], signal[i], benchmark, interval, now) = g[i - 1]
    BY <2>2 DEF WithPair
  <2>4. QED
    BY <1>8, <2>1, <2>3
<1> DEFINE S == {i \in 0 .. n : i >= p => g[i] = g[p]}
<1>12. 0 \in S
  BY <1>2
<1>13. ASSUME NEW i \in 1 .. n, i - 1 \in S PROVE i \in S
  <2>1. CASE i <= p
    BY <1>2, <2>1
  <2>2. CASE i > p
    <3>1. i \in p + 1 .. n /\ i - 1 >= p
      BY <1>2, <2>2
    <3>2. QED
      BY <1>11, <1>13, <3>1
  <2>3. QED
    BY <2>1, <2>2
<1> HIDE DEF S
<1>14. n \in S
  <2>1. \A i \in 1 .. n : i - 1 \in S => i \in S
    BY <1>13
  <2>2. \A i \in 0 .. n : i \in S
    BY <1>2, <1>12, <2>1, Inductively, Zenon
  <2>3. QED
    BY <1>2, <2>2
<1>15. g[n] = g[p]
  BY <1>1, <1>2, <1>14 DEF S
<1>16. QED
  BY <1>7, <1>8, <1>10, <1>15 DEF s, b, AlignAlike

\* A replayed minute has the pairs of a live scan at its end.
LEMMA ReplayedIsLive ==
    ASSUME NEW tapes \in [signal : Tape, benchmark : Tape], NEW t \in CommonTimestamps(tapes)
    PROVE  ReplayedTrend(tapes, t) = LiveTrend(tapes, t)
<1> DEFINE s == tapes.signal
           b == tapes.benchmark
           age == TrendInterval - 1
           x == t - age
           signal == Resample(Bars(UpTo(s, t)))
           benchmark == Resample(Bars(UpTo(b, t)))
           signals == Resample(Bars(s))
           benchmarks == Resample(Bars(b))
           later == LastTapeMinute + TrendInterval
<1>1. s \in Tape /\ b \in Tape /\ t \in s /\ t \in b /\ t \in TapeMinute
  BY DEF CommonTimestamps
<1>2. /\ t \in Nat /\ t <= LastTapeMinute /\ age \in Int /\ x \in Int
      /\ later \in Int /\ t + 1 \in Int /\ t + 1 <= later
      /\ t + 1 = x + TrendInterval /\ TrendInterval \in Int
  BY <1>1, TapeAssumption DEF TapeMinute
<1>3. PICK p \in Nat : SameFront(signal, signals, p, x)
  BY <1>1, FrontOfTape
<1>4. PICK q \in Nat : SameFront(benchmark, benchmarks, q, x)
  BY <1>1, FrontOfTape
<1>5. /\ signal \in Seq(TrendBar) /\ benchmark \in Seq(TrendBar)
      /\ signals \in Seq(TrendBar) /\ benchmarks \in Seq(TrendBar)
  BY <1>1, FrontOfTape
<1>6. ReplayedTrend(tapes, t)
          = AlignCompleted(Appended(signals, age, t), Appended(benchmarks, age, t), TrendInterval, later)
  BY DEF ReplayedTrend, RollingTrend
<1>7. LiveTrend(tapes, t) = AlignCompleted(signal, benchmark, TrendInterval, t + 1)
  BY DEF LiveTrend, UpTo
<1> HIDE DEF s, b, age, signal, benchmark, signals, benchmarks, later
<1>8. Appended(signals, age, t) = SubSeq(signals, 1, p)
  <2>1. Cut(signals, p, t - age) /\ t \in Int
    BY <1>2, <1>3 DEF SameFront
  <2>2. QED
    BY <1>2, <1>5, <2>1, AppendedIsCut
<1>9. Appended(benchmarks, age, t) = SubSeq(benchmarks, 1, q)
  <2>1. Cut(benchmarks, q, t - age) /\ t \in Int
    BY <1>2, <1>4 DEF SameFront
  <2>2. QED
    BY <1>2, <1>5, <2>1, AppendedIsCut
<1> HIDE DEF x
<1> DEFINE now == t + 1
<1>10. now \in Int /\ now = x + TrendInterval /\ now <= later
  BY <1>2
<1> HIDE DEF now
<1>11. AlignAlike(SubSeq(signals, 1, p), SubSeq(benchmarks, 1, q), signal, benchmark,
                  TrendInterval, now, later)
  BY <1>2, <1>3, <1>4, <1>5, <1>10, AlignFront
<1>12. QED
  BY <1>6, <1>7, <1>8, <1>9, <1>11 DEF AlignAlike, now

\* The backtester sees at every minute exactly the trend bars of a live scan of that
\* minute, for any pair of tapes, gaps and all, of any length and trend interval: none of
\* the future, none late and none that a gap has cut off.
THEOREM NeverLooksAhead == Spec => []NoLookAhead
<1>1. LookAheads = {}
  BY ReplayedIsLive DEF LookAheads
<1>2. NoLookAhead
  BY <1>1 DEF NoLookAhead
<1>3. QED
  BY <1>2, PTL

=============================================================================
