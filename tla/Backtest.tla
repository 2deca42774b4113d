------------------------------ MODULE Backtest ------------------------------
(***************************************************************************)
(* The day-trade backtester (DayTradeBacktester.cpp): one step per common  *)
(* bar of its instruments.  Orders decided at the close of a bar are       *)
(* filled at the open of the next one, the stop is tried inside the bar,   *)
(* and the bar is analysed last.                                           *)
(*                                                                         *)
(* The scan of a bar is an input: no ranking of the signal ETF (which also *)
(* stands for the warm-up), or an opportunity that the evidence can give   *)
(* and the two entry zones.  What is only reported - costs, excursions,    *)
(* sums - is left out.                                                     *)
(***************************************************************************)
EXTENDS LongOpportunity, BarSeries

CONSTANTS
    Bar,            (* bars of the trade ETF: open, high, low, close          *)
    Evidence,       (* what is known of the signal ETF (LongOpportunity)      *)
    Zone,           (* entry zones of the trade ETF: state and ATR, or None   *)
    LastMinute,     (* minutes of a session: 1 .. LastMinute                  *)
    EntryStart,     (* entry_start_minute                                     *)
    EntryEnd,       (* entry_end_minute                                       *)
    ForcedExit,     (* forced_exit_signal_minute                              *)
    InitialStop,    (* initial_stop_atr, in quarters of an ATR                *)
    Activation,     (* trailing_activation_atr, likewise                      *)
    Distance        (* trailing_distance_atr, likewise                        *)

ASSUME BarAssumption ==
    \A b \in Bar :
        /\ b \in [open : Nat \ {0}, high : Nat, low : Nat, close : Nat]
        /\ b.low <= b.open /\ b.open <= b.high /\ b.low <= b.close /\ b.close <= b.high
ASSUME EvidenceAssumption ==
    \A e \in Evidence :
        /\ e.ratio \in Sign /\ e.ema \in Sign
        /\ e.change \in [Horizon -> Sign \cup {None}]
        /\ e.previous \in PricedMinute /\ e.current \in PricedMinute
ASSUME ZoneAssumption == \A z \in Zone \ {None} : z.atr \in Nat \ {0}
ASSUME SettingsAssumption ==
    /\ InitialStop \in Nat \ {0} /\ Activation \in Nat \ {0} /\ Distance \in Nat \ {0}
    /\ LastMinute \in Nat \ {0} /\ EntryStart < EntryEnd

VARIABLES
    bar,            (* previous_trade_bar                                     *)
    minute,         (* of that bar                                            *)
    tested,         (* that bar is in the test window                         *)
    armed,          (* entry_armed                                            *)
    pendingEntry,   (* the ATR of the trade ETF at the decision, or None      *)
    pendingExit,    (* the reason, or None                                    *)
    position,       (* entry, ATR at entry, stop, peak, trailing, non_strong  *)
    over,           (* the bars have ended                                    *)
    opened,         (* history: the bar opened a position                     *)
    closed,         (* history: the bar, price and reason of the trade it closed *)
    wave            (* history: READY on every bar since the session's last fill *)

vars == <<bar, minute, tested, armed, pendingEntry, pendingExit, position, over, opened,
          closed, wave>>

Minute == 1 .. LastMinute
Atr == {z.atr : z \in Zone \ {None}}
Position ==
    [entry : Nat, atr : Atr, stop : Int, peak : Nat, trailing : BOOLEAN, nonStrong : 0 .. 2]
Reason == {"session_end", "profit_giveback", "weak_signal", "momentum_faded"}
ASSUME EmptyAssumption == None \notin Bar \cup Position \cup Reason
Larger(a, b) == IF a > b THEN a ELSE b
Times(quarters, atr) == (quarters * atr) \div 4
Closed(b, price, reason) == [bar |-> b, price |-> price, reason |-> reason]

\* The opportunities of a signal ETF: of a ranked one, in the regime that the trends
\* of SPY and QQQ make, or of QQQ's own trend.
Trends == {Trend(e.current, e.ema) : e \in Evidence}
Opportunity ==
    {LongOpportunity(Rank(e), regime) :
         e \in Evidence, regime \in {MarketRegime(spy, qqq) : spy, qqq \in Trends}}
        \cup {MarketOpportunity(trend) : trend \in Trends}

\* The scan of a bar.
Scan == {None} \cup [opportunity : Opportunity, zone : Zone, signalZone : BOOLEAN]
Decision(scan, held) == Analyze(scan.opportunity, scan.zone, None, held, FALSE)
Ready(scan) == Decision(scan, None).entry = "ready"

-----------------------------------------------------------------------------
(* The position.                                                           *)

Opened(b, atr) ==
    [entry |-> b.open, atr |-> atr, stop |-> b.open - Times(InitialStop, atr),
     peak |-> b.open, trailing |-> FALSE, nonStrong |-> 0]

Stopped(p, b) == p # None /\ b.low <= p.stop

\* A gap through the stop is filled at the open.
StopPrice(p, b) == IF b.open <= p.stop THEN b.open ELSE p.stop

\* Mutation: the stop follows the ATR down.
TrailedLoosely(p, b, zone) ==
    LET peak == Larger(p.peak, b.high)
        atr == IF zone = None THEN p.atr ELSE zone.atr
        trails == peak - p.entry >= Times(Activation, p.atr)
    IN [p EXCEPT !.peak = peak, !.trailing = @ \/ trails,
                 !.stop = IF trails THEN peak - Times(Distance, atr) ELSE @]

\* The peak of a completed bar, and the stop it trails.
Trailed(p, b, zone) ==
    LET peak == Larger(p.peak, b.high)
        atr == IF zone = None THEN p.atr ELSE zone.atr
        trails == peak - p.entry >= Times(Activation, p.atr)
    IN [p EXCEPT !.peak = peak, !.trailing = @ \/ trails,
                 !.stop = IF trails THEN Larger(@, peak - Times(Distance, atr)) ELSE @]

\* simulated_position_snapshot
Snapshot(p, b) == [cost |-> p.entry, profit |-> b.close - p.entry, peak |-> p.peak - p.entry]

\* Mutation: the momentum may fade for a third bar.
ExitReasonLate(p, b, m, scan) ==
    LET held == Decision(scan, Snapshot(p, b)).held
        signal == Decision(scan, None).held
    IN IF m >= ForcedExit THEN "session_end"
       ELSE IF held # signal /\ held \in {"trim", "exit"} THEN "profit_giveback"
       ELSE IF signal = "exit" THEN "weak_signal"
       ELSE IF signal # "hold" /\ p.nonStrong > 1 THEN "momentum_faded"
       ELSE None

\* Why the position is to be closed at the next open, or None, in this order.
ExitReason(p, b, m, scan) ==
    LET held == Decision(scan, Snapshot(p, b)).held
        signal == Decision(scan, None).held
    IN IF m >= ForcedExit THEN "session_end"
       ELSE IF held # signal /\ held \in {"trim", "exit"} THEN "profit_giveback"
       ELSE IF signal = "exit" THEN "weak_signal"
       ELSE IF signal # "hold" /\ p.nonStrong >= 1 THEN "momentum_faded"
       ELSE None

NonStrong(p, b, m, scan) ==
    LET reason == ExitReason(p, b, m, scan)
    IN IF reason \notin {None, "momentum_faded"} THEN p.nonStrong
       ELSE IF Decision(scan, None).held = "hold" THEN 0 ELSE p.nonStrong + 1

-----------------------------------------------------------------------------
(* One bar.                                                                *)

\* Mutation: the orders of the session before are still there.
CarryOrders(new) ==
    [position |-> IF new THEN None ELSE position, entry |-> pendingEntry, exit |-> pendingExit,
     armed |-> armed \/ new]

\* A position is closed at the last close of its session, and the first bar of
\* the next finds no order: the state the fills start from.
Carry(new) ==
    [position |-> IF new THEN None ELSE position,
     entry |-> IF new THEN None ELSE pendingEntry,
     exit |-> IF new THEN None ELSE pendingExit,
     armed |-> armed \/ new]

\* The position after the fills at the open, and the entry it disarms.
Filled(carry, b) ==
    LET exits == carry.position # None /\ carry.exit # None
        flat == carry.position = None \/ exits
    IN IF flat /\ carry.entry # None THEN Opened(b, carry.entry)
       ELSE IF flat THEN None ELSE carry.position
Opens(carry) == (carry.position = None \/ carry.exit # None) /\ carry.entry # None

\* Mutation: a fill does not disarm the entry.
DisarmedNot(carry) == carry.armed

Armed(carry) == carry.armed /\ ~Opens(carry)

\* The trade the bar closes: at most one.
Closes(new, carry, b) ==
    LET p == Filled(carry, b)
    IN IF new /\ position # None THEN Closed(bar, bar.close, "session_end")
       ELSE IF carry.position # None /\ carry.exit # None THEN Closed(b, b.open, carry.exit)
       ELSE IF Stopped(p, b)
       THEN Closed(b, StopPrice(p, b), IF p.trailing THEN "trailing_stop" ELSE "protective_stop")
       ELSE None

\* A held position is marked and judged.
Manage(p, exit, b, m, scan) ==
    LET q == Trailed(p, b, scan.zone)
        reason == ExitReason(q, b, m, scan)
    IN /\ position' = [q EXCEPT !.nonStrong = NonStrong(q, b, m, scan)]
       /\ pendingExit' = IF reason = None THEN exit ELSE reason
       /\ pendingEntry' = None

\* Without a position an entry is decided: a bar that is not READY arms it.
MayEnter(m, scan) ==
    /\ tested' /\ m >= EntryStart /\ m <= EntryEnd
    /\ scan.signalZone /\ scan.zone # None
Decide(arm, exit, m, scan) ==
    /\ position' = None /\ pendingExit' = exit
    /\ pendingEntry' = IF MayEnter(m, scan) /\ arm /\ Ready(scan) THEN scan.zone.atr ELSE None
    /\ armed' = (arm \/ (MayEnter(m, scan) /\ ~Ready(scan)))

\* The loop body.
Step(new, b, m, scan) ==
    LET carry == Carry(new)
        p == IF Stopped(Filled(carry, b), b) THEN None ELSE Filled(carry, b)
        exit == IF carry.position = None THEN carry.exit ELSE None
    IN /\ bar' = b /\ minute' = m
       /\ opened' = Opens(carry)
       /\ closed' = Closes(new, carry, b)
       /\ IF scan = None
          THEN /\ position' = p /\ pendingEntry' = None /\ pendingExit' = exit
               /\ armed' = Armed(carry)
          ELSE IF p # None THEN Manage(p, exit, b, m, scan) /\ armed' = Armed(carry)
          ELSE Decide(Armed(carry), exit, m, scan)
       /\ wave' = /\ ~new
                  /\ wave \/ Opens(carry)
                  /\ scan # None => Ready(scan)
       /\ UNCHANGED over

\* The next common bar, in the session or in a later one.
NextBar ==
    /\ ~over
    /\ \E new \in BOOLEAN, b \in Bar, m \in Minute, scan \in Scan :
           /\ bar = None => new
           /\ ~new => m >= minute
           /\ tested' \in {tested, TRUE}
           /\ Step(new, b, m, scan)

\* After the last bar.
DataEnd ==
    /\ ~over /\ bar # None
    /\ over' = TRUE
    /\ position' = None
    /\ closed' = IF position # None THEN Closed(bar, bar.close, "data_end") ELSE None
    /\ opened' = FALSE
    /\ UNCHANGED <<bar, minute, tested, armed, pendingEntry, pendingExit, wave>>

Init ==
    /\ bar = None /\ minute = 1 /\ tested \in BOOLEAN
    /\ armed = TRUE
    /\ pendingEntry = None /\ pendingExit = None /\ position = None
    /\ over = FALSE
    /\ opened = FALSE /\ closed = None /\ wave = FALSE

Next == NextBar \/ DataEnd

Spec == Init /\ [][Next]_vars

-----------------------------------------------------------------------------
(* Properties.                                                             *)


\* Every variable keeps its type.
TypeOK ==
    /\ bar \in Bar \cup {None} /\ minute \in Minute
    /\ tested \in BOOLEAN /\ armed \in BOOLEAN /\ over \in BOOLEAN
    /\ opened \in BOOLEAN /\ wave \in BOOLEAN
    /\ pendingEntry \in Atr \cup {None}
    /\ pendingExit \in Reason \cup {None}
    /\ position \in Position \cup {None}

\* An order belongs to what it was decided for: an exit to the position that is
\* held, an entry to a flat and armed state.
NoStaleOrders ==
    ~over => /\ pendingExit # None => position # None
             /\ pendingEntry # None => (position = None /\ armed)

\* A position that survives a bar was above its stop all through it, on the bar
\* of its entry as well; its stop never falls; and a trade is closed at a price
\* the bar traded at, gaps through the stop included.
StopsHonoured ==
    [][/\ (position' # None /\ opened') =>
              bar'.low > position'.entry - Times(InitialStop, position'.atr)
       /\ (position' # None /\ ~opened') =>
              (bar'.low > position.stop /\ position'.stop >= position.stop)
       /\ closed' # None =>
              (closed'.bar.low <= closed'.price /\ closed'.price <= closed'.bar.high)]_vars

\* One uninterrupted READY wave fills once: between two entries of a session a
\* bar was not READY (README.md, "a new entry is armed after the prior continuous
\* READY wave resets").
OneFillPerWave == [][opened' => ~wave]_vars

\* What the market regime alone may not do to the ETF of an evidence: make it a
\* TRIM or an EXIT or spare it one, hide it as a long candidate, or take a strong
\* ETF from STRONG to below BUILDING.
Vetoed(e) ==
    LET rank == Rank(e)
        opportunity == [regime \in Regime |-> LongOpportunity(rank, regime)]
        candidate == [regime \in Regime |-> Candidate(<<rank>>, regime)]
        leaves(regime) == opportunity[regime].held \in {"trim", "exit"}
        long(regime) == candidate[regime] # None /\ candidate[regime].side = "long"
        short(regime) == candidate[regime] # None /\ candidate[regime].side = "short"
    IN \E g, h \in Regime :
           \/ leaves(g) /\ opportunity[h].held # opportunity[g].held
           \/ opportunity[g].phase = "strong" /\ opportunity[h].phase \notin {"strong", "building"}
           \/ long(g) /\ (~long(h) \/ leaves(g))
           \/ short(g) /\ opportunity[g].held # "exit"

Overridden == {e \in Evidence : Vetoed(e)}

\* The market regime weighs in the score and nowhere else
\* (LongOpportunityAnalyzer.cpp:95, "must not override an independently strong
\* industry"; LeveragedEtfSelector.cpp:13).  Nor do the candidate and the
\* guidance of an ETF contradict each other: a long candidate is never one to
\* trim or leave, a short one always is one to leave.
\* It is about every evidence, and asked once, before the first bar.
RegimeIsNoVeto == bar = None => Overridden = {}

\* The backtester sees at every minute exactly the trend bars that a live scan of
\* that minute would have seen: no bar of the future, none too late, and none cut
\* off by a gap or by the common timestamps.  About every pair of tapes, likewise.
NoLookAhead == bar = None => LookAheads = {}

=============================================================================
