------------------------- MODULE LeveragedExecution -------------------------
(***************************************************************************)
(* What to do with a leveraged ETF, given the opportunity its signal ETF   *)
(* has, its own entry zone, the order flow and a position                  *)
(* (LeveragedExecutionAnalyzer.cpp).  Pure operators.                      *)
(***************************************************************************)
EXTENDS Integers

CONSTANT None   (* an empty optional *)

ASSUME NoneAssumption == None \notin Int

\* An opportunity is [phase, entry, held], a zone [state, atr], a flow
\* [pressure, score], a position [cost, profit, peak] of one share.
Entry == {"avoid", "watch", "wait_for_vwap", "wait_for_flow", "ready"}
Severity == [hold |-> 0, protect |-> 1, trim |-> 2, exit |-> 3]
Guidance == DOMAIN Severity

\* A strong signal that is extended from its own VWAP still gives the direction.
SignalGate(signal) ==
    IF signal.phase = "strong" /\ signal.entry = "wait_for_vwap" THEN "ready" ELSE signal.entry

FlowEntry(flow) ==
    CASE flow = None -> "wait_for_flow"
      [] flow # None /\ flow.pressure \in {"buying_effective", "selling_absorbed"} -> "ready"
      [] flow # None /\ flow.pressure = "selling_effective" -> "avoid"
      [] flow # None /\ flow.pressure = "balanced" ->
             IF flow.score = None \/ flow.score >= 0 THEN "ready" ELSE "wait_for_flow"
      [] OTHER -> "wait_for_flow"

ExecutionEntry(signalEntry, zone, flow, requireFlow) ==
    IF signalEntry \notin {"ready", "watch"} THEN signalEntry
    ELSE IF zone = None THEN "avoid"
    ELSE IF zone.state = "extended" THEN "wait_for_vwap"
    ELSE IF zone.state # "in_zone" THEN "avoid"
    ELSE IF requireFlow THEN FlowEntry(flow) ELSE "ready"

Stricter(signal, protection) ==
    IF Severity[protection] > Severity[signal] THEN protection ELSE signal

\* The guidance gets stricter as a profit of at least 0.25% is given back: by
\* 20%, 35% and 50% of the peak, or down to the cost.
ProtectedGuidance(signal, position) ==
    IF position = None THEN signal
    ELSE LET giveback == position.peak - position.profit
         IN IF position.peak <= 0 \/ 400 * position.peak < position.cost THEN signal
            ELSE IF position.profit <= 0 \/ 100 * giveback >= 50 * position.peak
            THEN Stricter(signal, "exit")
            ELSE IF 100 * giveback >= 35 * position.peak THEN Stricter(signal, "trim")
            ELSE IF 100 * giveback >= 20 * position.peak THEN Stricter(signal, "protect")
            ELSE signal

\* The opportunity of the QQQ trend.
MarketOpportunity(trend) ==
    CASE trend = "strong" -> [phase |-> "strong", entry |-> "ready", held |-> "hold"]
      [] trend = "weak" -> [phase |-> "weak", entry |-> "avoid", held |-> "exit"]
      [] trend = "neutral" -> [phase |-> "building", entry |-> "watch", held |-> "protect"]

Analyze(signal, zone, flow, position, requireFlow) ==
    [entry |-> ExecutionEntry(SignalGate(signal), zone, flow, requireFlow),
     held |-> ProtectedGuidance(signal.held, position)]

=============================================================================
