--------------------------- MODULE LiveEnrichment ---------------------------
(***************************************************************************)
(* What a scan becomes with a live context (LiveTradeContextEnricher.cpp): *)
(* live prices, entry zones judged at them, order flow assessed against    *)
(* the ATR, and the leveraged executions decided anew.  Pure operators.    *)
(*                                                                         *)
(* A scan is a function from signal ETFs to rows [leveraged, atr, zone,    *)
(* opportunity, leveragedZone, live, execution]; the row of QQQ, whose     *)
(* leveraged ETF is TQQQ, has the opportunity of its trend and no zone.    *)
(* A context is [quotes, flow, positions], functions from symbols to a     *)
(* price, to the windows [short, long] and to a position, or to None.      *)
(***************************************************************************)
EXTENDS LongOpportunity, OrderFlow

CONSTANT FlowSignal     (* the signal ETFs whose leveraged entry needs the flow *)

Zone == [lower : Int, upper : Int, price : Int, atr : Int,
         state : {"extended", "below_zone", "in_zone"}]
Row == [leveraged : {None} \cup STRING, atr : {None} \cup Int,
        zone : {None} \cup Zone, leveragedZone : {None} \cup Zone, live : {None} \cup Int,
        opportunity : [phase : {"strong", "building", "neutral", "fading", "weak"},
                       entry : Entry, held : Guidance],
        execution : [entry : Entry, held : Guidance]]

ASSUME ZoneAssumption == None \notin Zone

LivePrice(now, symbol) == IF symbol \in DOMAIN now.quotes THEN now.quotes[symbol] ELSE None
Position(now, symbol) == IF symbol \in DOMAIN now.positions THEN now.positions[symbol] ELSE None

\* Mutation: a zone that is extended stays extended.
ApplyLivePriceOnce(zone, price) ==
    IF zone = None \/ price = None \/ (zone # None /\ zone.state = "extended") THEN zone
    ELSE [zone EXCEPT !.price = price, !.state = ZoneState(price, zone.lower, zone.upper)]

\* apply_live_price
ApplyLivePrice(zone, price) ==
    IF zone = None \/ price = None THEN zone
    ELSE [zone EXCEPT !.price = price, !.state = ZoneState(price, zone.lower, zone.upper)]

\* The flow of a signal ETF against its ATR; none without an ATR.
FlowFor(row, now, signal) ==
    IF signal \notin DOMAIN now.flow \/ row.atr = None THEN None
    ELSE LET windows == now.flow[signal]
             assessed == Assess(windows.short, windows.long, row.atr)
         IN [pressure |-> assessed.pressure,
             score |-> IF assessed.score = Absent THEN None ELSE assessed.score]

EnrichedRow(row, now, signal) ==
    LET leveragedZone == ApplyLivePrice(row.leveragedZone, LivePrice(now, row.leveraged))
        rest == [row EXCEPT !.live = LivePrice(now, signal),
                            !.zone = ApplyLivePrice(row.zone, LivePrice(now, signal))]
    IN IF row.leveraged = None THEN rest
       ELSE [rest EXCEPT
                !.leveragedZone = leveragedZone,
                !.execution = Analyze(row.opportunity, leveragedZone, FlowFor(row, now, signal),
                                      Position(now, row.leveraged), signal \in FlowSignal)]

Enrich(scan, now) == [signal \in DOMAIN scan |-> EnrichedRow(scan[signal], now, signal)]

=============================================================================
