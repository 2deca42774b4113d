----------------------------- MODULE OrderFlow -----------------------------
(***************************************************************************)
(* Order flow from classified trades and quotes: over fixed buckets        *)
(* (OrderFlowAggregator.cpp), over a window (OrderFlowWindowAnalyzer.cpp), *)
(* and the assessment of a 30-second and a one-minute window               *)
(* (OrderFlowSignalAnalyzer.cpp).  Pure operators.                         *)
(*                                                                         *)
(* Percentages are whole numbers, rounded toward zero.  A ratio whose      *)
(* denominator is 0 is an empty optional, Absent.                          *)
(***************************************************************************)
EXTENDS TradeClassification, FiniteSets

CONSTANTS
    Balanced,       (* balanced_delta_ratio_percent                           *)
    Deadband,       (* price_response_deadband_atr, in percent of the ATR     *)
    FullResponse,   (* price_response_full_scale_atr, in percent of the ATR   *)
    FullDepth,      (* full_depth_trade_count                                 *)
    Absent          (* std::nullopt                                           *)

ASSUME SettingsAssumption ==
    /\ Balanced \in 0 .. 99
    /\ Deadband \in Nat /\ FullResponse \in Nat /\ FullResponse > Deadband
    /\ FullDepth \in Nat \ {0}
ASSUME AbsentAssumption == Absent \notin Int

ValueOr(x, default) == IF x = Absent THEN default ELSE x
Magnitude(n) == IF n < 0 THEN -n ELSE n
Clamped(n) == IF n > 100 THEN 100 ELSE IF n < -100 THEN -100 ELSE n
Percent(n, d) ==
    IF d = 0 THEN Absent
    ELSE IF n < 0 THEN -((-100 * n) \div d) ELSE (100 * n) \div d
Total(amounts) ==
    LET sum[n \in 0 .. Len(amounts)] == IF n = 0 THEN 0 ELSE sum[n - 1] + amounts[n]
    IN sum[Len(amounts)]

\* The members of a set of positions, ascending.
InOrder(S) ==
    [k \in 1 .. Cardinality(S) |-> CHOOSE n \in S : Cardinality({o \in S : o < n}) = k - 1]
\* What a sequence has at them, and the latest of them.
Picked(s, S) == LET order == InOrder(S) IN [k \in DOMAIN order |-> s[order[k]]]
Latest(S) == CHOOSE k \in S : \A j \in S : j <= k

-----------------------------------------------------------------------------
(* Flow of a period: what its trades and its quote events add up to.       *)

\* Mutation: a rise of the ask counts as buying, as a rise of the bid does, with the new size.
AskOfiRising(previous, q) ==
    IF q.ask > previous.ask THEN q.askSize
    ELSE IF q.ask < previous.ask THEN -q.askSize ELSE previous.askSize - q.askSize

\* The size that a quote adds to the bid and takes from the ask of the one before it.
BidOfi(previous, q) ==
    IF q.bid > previous.bid THEN q.bidSize
    ELSE IF q.bid < previous.bid THEN -previous.bidSize ELSE q.bidSize - previous.bidSize
AskOfi(previous, q) ==
    IF q.ask > previous.ask THEN previous.askSize
    ELSE IF q.ask < previous.ask THEN -q.askSize ELSE previous.askSize - q.askSize

ValidQuote(q) == QuoteOrdered(q) /\ q.bidSize >= 0 /\ q.askSize >= 0

\* A trade with the side a classifier found for it.
Sided(trades, sides) ==
    [k \in DOMAIN trades |->
        [time |-> trades[k].time, price |-> trades[k].price, size |-> trades[k].size,
         side |-> sides[k].side, method |-> sides[k].method]]

\* The size of the trades of a side, or of those whose side a method has found.
VolumeOf(trades, side) ==
    Total([k \in DOMAIN trades |-> IF trades[k].side = side THEN trades[k].size ELSE 0])
VolumeBy(trades, method) ==
    Total([k \in DOMAIN trades |-> IF trades[k].method = method THEN trades[k].size ELSE 0])

\* Twice the change of price, of the trades or else of the midpoint.
Change(trades, quotes) ==
    LET twiceMid(q) == q.bid + q.ask
    IN IF trades # <<>> THEN 2 * (trades[Len(trades)].price - trades[1].price)
       ELSE IF quotes # <<>> THEN twiceMid(quotes[Len(quotes)]) - twiceMid(quotes[1])
       ELSE Absent

\* The side of the midpoint on which the last microprice lies.
Microprice(quotes) ==
    LET shown == {k \in DOMAIN quotes : quotes[k].bidSize + quotes[k].askSize > 0}
        q == quotes[Latest(shown)]
    IN IF shown = {} THEN Absent
       ELSE IF q.ask = q.bid \/ q.bidSize = q.askSize THEN 0
       ELSE IF q.bidSize > q.askSize THEN 100 ELSE -100

\* trades are sided; quotes are the valid ones of the
\* period, events the pairs of each of them with the valid one before it.
Flow(trades, quotes, events) ==
    LET bought == VolumeOf(trades, "buy")
        sold == VolumeOf(trades, "sell")
        traded == Total([k \in DOMAIN trades |-> trades[k].size])
        bid == [k \in DOMAIN events |-> BidOfi(events[k][1], events[k][2])]
        ask == [k \in DOMAIN events |-> AskOfi(events[k][1], events[k][2])]
        ofi == Total([k \in DOMAIN events |-> bid[k] + ask[k]])
        activity == Total([k \in DOMAIN events |-> Magnitude(bid[k]) + Magnitude(ask[k])])
    IN [trades |-> Len(trades),
        delta |-> bought - sold,
        deltaRatio |-> Percent(bought - sold, bought + sold),
        coverage |-> ValueOr(Percent(bought + sold, traded), 0),
        quoteCoverage |-> ValueOr(Percent(VolumeBy(trades, "quote test"), traded), 0),
        ofi |-> ofi,
        ofiRatio |-> Percent(ofi, activity),
        change |-> Change(trades, quotes),
        microprice |-> Microprice(quotes)]

-----------------------------------------------------------------------------
(* aggregate: one flow per bucket, the quote events running on from one    *)
(* bucket to the next.                                                     *)

Bucket(time, interval) == time - (time % interval)

\* Each element with the one before it.
Pairs(s) == IF s = <<>> THEN <<>> ELSE [k \in 1 .. Len(s) - 1 |-> <<s[k], s[k + 1]>>]

\* Mutation: every bucket starts without a previous quote.
EventsWithin(quotes, valid, start, interval) ==
    Pairs(Picked(quotes, {k \in valid : Bucket(quotes[k].time, interval) = start}))

EventsOf(quotes, valid, start, interval) ==
    LET before(k) == {j \in valid : j < k}
        events == InOrder({k \in valid :
                               Bucket(quotes[k].time, interval) = start /\ before(k) # {}})
    IN [k \in DOMAIN events |-> <<quotes[Latest(before(events[k]))], quotes[events[k]]>>]

Aggregate(trades, quotes, interval) ==
    LET sized == {k \in DOMAIN trades : trades[k].size > 0}
        valid == {k \in DOMAIN quotes : ValidQuote(quotes[k])}
        bucket(x) == Bucket(x.time, interval)
    IN [start \in {bucket(trades[k]) : k \in sized} \cup {bucket(quotes[k]) : k \in valid} |->
            Flow(Picked(trades, {k \in sized : bucket(trades[k]) = start}),
                 Picked(quotes, {k \in valid : bucket(quotes[k]) = start}),
                 EventsOf(quotes, valid, start, interval))]

-----------------------------------------------------------------------------
(* analyze: a window from one second to another, both included.  It is     *)
(* complete when each stream has a tick at its start or before.            *)

Reached(ticks, from) == \E k \in DOMAIN ticks : ticks[k].time <= from

WindowFlow(trades, quotes, from, to) ==
    LET sized == {k \in DOMAIN trades : trades[k].time \in from .. to /\ trades[k].size > 0}
        valid == {k \in DOMAIN quotes : ValidQuote(quotes[k])}
        before == {k \in valid : quotes[k].time < from}
        inside == {k \in valid : quotes[k].time \in from .. to}
        series == inside \cup (IF before = {} THEN {} ELSE {Latest(before)})
    IN Flow(Picked(trades, sized), Picked(quotes, inside), Pairs(Picked(quotes, series)))

Window(trades, quotes, from, to) ==
    [complete |-> Reached(trades, from) /\ Reached(quotes, from),
     flow |-> WindowFlow(trades, quotes, from, to)]

-----------------------------------------------------------------------------
(* analyze of the signal: pressure, the price's response to it, and a      *)
(* score.                                                                  *)

Pressures == {"insufficient_data", "balanced", "buying_effective", "buying_absorbed",
              "selling_effective", "selling_absorbed"}
Bullish == {"buying_effective", "selling_absorbed"}

\* combined_pressure_percent, in hundredths of a percent.
Combined(flow) ==
    IF flow.deltaRatio # Absent /\ flow.ofiRatio # Absent
    THEN 60 * flow.deltaRatio + 40 * flow.ofiRatio
    ELSE IF flow.deltaRatio # Absent THEN 100 * flow.deltaRatio
    ELSE IF flow.ofiRatio # Absent THEN 100 * flow.ofiRatio ELSE Absent

\* price_response_atr, in percent of the ATR.
Response(flow, atr) == IF flow.change = Absent THEN Absent ELSE Percent(flow.change, 2 * atr)

Quality(short, long) ==
    LET fewest == IF short.flow.trades < long.flow.trades THEN short.flow.trades ELSE long.flow.trades
        depth == IF fewest > FullDepth THEN 100 ELSE (100 * fewest) \div FullDepth
    IN (25 * (short.flow.coverage + long.flow.coverage)
        + 35 * (short.flow.quoteCoverage + long.flow.quoteCoverage)
        + 50 * (IF short.complete /\ long.complete THEN 100 ELSE 0)
        + 30 * depth) \div 200

\* directional_score, in hundredths of hundredths: the weighted sum of what each
\* window shows, shrunk by the quality of the evidence.
Score(short, long, response) ==
    LET delta30 == ValueOr(short.flow.deltaRatio, 0)
        delta60 == ValueOr(long.flow.deltaRatio, 0)
        ofi30 == ValueOr(short.flow.ofiRatio, 0)
        ofi60 == ValueOr(long.flow.ofiRatio, 0)
        raw == 25 * delta30 + 15 * delta60 + 10 * Clamped(delta30 - delta60)
               + 20 * ofi30 + 10 * ofi60 + 5 * Clamped(ofi30 - ofi60)
               + 5 * ValueOr(short.flow.microprice, 0)
               + 10 * Clamped(ValueOr(Percent(response, FullResponse), 0))
    IN raw * Quality(short, long)

Pressure(short, long, atr) ==
    LET pressure == Combined(short.flow)
        response == Response(short.flow, atr)
    IN IF ~short.complete \/ ~long.complete \/ pressure = Absent \/ response = Absent
       THEN "insufficient_data"
       ELSE IF Magnitude(pressure) < 100 * Balanced THEN "balanced"
       ELSE IF pressure > 0
       THEN IF response > Deadband THEN "buying_effective" ELSE "buying_absorbed"
       ELSE IF response < -Deadband THEN "selling_effective" ELSE "selling_absorbed"

Assess(short, long, atr) ==
    LET response == Response(short.flow, atr)
    IN [pressure |-> Pressure(short, long, atr),
        score |-> IF Combined(short.flow) = Absent \/ response = Absent THEN Absent
                  ELSE Score(short, long, response)]

=============================================================================
