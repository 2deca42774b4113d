------------------------ MODULE TradeClassification ------------------------
(***************************************************************************)
(* The side of a trade, as the live tracker (LiveOrderFlowTracker.cpp) and *)
(* the historical classifier (TradeClassifier.cpp) find it.  The live      *)
(* tracker takes events as they are called back; the classifier takes two  *)
(* streams whose only common order is the second of a tick.                *)
(***************************************************************************)
EXTENDS Integers, Sequences

CONSTANT MaximumQuoteAge    (* seconds *)

ASSUME AgeAssumption == MaximumQuoteAge \in Nat

\* A tick is a trade [kind, time, price, size, pastLimit, unreported] or a quote
\* [kind, time, bid, ask, bidSize, askSize, sized]; a quote whose sizes are not both
\* set is not sized, and an unset size is 0.
IsTrade(tick) == tick.kind = "trade"
IsQuote(tick) == tick.kind = "quote"

NoQuote == [time |-> -1, bid |-> 0, ask |-> 0]
NoPrice == 0
Unknown == "unknown"

\* What a classifier carries from one trade to the next.
Carry == [price |-> NoPrice, direction |-> Unknown]

QuoteOrdered(q) == q.bid > 0 /\ q.ask >= q.bid
Printed(t) == t.price > 0 /\ t.size > 0

\* The quote test, then the tick rule, which carries the last direction across
\* equal prints.
QuoteSide(price, q) ==
    IF price >= q.ask THEN "buy" ELSE IF price <= q.bid THEN "sell" ELSE Unknown
TickSide(price, carry) ==
    IF carry.price = NoPrice THEN Unknown
    ELSE IF price > carry.price THEN "buy"
    ELSE IF price < carry.price THEN "sell" ELSE carry.direction
Side(price, q, fresh, carry) ==
    IF fresh /\ QuoteSide(price, q) # Unknown
    THEN [side |-> QuoteSide(price, q), method |-> "quote test"]
    ELSE IF TickSide(price, carry) # Unknown
    THEN [side |-> TickSide(price, carry), method |-> "tick rule"]
    ELSE [side |-> Unknown, method |-> Unknown]

Carried(carry, price, side) ==
    [price |-> price, direction |-> IF side = Unknown THEN carry.direction ELSE side]

-----------------------------------------------------------------------------
(* Live: events in callback order.                                         *)

LiveStart == [quote |-> NoQuote, carry |-> Carry, sides |-> <<>>]

\* on_quote: an unordered quote is dropped, and the one before it stays.
OnQuote(state, q) ==
    IF QuoteOrdered(q)
    THEN [state EXCEPT !.quote = [time |-> q.time, bid |-> q.bid, ask |-> q.ask]]
    ELSE state

FreshLive(q, time) == q # NoQuote /\ time >= q.time /\ time - q.time <= MaximumQuoteAge

\* on_trade
OnTrade(state, t) ==
    IF ~Printed(t) THEN state
    ELSE LET found == Side(t.price, state.quote, FreshLive(state.quote, t.time), state.carry)
         IN [quote |-> state.quote, carry |-> Carried(state.carry, t.price, found.side),
             sides |-> Append(state.sides, found)]

\* tickByTickAllLast, tickByTickBidAsk: an unreported print and a quote without a size
\* do not reach the tracker.
Reported(tick) == IF IsQuote(tick) THEN tick.sized ELSE ~tick.unreported

OnTick(state, tick) ==
    IF ~Reported(tick) THEN state
    ELSE IF IsQuote(tick) THEN OnQuote(state, tick) ELSE OnTrade(state, tick)

\* The sides after the callbacks of a whole tape.
Live(tape) ==
    LET after[n \in 0 .. Len(tape)] ==
          IF n = 0 THEN LiveStart ELSE OnTick(after[n - 1], tape[n])
    IN after[Len(tape)].sides

-----------------------------------------------------------------------------
(* Historical: two streams, each in the order of its ticks.                *)

\* Mutation: the quotes of the trade's own second are left out.
QuoteBeforeSecond(quotes, time) ==
    LET usable == {n \in DOMAIN quotes : quotes[n].time < time}
    IN IF usable = {} THEN NoQuote
       ELSE LET q == quotes[CHOOSE n \in usable : \A o \in usable : o <= n]
            IN [time |-> q.time, bid |-> q.bid, ask |-> q.ask]

\* The latest quote up to the end of the trade's second, ordered or not.
QuoteFor(quotes, time) ==
    LET usable == {n \in DOMAIN quotes : quotes[n].time <= time}
    IN IF usable = {} THEN NoQuote
       ELSE LET q == quotes[CHOOSE n \in usable : \A o \in usable : o <= n]
            IN [time |-> q.time, bid |-> q.bid, ask |-> q.ask]

FreshHistorical(q, time) ==
    q # NoQuote /\ time - q.time <= MaximumQuoteAge /\ QuoteOrdered(q)

\* classify: the trades here are those the tick client kept, which are printed.
ClassifyStart == [carry |-> Carry, sides |-> <<>>]
WithTrade(state, t, q) ==
    LET found == Side(t.price, q, FreshHistorical(q, t.time), state.carry)
    IN [carry |-> Carried(state.carry, t.price, found.side), sides |-> Append(state.sides, found)]

Classify(trades, quotes) ==
    LET after[n \in 0 .. Len(trades)] ==
          IF n = 0 THEN ClassifyStart
          ELSE WithTrade(after[n - 1], trades[n], QuoteFor(quotes, trades[n].time))
    IN after[Len(trades)].sides

=============================================================================
