---------------------------- MODULE TickHistory ----------------------------
(***************************************************************************)
(* The evidence of one order-flow backtest candidate                       *)
(* (OrderFlowBacktestRunner.cpp): ticks from the CSV cache                 *)
(* (OrderFlowTickCsvStore.cpp) or, when it does not cover the lookback,    *)
(* from the TWS tick client (TwsHistoricalTickClient.cpp), which pages     *)
(* backwards through the trades and then through the quotes.               *)
(*                                                                         *)
(* The tape is what TWS has recorded: the ticks up to the evidence's end   *)
(* in the order in which a live tracker was called.  Results hold indices  *)
(* of the tape.                                                            *)
(***************************************************************************)
EXTENDS OrderFlow, SequencesExt

CONSTANTS
    Tick,       (* the ticks a tape is made of                                *)
    TapeLength, (* bound: ticks on the tape                                   *)
    End,        (* end_timestamp: the seconds are 1 .. End                    *)
    Lookback,   (* minimum_lookback_seconds                                   *)
    ShortWindow, (* seconds of the 30-second window                           *)
    LongWindow, (* seconds of the one-minute window                           *)
    Atr,        (* signal_atr_at_entry                                        *)
    PageSize,   (* number_of_ticks                                            *)
    Top         (* twice the middle price of a tape that is mirrored          *)

TradeTick ==
    [kind : {"trade"}, time : 1 .. End, price : Int, size : Int,
     pastLimit : BOOLEAN, unreported : BOOLEAN]
QuoteTick ==
    [kind : {"quote"}, time : 1 .. End, bid : Int, ask : Int,
     bidSize : Nat, askSize : Nat, sized : BOOLEAN]

ASSUME TickAssumption == Tick \subseteq TradeTick \cup QuoteTick
ASSUME SpanAssumption ==
    /\ TapeLength \in Nat /\ PageSize \in Nat \ {0}
    /\ End \in Nat /\ Lookback \in 1 .. End
    /\ LongWindow \in 1 .. Lookback - 1 /\ ShortWindow \in 1 .. LongWindow - 1
    /\ Atr \in Nat \ {0} /\ Top \in Nat

VARIABLES
    tape,       (* the ticks TWS has                                          *)
    phase,      (* idle, fetching, retry, saving, fetched, a verdict, error    *)
    stream,     (* stream_: trades, quotes                                    *)
    cursor,     (* trades_cursor_, quotes_cursor_                             *)
    answer,     (* the ticks of the active request that are still to come,    *)
                (* in the order of the tape                                   *)
    result,     (* result_: the ticks received per stream                     *)
    complete,   (* complete_                                                  *)
    failure,    (* failure_message_                                           *)
    cache,      (* the two CSV files                                          *)
    intact,     (* history: the cache was not cut short                       *)
    evidence    (* the ticks the verdict is based on                          *)

client == <<stream, cursor, answer, result, complete, failure>>
vars == <<tape, phase, client, cache, intact, evidence>>

Stream == {"trades", "quotes"}
Empty == [s \in Stream |-> <<>>]
None == "none"
Ticks(s) == {n \in DOMAIN tape : IF s = "trades" THEN IsTrade(tape[n]) ELSE IsQuote(tape[n])}

\* The ticks of the tape that the client keeps: an unreported print, and a quote
\* without a size or out of order too.
Kept(n) == IsQuote(tape[n]) \/ (Printed(tape[n]) /\ ~tape[n].pastLimit)

Earliest(s, ticks) ==
    IF ticks = {} THEN End ELSE tape[CHOOSE n \in ticks : \A o \in ticks : tape[n].time <= tape[o].time].time
TargetStart == End - Lookback + 1

\* Mutation: one second of the lookback is not asked for.
NeedsOlderShort(s, ticks) == ticks # {} /\ Earliest(s, ticks) > TargetStart + 1

NeedsOlder(s, ticks) == ticks # {} /\ Earliest(s, ticks) > TargetStart

-----------------------------------------------------------------------------
(* TWS (external): a page is the newest ticks up to the cursor, at least   *)
(* PageSize of them and whole seconds.                                     *)

UpTo(s, second) == {n \in Ticks(s) : tape[n].time <= second}
Page(s, second) ==
    LET all == UpTo(s, second)
    IN {n \in all : Cardinality({o \in all : tape[o].time > tape[n].time}) < PageSize}

-----------------------------------------------------------------------------
(* The client.                                                             *)

Running == phase = "fetching" /\ UNCHANGED <<tape, phase, cache, intact, evidence>>

\* The client object is gone.
NoClient ==
    /\ stream' = "trades"
    /\ cursor' = [s \in Stream |-> End]
    /\ answer' = {}
    /\ result' = Empty
    /\ complete' = FALSE /\ failure' = None

\* load and covers_lookback: only the oldest tick of each file is looked at.
CacheCovers ==
    \A s \in Stream :
        cache[s] # <<>> /\ Earliest(s, ToSet(cache[s])) <= TargetStart

UseCache ==
    /\ phase = "idle"
    /\ CacheCovers
    /\ phase' = "fetched"
    /\ evidence' = cache
    /\ UNCHANGED <<tape, client, cache, intact>>

\* prepare, connect and nextValidId: the first page of trades is requested.
Fetch ==
    /\ phase \in {"idle", "retry"}
    /\ phase = "idle" => ~CacheCovers
    /\ phase' = "fetching"
    /\ stream' = "trades"
    /\ cursor' = [s \in Stream |-> End]
    /\ answer' = Page("trades", End)
    /\ result' = Empty
    /\ complete' = FALSE /\ failure' = None
    /\ UNCHANGED <<tape, cache, intact, evidence>>

Fail(why) == failure' = IF failure = None THEN why ELSE failure

RequestPage(s, second) == answer' = Page(s, second) /\ cursor' = [cursor EXCEPT ![s] = second]

\* Mutation: a cursor that does not move back is not noticed.
NextPageEndlessly(s) ==
    RequestPage(s, Earliest(s, ToSet(result'[s])) - 1) /\ UNCHANGED <<stream, complete, failure>>

\* The last message of a page: the next one is asked for, one second before the
\* earliest tick, while the lookback is not reached.
NextPage(s) ==
    LET next == Earliest(s, ToSet(result'[s])) - 1
    IN IF next >= cursor[s]
       THEN Fail("pagination") /\ answer' = {} /\ UNCHANGED <<stream, cursor, complete>>
       ELSE RequestPage(s, next) /\ UNCHANGED <<stream, complete, failure>>

\* Mutation: quotes are counted among the trades.
ReceivedAsTrades(s, ticks) ==
    result' = [result EXCEPT !["trades"] = @ \o InOrder({n \in ticks : Kept(n)})]

Received(s, ticks) ==
    result' = [result EXCEPT ![s] = @ \o InOrder({n \in ticks : Kept(n)})]

HistoricalTicksLast ==
    /\ Running /\ stream = "trades" /\ ~complete
    /\ Received("trades", answer)
    /\ IF failure # None
       THEN answer' = {} /\ UNCHANGED <<stream, cursor, complete, failure>>
       ELSE IF NeedsOlder("trades", ToSet(result'["trades"]))
       THEN NextPage("trades")
       ELSE stream' = "quotes" /\ RequestPage("quotes", End) /\ UNCHANGED <<complete, failure>>

\* normalize_result: a stable sort by second; the place of a tick is the number of
\* those that go before it.
Before(ticks, i) ==
    {j \in DOMAIN ticks :
        \/ tape[ticks[j]].time < tape[ticks[i]].time
        \/ tape[ticks[j]].time = tape[ticks[i]].time /\ j < i}
Normalized(ticks) ==
    [k \in DOMAIN ticks |->
        ticks[CHOOSE i \in DOMAIN ticks : Cardinality(Before(ticks, i)) = k - 1]]

HistoricalTicksBidAsk ==
    /\ Running /\ stream = "quotes" /\ ~complete
    /\ LET quotes == result["quotes"] \o InOrder({n \in answer : Kept(n)})
       IN IF failure = None /\ NeedsOlder("quotes", ToSet(quotes))
          THEN Received("quotes", answer) /\ NextPage("quotes")
          ELSE /\ result' = [s \in Stream |->
                                 Normalized(IF s = "trades" THEN result["trades"] ELSE quotes)]
               /\ complete' = TRUE
               /\ answer' = {}
               /\ UNCHANGED <<stream, cursor, failure>>

\* Part of a page: more of it follows.
PartOfPage ==
    /\ Running /\ ~complete
    /\ \E last \in answer :
           /\ answer' = {n \in answer : n > last} /\ answer' # {}
           /\ Received(stream, {n \in answer : n <= last})
    /\ UNCHANGED <<stream, cursor, complete, failure>>

\* An error of the active request or of the service, or a closed connection.
Error(why) ==
    /\ Running
    /\ Fail(why)
    /\ UNCHANGED <<stream, cursor, answer, result, complete>>

\* fetch returns or throws; a pacing failure is retried without end.
Exit ==
    /\ phase = "fetching"
    /\ complete \/ failure # None
    /\ IF failure = None THEN phase' = "saving" /\ UNCHANGED client
       ELSE phase' = (IF failure = "pacing" THEN "retry" ELSE "error") /\ NoClient
    /\ UNCHANGED <<tape, cache, intact, evidence>>

-----------------------------------------------------------------------------
(* The runner.                                                             *)

\* save writes the trades file, then the quotes file, in place.  When a write
\* fails or the process dies the files are cut short, and the candidate has an
\* error or no verdict at all.
Save ==
    /\ phase = "saving"
    /\ \/ /\ cache' = result /\ intact' = TRUE
          /\ evidence' = result
          /\ phase' = "fetched"
       \/ \E k \in 0 .. Len(result["trades"]), l \in 0 .. Len(result["quotes"]) :
              /\ k < Len(result["trades"]) \/ l < Len(result["quotes"])
              /\ cache' = [s \in Stream |-> SubSeq(result[s], 1, IF s = "trades" THEN k ELSE l)]
              /\ intact' = FALSE
              /\ phase' = "error"
              /\ UNCHANGED evidence
    /\ NoClient
    /\ UNCHANGED tape

\* The ticks with these indices.
TicksAt(indices) == [k \in DOMAIN indices |-> tape[indices[k]]]

\* What these trades and quotes say at the end, in windows of these seconds, with
\* the trades' sides found by a classifier.
Assessment(trades, sides, quotes, short, long) ==
    LET over(seconds) == Window(Sided(trades, sides), quotes, End - seconds + 1, End)
    IN Assess(over(short), over(long), Atr)

\* The assessment of the evidence.
Sides == Classify(TicksAt(evidence["trades"]), TicksAt(evidence["quotes"]))
Assessed ==
    Assessment(TicksAt(evidence["trades"]), Sides, TicksAt(evidence["quotes"]),
               ShortWindow, LongWindow)

Judge ==
    /\ phase = "fetched"
    /\ phase' = CASE Assessed.pressure = "insufficient_data" -> "insufficient"
                  [] Assessed.pressure \in Bullish -> "confirmed"
                  [] OTHER -> "rejected"
    /\ UNCHANGED <<tape, client, cache, intact, evidence>>

Judged == phase \in {"confirmed", "rejected"}

\* The backtest is run again.
Rerun ==
    /\ Judged \/ phase \in {"insufficient", "error"}
    /\ phase' = "idle"
    /\ evidence' = Empty
    /\ UNCHANGED <<tape, client, cache, intact>>

-----------------------------------------------------------------------------

Tapes == {t \in UNION {[1 .. n -> Tick] : n \in 0 .. TapeLength} :
             \A m, n \in DOMAIN t : m <= n => t[m].time <= t[n].time}

Init ==
    /\ tape \in Tapes
    /\ phase = "idle"
    /\ stream = "trades"
    /\ cursor = [s \in Stream |-> End]
    /\ answer = {}
    /\ result = Empty
    /\ complete = FALSE
    /\ failure = None
    /\ cache = Empty
    /\ intact = TRUE
    /\ evidence = Empty

Next ==
    \/ UseCache \/ Fetch
    \/ HistoricalTicksLast \/ HistoricalTicksBidAsk \/ PartOfPage
    \/ \E why \in {"pacing", "request"} : Error(why)
    \/ Exit \/ Save \/ Judge \/ Rerun

\* TWS answers every request, and the client's loop wakes every 250 ms.
Fairness ==
    /\ WF_vars(HistoricalTicksLast \/ HistoricalTicksBidAsk)
    /\ WF_vars(Exit)

Spec == Init /\ [][Next]_vars /\ Fairness

-----------------------------------------------------------------------------
(* Properties.                                                             *)

\* Every variable keeps its type.
TypeOK ==
    /\ phase \in {"idle", "fetching", "retry", "saving", "fetched", "confirmed",
                  "rejected", "insufficient", "error"}
    /\ stream \in Stream
    /\ cursor \in [Stream -> 0 .. End]
    /\ failure \in {None, "pacing", "request", "pagination"}
    /\ complete \in BOOLEAN /\ intact \in BOOLEAN
    /\ answer \subseteq Ticks(stream)
    /\ {result, cache, evidence} \subseteq [Stream -> Seq(DOMAIN tape)]
    /\ \A ticks \in {result, cache, evidence} : \A s \in Stream : ToSet(ticks[s]) \subseteq Ticks(s)

\* A verdict rests on every kept tick of the lookback, each once and in its order,
\* wherever the pages end, unless a save was cut short: TwsHistoricalTickClient.hpp,
\* "paging continues until both streams cover the requested lookback".
JudgedOnAllTicks ==
    (Judged /\ intact) =>
        \A s \in Stream :
            /\ {n \in ToSet(evidence[s]) : tape[n].time >= TargetStart}
                   = {n \in Ticks(s) : Kept(n) /\ tape[n].time >= TargetStart}
            /\ \A i, j \in DOMAIN evidence[s] : i < j => evidence[s][i] < evidence[s][j]

\* The ticks that a live tracker keeps: a print past the limits too.
HeardTrade(tick) == IsTrade(tick) /\ Reported(tick) /\ Printed(tick)
HeardQuote(tick) == IsQuote(tick) /\ Reported(tick) /\ QuoteOrdered(tick)

\* No quote of its second follows the trade on the tape, the live tracker keeps the
\* quotes, and those of the trade are in the lookback.
Comparable(n) ==
    /\ tape[n].time - MaximumQuoteAge >= TargetStart
    /\ \A q \in Ticks("quotes") :
           /\ tape[q].time = tape[n].time => q < n
           /\ HeardQuote(tape[q])

\* The live tracker, called with the whole tape (LiveOrderFlowTracker.cpp); its
\* windows are one second longer.
LiveTrades == InOrder({n \in DOMAIN tape : HeardTrade(tape[n])})
LiveAssessment(ticks) ==
    LET trades == {n \in DOMAIN ticks : HeardTrade(ticks[n])}
        quotes == {n \in DOMAIN ticks : HeardQuote(ticks[n])}
    IN Assessment(Picked(ticks, trades), Live(ticks), Picked(ticks, quotes),
                  ShortWindow + 1, LongWindow + 1)
LiveAssessed == LiveAssessment(tape)

\* For a trade that both keep, with its quotes before it, the backtest finds the side
\* by the quote test exactly when the live tracker did, and finds the same side:
\* paging, the cache and the sorting lose no evidence a live signal has.
SidesAgree ==
    LET trades == evidence["trades"]
        live == Live(tape)
    IN \A k \in DOMAIN trades, l \in DOMAIN live :
           (trades[k] = LiveTrades[l] /\ Comparable(LiveTrades[l])) =>
               /\ Sides[k].method = "quote test" <=> live[l].method = "quote test"
               /\ Sides[k].method = "quote test" => Sides[k].side = live[l].side

\* Nor does it change the verdict: where the live tracker has enough evidence, no
\* tick falls into its extra second, no trade of the window is past the limits or
\* unreported, which one side keeps and the other does not, and quotes that both keep
\* tell the sides of its trades, the pressure is the one a live entry was decided on.
PressuresAgree ==
    LET ofWindow(n) == tape[n].time > End - ShortWindow
    IN (/\ LiveAssessed.pressure # "insufficient_data"
        /\ \A n \in DOMAIN tape : tape[n].time # End - ShortWindow
        /\ \A q \in Ticks("quotes") : HeardQuote(tape[q])
        /\ \A n \in Ticks("trades") : ofWindow(n) => (Kept(n) <=> HeardTrade(tape[n]))
        /\ \A k \in DOMAIN LiveTrades :
               ofWindow(LiveTrades[k]) =>
                   Comparable(LiveTrades[k]) /\ Live(tape)[k].method = "quote test")
       => Assessed.pressure = LiveAssessed.pressure

AgreesWithLive == (Judged /\ intact) => SidesAgree /\ PressuresAgree

\* The flow of a bucket, with the quote events that lead into it from before, is
\* that of the window of its seconds: the two ways to add up the same ticks agree
\* (OrderFlow.hpp, "One normalized interval of aggressive trades and Level-1
\* quote events").
BucketsAddUp ==
    (phase = "idle" /\ cache = Empty) =>
        LET sided == Sided(TicksAt(LiveTrades), Live(tape))
            quotes == TicksAt(InOrder(Ticks("quotes")))
        IN \A interval \in 1 .. End :
               LET bars == Aggregate(sided, quotes, interval)
               IN \A start \in DOMAIN bars :
                      bars[start] = Window(sided, quotes, start, start + interval - 1).flow

\* A tick seen from the other side of the market: prices p become Top - p, bids asks.
Mirrored(tick) ==
    IF IsTrade(tick) THEN [tick EXCEPT !.price = Top - tick.price]
    ELSE [tick EXCEPT !.bid = Top - tick.ask, !.ask = Top - tick.bid,
                      !.bidSize = tick.askSize, !.askSize = tick.bidSize]
\* It has two sides: a trade at the price of a locked quote counts as bought.
TwoSided(tick) ==
    IF IsTrade(tick) THEN tick.price \in 1 .. Top - 1
    ELSE tick.bid \in 1 .. Top - 1 /\ tick.ask \in 1 .. Top - 1 /\ tick.bid # tick.ask
Opposite(pressure) ==
    CASE pressure = "buying_effective" -> "selling_effective"
      [] pressure = "selling_effective" -> "buying_effective"
      [] pressure = "buying_absorbed" -> "selling_absorbed"
      [] pressure = "selling_absorbed" -> "buying_absorbed"
      [] OTHER -> pressure

\* Buyers and sellers are treated alike: on the mirrored tape the live pressure is
\* the opposite one and the score is negated, as OrderFlow.hpp says of it: "positive
\* values favor buyers and negative values favor sellers".  The threshold is positive:
\* with one of 0, which is allowed, a pressure of 0 counts as selling.
BuyersLikeSellers ==
    (/\ phase = "idle" /\ cache = Empty
     /\ Balanced > 0 /\ \A n \in DOMAIN tape : TwoSided(tape[n])) =>
        LET mirror == LiveAssessment([n \in DOMAIN tape |-> Mirrored(tape[n])])
        IN /\ mirror.pressure = Opposite(LiveAssessed.pressure)
           /\ mirror.score = IF LiveAssessed.score = Absent THEN Absent ELSE -LiveAssessed.score

\* A connection ends when TWS answers: the cursor moves back with every page.
FetchEnds == (phase = "fetching") ~> (phase # "fetching")

=============================================================================
