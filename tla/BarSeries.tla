------------------------------ MODULE BarSeries ------------------------------
(***************************************************************************)
(* Trend bars out of one-minute bars: how they are resampled               *)
(* (BarTimeframeTransformer.cpp) and aligned (BarSeriesAligner.cpp), which *)
(* of them the backtester uses at a minute (DayTradeBacktester.cpp) and    *)
(* which of them a live scan uses (MarketMonitor.cpp, MarketScanner.cpp).  *)
(* Pure operators on sequences of bars in the order of their times.        *)
(***************************************************************************)
EXTENDS Integers, Sequences, FiniteSets

CONSTANTS
    LastTapeMinute, (* bound: a tape has the minutes 0 .. LastTapeMinute      *)
    TrendInterval,  (* trend_bar_interval, in minutes                         *)
    TapePrice(_)    (* the price of a minute                                  *)

TapeMinute == 0 .. LastTapeMinute
Tape == SUBSET TapeMinute

ASSUME TapeAssumption ==
    /\ LastTapeMinute \in Nat /\ TrendInterval \in Nat \ {0, 1}
    /\ \A t \in TapeMinute : TapePrice(t) \in Int

\* The bars of the minutes a symbol traded in.
BarAt(t) ==
    [time |-> t, open |-> TapePrice(t), high |-> TapePrice(t), low |-> TapePrice(t),
     close |-> TapePrice(t), volume |-> 1]
Bars(tape) ==
    [n \in 1 .. Cardinality(tape) |->
        BarAt(CHOOSE t \in tape : Cardinality({u \in tape : u < t}) = n - 1)]

-----------------------------------------------------------------------------
(* Resampling and alignment.                                               *)

BucketStart(t) == t - (t % TrendInterval)

Higher(a, b) == IF a > b THEN a ELSE b
Lower(a, b) == IF a < b THEN a ELSE b

\* append_to_bucket
IntoBucket(aggregate, source) ==
    [aggregate EXCEPT !.high = Higher(@, source.high), !.low = Lower(@, source.low),
                      !.close = source.close, !.volume = @ + source.volume]

\* A bar goes into the bucket in hand, or begins the next.
WithBar(done, bar) ==
    LET last == Len(done)
        start == BucketStart(bar.time)
    IN IF last # 0 /\ done[last].time = start
       THEN [done EXCEPT ![last] = IntoBucket(done[last], bar)]
       ELSE Append(done, [bar EXCEPT !.time = start])

\* resample_bars: a bucket ends where a bar of the next begins; the last one is
\* there as well, whether it is complete or not.
Resample(bars) ==
    LET after[n \in 0 .. Len(bars)] ==
          IF n = 0 THEN <<>> ELSE WithBar(after[n - 1], bars[n])
    IN after[Len(bars)]

\* A bar of the signal is paired if the benchmark has it too and it has ended.
WithPair(pairs, b, benchmark, interval, now) ==
    LET same == {n \in DOMAIN benchmark : benchmark[n].time = b.time}
    IN IF same # {} /\ b.time + interval <= now
       THEN Append(pairs, [signal |-> b, benchmark |-> benchmark[CHOOSE n \in same : TRUE]])
       ELSE pairs

\* align_completed.
AlignCompleted(signal, benchmark, interval, now) ==
    LET after[n \in 0 .. Len(signal)] ==
          IF n = 0 THEN <<>>
          ELSE WithPair(after[n - 1], signal[n], benchmark, interval, now)
    IN after[Len(signal)]

-----------------------------------------------------------------------------
(* The backtester.                                                         *)

\* common_timestamps
CommonTimestamps(tapes) == {t \in TapeMinute : \A s \in DOMAIN tapes : t \in tapes[s]}

\* The trend bars that the loop has appended by the minute t: it stops at the first
\* whose start is not as old.
Appended(trend, age, t) ==
    LET old(n) == trend[n].time + age <= t
        offset == CHOOSE n \in 0 .. Len(trend) : /\ \A m \in 1 .. n : old(m)
                                                 /\ n < Len(trend) => ~old(n + 1)
    IN SubSeq(trend, 1, offset)

\* Mutation: a trend bar is used from the minute that starts it.
RollingTrendEarly(tape, t) == Appended(Resample(Bars(tape)), 0, t)

\* Those of a tape, out of all there are, from their last minute on.
RollingTrend(tape, t) == Appended(Resample(Bars(tape)), TrendInterval - 1, t)

\* The aligned trend bars of a replayed minute: every bar has ended by now.
ReplayedTrend(tapes, t) ==
    AlignCompleted(RollingTrend(tapes.signal, t), RollingTrend(tapes.benchmark, t),
                   TrendInterval, LastTapeMinute + TrendInterval)

\* The same of a live scan that is handed every bar up to t when the minute ends.
LiveTrend(tapes, t) ==
    LET known(tape) == Resample(Bars({u \in tape : u <= t}))
    IN AlignCompleted(known(tapes.signal), known(tapes.benchmark), TrendInterval, t + 1)

LookAheads ==
    {tapes \in [signal : Tape, benchmark : Tape] :
        \E t \in CommonTimestamps(tapes) : ReplayedTrend(tapes, t) # LiveTrend(tapes, t)}

=============================================================================
