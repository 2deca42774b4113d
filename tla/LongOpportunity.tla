--------------------------- MODULE LongOpportunity ---------------------------
(***************************************************************************)
(* From the bars of an ETF to its opportunity: the rank of one ETF         *)
(* (RelativeStrengthRanker.cpp, EtfSnapshotCalculator.cpp,                 *)
(* VwapStructureAnalyzer.cpp, EntryZoneCalculator.cpp, put together by     *)
(* MarketScanner.cpp), the market regime, the score, the phase, the        *)
(* decision (LongOpportunityAnalyzer.cpp) and the candidate                *)
(* (LeveragedEtfSelector.cpp).  Pure operators.                            *)
(*                                                                         *)
(* Averages and volumes are inputs: an EMA by the side of it the value is  *)
(* on, the relative volume by its class.  Prices are numbers.              *)
(***************************************************************************)
EXTENDS LeveragedExecution, Sequences, FiniteSets

\* Signs: where a value is compared with 0 or with its average only.
Sign == {-1, 0, 1}
Regime == {"bullish", "neutral", "bearish"}
Horizon == {15, 30, 60}

ASSUME CandidateAssumption == None \notin [side : {"long", "short"}, rank : Nat]

-----------------------------------------------------------------------------
(* One ETF.  The evidence is [ratio, change, vsQqq, ema, previous, current, *)
(* atr, volume]: the signs of the ratio to its EMA, of its change over      *)
(* each horizon, of the same against QQQ and of the EMA's change; the       *)
(* close and VWAP of the last two minutes; and the class of the volume.     *)

PricedMinute == [close : Int, vwap : Int \cup {None}]

\* relative_change_60_min_percent: no change when the bars do not reach back so far.
HourChange(change) == IF change[60] = None THEN 0 ELSE change[60]

\* RelativeStrengthRanker::rank
Signal(e) ==
    IF e.ratio > 0 /\ HourChange(e.change) > 0 THEN "strong"
    ELSE IF e.ratio < 0 /\ HourChange(e.change) < 0 THEN "weak" ELSE "neutral"

\* classify_trend
Trend(m, ema) ==
    IF m.vwap # None /\ m.close > m.vwap /\ ema > 0 THEN "strong"
    ELSE IF m.vwap # None /\ m.close < m.vwap /\ ema < 0 THEN "weak" ELSE "neutral"

\* VwapStructureAnalyzer::analyze: a new session or anchor is not a crossing.
VwapStructure(previous, current, sameAnchor) ==
    CASE current.vwap = None -> "unavailable"
      [] current.vwap # None /\ ~sameAnchor ->
             IF current.close >= current.vwap THEN "above_flat" ELSE "below"
      [] current.vwap # None /\ sameAnchor /\ previous.vwap = None -> "unavailable"
      [] OTHER ->
             IF previous.close <= previous.vwap /\ current.close > current.vwap THEN "reclaimed"
             ELSE IF previous.close >= previous.vwap /\ current.close < current.vwap THEN "lost"
             ELSE IF current.close < current.vwap THEN "below"
             ELSE IF current.vwap > previous.vwap THEN "above_rising" ELSE "above_flat"

\* Where a price is in a band.
ZoneState(price, lower, upper) ==
    IF price > upper THEN "extended" ELSE IF price < lower THEN "below_zone" ELSE "in_zone"

\* EntryZoneCalculator::calculate: a quarter of an ATR around the VWAP.
EntryZone(m, atr) ==
    IF m.vwap = None \/ atr <= 0 THEN None
    ELSE LET half == atr \div 4
             lower == m.vwap - half
             upper == m.vwap + half
         IN [lower |-> IF lower < 0 THEN 0 ELSE lower, upper |-> upper, price |-> m.close,
             atr |-> atr, state |-> ZoneState(m.close, lower, upper)]

\* What build_rankings makes of the evidence: the direction is of the trend
\* bars, the price, VWAP, structure, volume and zone of the execution bars.
Rank(e) ==
    [signal |-> Signal(e), ratio |-> e.ratio, change |-> e.change, vsQqq |-> e.vsQqq,
     ema |-> e.ema, close |-> e.current.close, vwap |-> e.current.vwap,
     structure |-> VwapStructure(e.previous, e.current, e.sameAnchor),
     volume |-> e.volume, zone |-> EntryZone(e.current, e.atr)]

AboveVwap(rank) == rank.vwap # None /\ rank.close > rank.vwap

-----------------------------------------------------------------------------
(* The score and what follows from it.                                     *)

\* horizon_points: -1 when no horizon is known.
HorizonPoints(horizons, full) ==
    LET known == {h \in DOMAIN horizons : horizons[h] # None}
        positive == {h \in known : horizons[h] > 0}
    IN IF known = {} THEN -1
       ELSE IF positive = known /\ Cardinality(known) >= 2 THEN full
       ELSE IF 2 * Cardinality(positive) >= Cardinality(known) THEN full \div 2
       ELSE 0

BullishVwap(rank) ==
    CASE rank.structure \in {"reclaimed", "above_flat", "above_rising"} -> TRUE
      [] rank.structure \in {"below", "lost"} -> FALSE
      [] rank.structure = "unavailable" -> AboveVwap(rank)

If(condition, points) == IF condition THEN points ELSE 0

BullishScore(rank, regime) ==
    LET spy == HorizonPoints(rank.change, 20)
        qqq == HorizonPoints(rank.vsQqq, 10)
    IN If(BullishVwap(rank), 20) + If(rank.ema > 0, 15) + If(rank.ratio > 0, 15)
       + (IF spy >= 0 THEN spy ELSE If(HourChange(rank.change) > 0, 20))
       + If(qqq > 0, qqq)
       + If(rank.volume = "expanding", 10) + If(rank.volume = "normal", 5)
       + If(regime = "bullish", 10) + If(regime = "neutral", 5)

PositiveMomentum(rank) == rank.ema > 0 \/ HourChange(rank.change) > 0

\* Mutation: the regime has a veto over the phase.
PhaseVetoed(rank, regime) ==
    LET score == BullishScore(rank, regime)
    IN IF rank.signal = "weak" \/ (regime = "bearish" /\ score < 60) THEN "weak"
       ELSE IF rank.structure = "lost" THEN "fading"
       ELSE IF rank.signal = "strong" /\ score >= 80 THEN "strong"
       ELSE IF score >= 60 /\ PositiveMomentum(rank) THEN "building"
       ELSE IF AboveVwap(rank) /\ ~PositiveMomentum(rank) THEN "fading"
       ELSE "neutral"

\* classify_phase
Phase(rank, regime) ==
    LET score == BullishScore(rank, regime)
    IN IF rank.signal = "weak" THEN "weak"
       ELSE IF rank.structure = "lost" THEN "fading"
       ELSE IF rank.signal = "strong" /\ score >= 80 THEN "strong"
       ELSE IF score >= 60 /\ PositiveMomentum(rank) THEN "building"
       ELSE IF AboveVwap(rank) /\ ~PositiveMomentum(rank) THEN "fading"
       ELSE "neutral"

\* entry_decision
EntryDecision(rank, phase) ==
    IF phase \notin {"strong", "building"} \/ rank.zone = None THEN "avoid"
    ELSE CASE rank.zone.state = "in_zone" -> IF rank.volume = "light" THEN "watch" ELSE "ready"
           [] rank.zone.state = "extended" -> "wait_for_vwap"
           [] rank.zone.state = "below_zone" -> IF phase = "building" THEN "watch" ELSE "avoid"

HoldingGuidance(phase) ==
    CASE phase = "strong" -> "hold"
      [] phase \in {"building", "neutral"} -> "protect"
      [] phase = "fading" -> "trim"
      [] phase = "weak" -> "exit"

\* LongOpportunityAnalyzer::analyze
LongOpportunity(rank, regime) ==
    LET phase == Phase(rank, regime)
    IN [phase |-> phase, entry |-> EntryDecision(rank, phase), held |-> HoldingGuidance(phase)]

-----------------------------------------------------------------------------
(* The market.                                                             *)

\* MarketRegimeAnalyzer::classify
MarketRegime(spy, qqq) ==
    IF spy = "strong" /\ qqq = "strong" THEN "bullish"
    ELSE IF spy = "weak" /\ qqq = "weak" THEN "bearish" ELSE "neutral"

\* LeveragedEtfSelector::select: the first strong rank, or in a bearish regime
\* the last weak one.  Every rank here has leveraged ETFs of both sides.
Candidate(ranks, regime) ==
    LET long == {n \in DOMAIN ranks :
                    ranks[n].signal = "strong" /\ AboveVwap(ranks[n]) /\ ranks[n].ema > 0}
        short == {n \in DOMAIN ranks :
                    /\ ranks[n].signal = "weak" /\ ranks[n].ema < 0
                    /\ ranks[n].vwap # None /\ ranks[n].close < ranks[n].vwap}
        first == CHOOSE n \in long : \A o \in long : n <= o
        last == CHOOSE n \in short : \A o \in short : n >= o
    IN IF long # {} THEN [side |-> "long", rank |-> first]
       ELSE IF regime = "bearish" /\ short # {} THEN [side |-> "short", rank |-> last]
       ELSE None

=============================================================================
