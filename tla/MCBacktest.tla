----------------------------- MODULE MCBacktest -----------------------------
(***************************************************************************)
(* A small instance of Backtest for TLC.                                   *)
(***************************************************************************)
EXTENDS Backtest

\* A quiet bar, a run-up that ends below its high, a dip to a stop and a gap
\* through one.
MCBar ==
    {[open |-> 100, high |-> 101, low |-> 100, close |-> 100],
     [open |-> 100, high |-> 108, low |-> 100, close |-> 106],
     [open |-> 104, high |-> 105, low |-> 96, close |-> 101],
     [open |-> 90, high |-> 92, low |-> 88, close |-> 90]}

\* Changes over the horizons that agree, disagree, are flat and not known yet, with
\* and without bars of QQQ to compare with; closes around the VWAP and its band, with
\* crossings in both directions, a new session and minutes without a VWAP.
Changes == {[h \in Horizon |-> IF h <= n THEN s ELSE t] : n \in {0, 15, 30}, s \in Sign,
                t \in Sign \cup {None}}
Minutes(was, is) ==
    [previous |-> [close |-> was, vwap |-> 10], current |-> [close |-> is, vwap |-> 11]]
NoVwap == [previous |-> [close |-> 9, vwap |-> None], current |-> [close |-> 12, vwap |-> None]]
MCEvidence ==
    {[ratio |-> ratio, change |-> change, vsQqq |-> vsQqq, ema |-> ema, volume |-> volume,
      previous |-> minutes.previous, current |-> minutes.current, sameAnchor |-> same, atr |-> 4] :
        ratio \in Sign, change \in Changes, ema \in Sign,
        vsQqq \in {[h \in Horizon |-> v] : v \in {None, -1, 1}},
        volume \in {"light", "expanding", "unavailable"},
        same \in BOOLEAN,
        minutes \in {Minutes(9, 13), Minutes(11, 12), Minutes(11, 10), Minutes(11, 8),
                     Minutes(9, 9), NoVwap}}

\* Prices that go up and down, so that every part of an aggregate tells.
MCTapePrice(t) == <<3, 5, 1, 4, 6, 2>>[(t % 6) + 1]

MCZone == {None, [state |-> "in_zone", atr |-> 4], [state |-> "in_zone", atr |-> 8],
           [state |-> "extended", atr |-> 4]}

=============================================================================
