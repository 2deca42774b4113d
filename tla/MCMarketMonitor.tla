-------------------------- MODULE MCMarketMonitor --------------------------
(***************************************************************************)
(* A small instance of MarketMonitor for TLC: SOXX, whose leveraged entry  *)
(* needs the flow, XLE, whose does not, XLU, which has no leveraged ETF,   *)
(* and QQQ.                                                                *)
(***************************************************************************)
EXTENDS MarketMonitor

MakeRow(leveraged, atr, zone, opportunity, leveragedZone) ==
    [leveraged |-> leveraged, atr |-> atr, zone |-> zone, opportunity |-> opportunity,
     leveragedZone |-> leveragedZone, live |-> None,
     execution |-> [entry |-> "avoid", held |-> "protect"]]
ZoneAt(close) == EntryZone([close |-> close, vwap |-> 100], 40)
Rising == [phase |-> "strong", entry |-> "wait_for_vwap", held |-> "hold"]
Starting == [phase |-> "building", entry |-> "watch", held |-> "protect"]

\* The leveraged ETF of SOXX closes in its zone in the first scan, above it in the
\* second and below it in the third.
MCScanContent(n) ==
    LET close == <<100, 120, 80>>
    IN [SOXX |-> MakeRow("SOXL", 40, ZoneAt(120), Rising, ZoneAt(close[n])),
        XLE |-> MakeRow("ERX", 40, ZoneAt(100), Starting, ZoneAt(120)),
        XLU |-> MakeRow(None, 40, ZoneAt(80), Starting, None),
        QQQ |-> MakeRow("TQQQ", 40, None, MarketOpportunity("strong"),
                    IF n = 1 THEN None ELSE ZoneAt(100))]

\* Trades all on one side, the price moving with them or against them.
Windows(delta, change) ==
    LET window == [complete |-> TRUE,
                   flow |-> [trades |-> 1, delta |-> delta, deltaRatio |-> 100 * delta,
                             coverage |-> 100, quoteCoverage |-> 100, ofi |-> 0,
                             ofiRatio |-> Absent, change |-> change, microprice |-> 0]]
    IN [short |-> window, long |-> window]

\* Nothing; then quotes, buying and a profit; then, on a new connection, the profit
\* given back and selling, and a quote of SOXL alone.
MCContextContent(c) ==
    CASE c = 0 -> [quotes |-> <<>>, flow |-> <<>>, positions |-> <<>>]
      [] c = 1 -> [quotes |-> [SOXX |-> 101, SOXL |-> 112, ERX |-> 99, XLU |-> 100, TQQQ |-> 120],
                   flow |-> [SOXX |-> Windows(1, 8), QQQ |-> Windows(1, -8)],
                   positions |-> [SOXL |-> [cost |-> 100, profit |-> 12, peak |-> 12]]]
      [] c = 2 -> [quotes |-> [SOXL |-> 98],
                   flow |-> [SOXX |-> Windows(-1, -8)],
                   positions |-> [SOXL |-> [cost |-> 100, profit |-> -2, peak |-> 12]]]

=============================================================================
