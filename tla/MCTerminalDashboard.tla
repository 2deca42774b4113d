------------------------- MODULE MCTerminalDashboard -------------------------
(***************************************************************************)
(* TerminalDashboard on three scans of two bars: one with every group, one *)
(* whose leaders fell back, one with nothing strong.                       *)
(***************************************************************************)
EXTENDS TerminalDashboard

Rank(symbol, signal, change, leveraged) ==
    [symbol |-> symbol, signal |-> signal, change |-> change, leveraged |-> leveraged]

MCScans == <<
    [bar |-> 1,
     sectors |-> <<Rank("XLK", "strong", 3, TRUE), Rank("XLE", "weak", -2, FALSE),
                   Rank("XLF", "neutral", 0, TRUE)>>,
     rankings |-> <<Rank("SOXX", "strong", 4, TRUE), Rank("IGV", "strong", 5, FALSE),
                    Rank("XBI", "neutral", 1, TRUE), Rank("KRE", "weak", -1, FALSE),
                    Rank("XOP", "weak", -3, TRUE), Rank("ITB", "strong", 2, TRUE)>>],
    [bar |-> 1,
     sectors |-> <<Rank("XLK", "neutral", 1, TRUE), Rank("XLE", "weak", -2, FALSE),
                   Rank("XLF", "neutral", 0, TRUE)>>,
     rankings |-> <<Rank("SOXX", "strong", 1, TRUE), Rank("IGV", "neutral", 0, FALSE)>>],
    [bar |-> 2,
     sectors |-> <<>>,
     rankings |-> <<Rank("KRE", "weak", -1, FALSE), Rank("XOP", "weak", -3, TRUE),
                    Rank("XBI", "weak", -2, TRUE), Rank("IGV", "weak", -4, FALSE)>>] >>

\* Heights around each break of the pages, widths on both sides of each threshold.
MCSize == {[columns |-> 66, rows |-> 7], [columns |-> 116, rows |-> 2],
           [columns |-> 160, rows |-> 8], [columns |-> 180, rows |-> 11],
           [columns |-> 167, rows |-> 13], [columns |-> 150, rows |-> 30]}
=============================================================================
