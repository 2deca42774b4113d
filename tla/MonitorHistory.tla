--------------------------- MODULE MonitorHistory ---------------------------
(***************************************************************************)
(* The completed-bar handler of the market monitor (MarketMonitor.cpp) on  *)
(* top of its data client: it merges the handed bars into the minute       *)
(* history, scans, and saves the history to the CSV cache                  *)
(* (MarketDataCsvStore.cpp).  A restart loads the cache.                   *)
(***************************************************************************)
EXTENDS MarketDataClient, FiniteSets

CONSTANTS
    Benchmark,  (* SPY and QQQ: a scan is dated by the bars they have in common *)
    WarmUp      (* completed bars a scan needs; it throws when there are fewer  *)

ASSUME BenchmarkAssumption == Benchmark \subseteq Sync /\ Benchmark # {}
ASSUME WarmUpAssumption == WarmUp \in Nat \ {0}

VARIABLES
    history,    (* the minute history in memory                               *)
    scan,       (* the latest scan: its minute and the sync symbols it covers *)
    cache,      (* the bars in the CSV files                                  *)
    loadable    (* every CSV file parses                                      *)

historyVars == <<history, scan, cache, loadable>>
monitorVars == <<clientVars, historyVars>>

NoScan == [minute |-> NoMinute, covers |-> {}]
\* merge_instrument_bars appends, sort_and_deduplicate_bars sorts with an
\* unstable sort and keeps the first of equal minutes: either of two versions.
Merge(old, new, refreshed) ==
    [i \in Request |-> [m \in Minute |->
        IF old[i][m] = Absent \/ <<i, m>> \in refreshed THEN new[i][m] ELSE old[i][m]]]

Duplicates(old, new) ==
    {d \in Request \X Minute :
        LET was == old[d[1]][d[2]]
            is == new[d[1]][d[2]]
        IN was # is /\ was # Absent /\ is # Absent}

\* align_completed of the benchmarks.
Aligned(bars) == {m \in Minute : m < clock /\ \A i \in Benchmark : bars[i][m] # Absent}

Scanned(bars) ==
    LET minute == Latest(Aligned(bars))
    IN [minute |-> minute, covers |-> {i \in Sync : bars[i][minute] # Absent}]

\* The rows of a file that a write error or a crash cuts short.
CutAt(file, cut) == [m \in Minute |-> IF m < cut THEN file[m] ELSE Absent]

\* save rewrites each file in place: when one write fails, the files already
\* written are new, that one is cut short, and the others are old.  The monitor
\* swallows the exception.
SaveCache ==
    \/ cache' = history' /\ loadable' = TRUE
    \/ \E i \in Request, cut \in Minute : \E done \in SUBSET (Request \ {i}) :
           /\ cache' = [j \in Request |->
                            IF j \in done THEN history'[j]
                            ELSE IF j = i THEN CutAt(history'[i], cut) ELSE cache[j]]
           /\ loadable' \in {TRUE, FALSE}

\* Mutation: the exception of a failed save leaves the handler.
ScanUnlessSaveFails ==
    LET new == Scanned(history')
    IN IF new.minute > scan.minute
       THEN SaveCache /\ scan' = (IF cache' = history' THEN new ELSE scan)
       ELSE UNCHANGED <<scan, cache, loadable>>

\* A scan no later than the latest one is dropped, whatever it covers.
ScanHistory ==
    LET new == Scanned(history')
    IN IF new.minute > scan.minute
       THEN scan' = new /\ SaveCache
       ELSE UNCHANGED <<scan, cache, loadable>>

\* The completed-bar handler; what it merged stays when the scan throws.
OnCompletedBar ==
    /\ \E refreshed \in SUBSET Duplicates(history, results') :
           history' = Merge(history, results', refreshed)
    /\ IF Cardinality(Aligned(history')) >= WarmUp
       THEN ~aborted' /\ ScanHistory
       ELSE aborted' /\ UNCHANGED <<scan, cache, loadable>>

HandsOver == handed' # handed /\ handed' # NoHandOver

\* Mutation: the cache is not loaded.
RestartEmpty ==
    /\ loadable
    /\ phase' = "idle"
    /\ stop' = FALSE
    /\ failure' = None
    /\ ResetConnection
    /\ history' = NoBars
    /\ scan' = NoScan
    /\ UNCHANGED <<clock, keepUpToDate, cache, loadable>>

\* The process is killed and started again; it fails while a file does not parse.
Restart ==
    /\ loadable
    /\ phase' = "idle"
    /\ stop' = FALSE
    /\ failure' = None
    /\ ResetConnection
    /\ history' = cache
    /\ scan' = NoScan
    /\ UNCHANGED <<clock, keepUpToDate, cache, loadable>>

-----------------------------------------------------------------------------

MonitorInit ==
    /\ Init
    /\ history = NoBars
    /\ scan = NoScan
    /\ cache = NoBars
    /\ loadable = TRUE

Monitors ==
    \/ Callbacks /\ (IF HandsOver THEN OnCompletedBar ELSE UNCHANGED historyVars)
    \/ (Connect \/ Exit \/ RequestStop \/ AdvanceClock) /\ UNCHANGED historyVars

MonitorNext == Monitors \/ Restart

MonitorSpec == MonitorInit /\ [][MonitorNext]_monitorVars

-----------------------------------------------------------------------------
(* Properties.                                                             *)

\* Memory is never behind the files, whichever saves failed and however often
\* the process restarted: the next save that succeeds repairs a file cut short.
MemoryCoversCache ==
    \A i \in Request, m \in Minute : cache[i][m] # Absent => history[i][m] # Absent

\* A handler call that does not throw leaves the latest scan at the completed
\* bar it was called for or later: no trigger of the client goes unanswered.
ScanCoversHandOver == (handed # NoHandOver /\ ~aborted) => scan.minute >= handed.minute

\* A bar that was final when it was handed is final in the history: the merge
\* is "idempotent across reconnects and repeated IBKR refreshes"
\* (InstrumentBarsMerger.hpp).
FinalBarsKept ==
    [][HandsOver =>
           \A i \in Request, m \in Minute :
               results'[i][m] = Final => history'[i][m] = Final]_monitorVars

=============================================================================
