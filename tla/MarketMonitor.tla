---------------------------- MODULE MarketMonitor ----------------------------
(***************************************************************************)
(* The threads of the continuous monitor (MarketMonitor.cpp): the main     *)
(* thread with the completed-bar handler, the live-context thread, the     *)
(* one-second refresh thread and the backfill thread, with what they share:*)
(* latest_scan, the live context store and the dashboard, each under its   *)
(* own mutex.  A step is one critical section.                             *)
(*                                                                         *)
(* Scans are numbered by their completed bar, live contexts by their       *)
(* arrival; what they hold is given by the constants, and what the screen  *)
(* shows by LiveEnrichment.  The history and the calibration records,      *)
(* which only the main thread and the backfill write, are in               *)
(* MonitorHistory, HistoryBackfill and SetupCalibration.                   *)
(***************************************************************************)
EXTENDS LiveEnrichment

CONSTANTS
    LastScan,       (* bound: the scans 1 .. LastScan                         *)
    LastContext,    (* bound: the contexts 1 .. LastContext                   *)
    ScanContent(_), (* a scan before it is enriched                           *)
    ContextContent(_)   (* a live context, 0 being the empty one              *)

ASSUME ScanAssumption == LastScan \in Nat
ASSUME ContextAssumption == LastContext \in Nat
ASSUME ContentAssumption ==
    \A n \in 1 .. LastScan : \A signal \in DOMAIN ScanContent(n) : ScanContent(n)[signal] \in Row
ASSUME PriceAssumption ==
    \A c \in 0 .. LastContext :
        LET quotes == ContextContent(c).quotes
        IN \A symbol \in DOMAIN quotes : quotes[symbol] \in {None} \cup Int

VARIABLES
    stop,       (* stop_requested: a signal arrived                           *)
    mainPc,     (* monitor, handle, share, show, retry, join ..., done        *)
    refreshPc,  (* read, enrich, show, sleep, done                            *)
    livePc,     (* monitor, retry, done                                       *)
    backfillPc, (* work, done                                                 *)
    context,    (* live_context_store, 0 when empty                           *)
    latest,     (* latest_scan, as the handler enriched it                    *)
    lastScan,   (* last_scan_timestamp, 0 when none                           *)
    mainScan,   (* the handler's scan                                         *)
    copy,       (* the refresh thread's scan                                  *)
    shown       (* the dashboard's latest_scan_                               *)

threads == <<mainPc, refreshPc, livePc, backfillPc>>
vars == <<stop, threads, context, latest, lastScan, mainScan, copy, shown>>

Scan == 1 .. LastScan

\* A scan with the context the handler enriched it with and the one it was last
\* enriched with.
View == [scan : 0 .. LastScan, seen : 0 .. LastContext, context : 0 .. LastContext]
NoView == [scan |-> 0, seen |-> 0, context |-> 0]

-----------------------------------------------------------------------------

(* Main thread. *)

\* The handler has scanned the bars it was handed; a scan that is not newer is
\* dropped.  A newer one is saved, enriched with the live context, observed.
HandleScan(n) ==
    /\ mainPc = "monitor"
    /\ IF n > lastScan
       THEN mainScan' = [scan |-> n, seen |-> context, context |-> context] /\ mainPc' = "share"
       ELSE UNCHANGED <<mainScan, mainPc>>
    /\ UNCHANGED <<stop, refreshPc, livePc, backfillPc, context, latest, lastScan,
                   copy, shown>>
ShareScan ==
    /\ mainPc = "share"
    /\ latest' = mainScan
    /\ mainPc' = "show"
    /\ UNCHANGED <<stop, refreshPc, livePc, backfillPc, context, lastScan,
                   mainScan, copy, shown>>

\* Mutation: the end of the bar is remembered in place of its start.
ShowScanEnd ==
    /\ mainPc = "show"
    /\ shown' = mainScan
    /\ lastScan' = mainScan.scan + 1
    /\ mainPc' = "monitor"
    /\ UNCHANGED <<stop, refreshPc, livePc, backfillPc, context, latest, mainScan, copy>>

ShowScan ==
    /\ mainPc = "show"
    /\ shown' = mainScan
    /\ lastScan' = mainScan.scan
    /\ mainPc' = "monitor"
    /\ UNCHANGED <<stop, refreshPc, livePc, backfillPc, context, latest, mainScan, copy>>

\* The client throws, and the thread waits before it reconnects.
LoseConnection ==
    /\ mainPc = "monitor"
    /\ mainPc' = "retry"
    /\ UNCHANGED <<stop, refreshPc, livePc, backfillPc, context, latest, lastScan,
                   mainScan, copy, shown>>

Reconnect ==
    /\ mainPc = "retry" /\ ~stop
    /\ mainPc' = "monitor"
    /\ UNCHANGED <<stop, refreshPc, livePc, backfillPc, context, latest, lastScan,
                   mainScan, copy, shown>>
\* The client returns, or the wait ends, when a stop is requested.  The threads
\* are joined in this order, then the dashboard stops.
Shutdown ==
    /\ \/ mainPc \in {"monitor", "retry"} /\ stop /\ mainPc' = "join backfill"
       \/ mainPc = "join backfill" /\ backfillPc = "done" /\ mainPc' = "join refresh"
       \/ mainPc = "join refresh" /\ refreshPc = "done" /\ mainPc' = "join live"
       \/ mainPc = "join live" /\ livePc = "done" /\ mainPc' = "done"
    /\ UNCHANGED <<stop, refreshPc, livePc, backfillPc, context, latest, lastScan,
                   mainScan, copy, shown>>

(* Refresh thread. *)

RefreshReads ==
    /\ refreshPc = "read"
    /\ IF stop THEN refreshPc' = "done" /\ UNCHANGED copy
       ELSE IF latest = NoView THEN refreshPc' = "sleep" /\ UNCHANGED copy
       ELSE refreshPc' = "enrich" /\ copy' = latest
    /\ UNCHANGED <<stop, mainPc, livePc, backfillPc, context, latest, lastScan,
                   mainScan, shown>>

\* Mutation: a scan that has a context keeps it.
RefreshEnrichesOnce ==
    /\ refreshPc = "enrich"
    /\ copy' = IF copy.context = 0 THEN [copy EXCEPT !.context = context] ELSE copy
    /\ refreshPc' = "show"
    /\ UNCHANGED <<stop, mainPc, livePc, backfillPc, context, latest, lastScan,
                   mainScan, shown>>

RefreshEnriches ==
    /\ refreshPc = "enrich"
    /\ copy' = [scan |-> copy.scan, seen |-> copy.seen, context |-> context]
    /\ refreshPc' = "show"
    /\ UNCHANGED <<stop, mainPc, livePc, backfillPc, context, latest, lastScan,
                   mainScan, shown>>

RefreshShows ==
    /\ refreshPc = "show"
    /\ shown' = copy
    /\ refreshPc' = "sleep"
    /\ UNCHANGED <<stop, mainPc, livePc, backfillPc, context, latest, lastScan,
                   mainScan, copy>>

RefreshWakes ==
    /\ refreshPc = "sleep"
    /\ refreshPc' = "read"
    /\ UNCHANGED <<stop, mainPc, livePc, backfillPc, context, latest, lastScan,
                   mainScan, copy, shown>>

(* Live-context thread: the client publishes, throws or returns on a stop. *)

LivePublishes ==
    /\ livePc = "monitor"
    /\ context < LastContext
    /\ context' = context + 1
    /\ UNCHANGED <<stop, threads, latest, lastScan, mainScan, copy, shown>>

LiveLosesConnection ==
    /\ livePc = "monitor" /\ ~stop
    /\ livePc' = "retry"
    /\ UNCHANGED <<stop, mainPc, refreshPc, backfillPc, context, latest, lastScan,
                   mainScan, copy, shown>>

\* Mutation: the wait before a reconnect is not followed by a look at the stop.
LiveContinuesDeaf ==
    /\ \/ livePc = "retry" /\ ~stop /\ livePc' = "monitor"
       \/ livePc = "monitor" /\ stop /\ livePc' = "done"
    /\ UNCHANGED <<stop, mainPc, refreshPc, backfillPc, context, latest, lastScan,
                   mainScan, copy, shown>>

LiveContinues ==
    /\ \/ livePc = "retry" /\ ~stop /\ livePc' = "monitor"
       \/ livePc \in {"monitor", "retry"} /\ stop /\ livePc' = "done"
    /\ UNCHANGED <<stop, mainPc, refreshPc, backfillPc, context, latest, lastScan,
                   mainScan, copy, shown>>

(* Backfill thread: it ends with its work, an error or a stop. *)

BackfillEnds ==
    /\ backfillPc = "work"
    /\ backfillPc' = "done"
    /\ UNCHANGED <<stop, mainPc, refreshPc, livePc, context, latest, lastScan,
                   mainScan, copy, shown>>

RequestStop ==
    /\ ~stop
    /\ stop' = TRUE
    /\ UNCHANGED <<threads, context, latest, lastScan, mainScan, copy, shown>>

-----------------------------------------------------------------------------

Init ==
    /\ stop = FALSE
    /\ mainPc = "monitor"
    /\ refreshPc = "read"
    /\ livePc = "monitor"
    /\ backfillPc = "work"
    /\ context = 0
    /\ latest = NoView
    /\ lastScan = 0
    /\ mainScan = NoView
    /\ copy = NoView
    /\ shown = NoView

Main == ShareScan \/ ShowScan \/ Reconnect \/ Shutdown
Refresh == RefreshReads \/ RefreshEnriches \/ RefreshShows \/ RefreshWakes

Next ==
    \/ Main
    \/ \E n \in Scan : HandleScan(n)
    \/ LoseConnection
    \/ Refresh
    \/ LivePublishes \/ LiveLosesConnection \/ LiveContinues
    \/ BackfillEnds
    \/ RequestStop

\* Each thread is scheduled: none waits for anything but a stop or a wait that
\* ends, and a backfill whose stop was requested ends (HistoryBackfill).
Fairness ==
    /\ WF_vars(Main)
    /\ WF_vars(Refresh)
    /\ WF_vars(LiveContinues)
    /\ WF_vars(stop /\ BackfillEnds)

Spec == Init /\ [][Next]_vars /\ Fairness

-----------------------------------------------------------------------------
(* Properties.                                                             *)

\* Every variable keeps its type.
TypeOK ==
    /\ stop \in BOOLEAN
    /\ mainPc \in {"monitor", "share", "show", "retry", "join backfill",
                   "join refresh", "join live", "done"}
    /\ refreshPc \in {"read", "enrich", "show", "sleep", "done"}
    /\ livePc \in {"monitor", "retry", "done"}
    /\ backfillPc \in {"work", "done"}
    /\ context \in 0 .. LastContext
    /\ lastScan \in 0 .. LastScan
    /\ latest \in View /\ mainScan \in View /\ copy \in View /\ shown \in View

\* When scans and contexts stop coming and nobody stops the run, the dashboard ends
\* up with the newest scan and the newest context for good, although the refresh
\* thread may show an older scan after a newer one.
Settles ==
    \A n \in Scan, c \in 0 .. LastContext :
        <>[](latest.scan = n /\ context = c /\ ~stop) => <>[](shown.scan = n /\ shown.context = c)

\* What a view holds: the refresh thread enriches what the handler has enriched.
Shown == {v \in View : v.scan # 0}
Contents ==
    [v \in Shown |->
        Enrich(Enrich(ScanContent(v.scan), ContextContent(v.seen)), ContextContent(v.context))]
EnrichedOnce ==
    [v \in Shown |-> Enrich(ScanContent(v.scan), ContextContent(v.context))]

\* What is on the screen is the scan and the context shown with it, and nothing of
\* the context the handler had: "streaming prices, P&L, trade Delta, and Level-1 OFI
\* refresh the dashboard every second" (MarketMonitor.cpp).  The exception is a zone
\* whose symbol has lost its quote, which keeps the old live price.
EnrichedAnew ==
    shown.scan # 0 =>
        LET screen == Contents[shown]
            anew == EnrichedOnce[shown]
            quoted(symbol) == LivePrice(ContextContent(shown.context), symbol) # None
        IN \A signal \in DOMAIN screen :
               LET row == screen[signal]
                   fresh == anew[signal]
               IN /\ row.live = fresh.live
                  /\ row.execution.held = fresh.execution.held
                  /\ quoted(signal) => row.zone = fresh.zone
                  /\ quoted(row.leveraged) => /\ row.leveragedZone = fresh.leveragedZone
                                              /\ row.execution = fresh.execution

\* A stop ends every thread and then the run: the joins wait for no thread that
\* waits for the main one.
ShutsDown == stop ~> (mainPc = "done")

=============================================================================
