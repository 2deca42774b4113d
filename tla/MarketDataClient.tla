-------------------------- MODULE MarketDataClient --------------------------
(***************************************************************************)
(* One TWS market-data client (TwsMarketDataClient.cpp): it connects, asks *)
(* for the history of every instrument, keeps the bars it is sent, and,    *)
(* when it monitors, hands them to a handler once per completed bar that   *)
(* the synchronization symbols have in common.                             *)
(*                                                                         *)
(* Callbacks run one at a time, in batches of queued messages; the stop    *)
(* predicate and the failure flag are read only between two batches.       *)
(* Prices are abstracted to the version of a bar: absent, in progress or   *)
(* final.  Minutes are counted from 0; clock is the minute in progress.    *)
(***************************************************************************)
EXTENDS Integers

CONSTANTS
    Request,        (* the requested symbols                                  *)
    Optional,       (* those whose request is not `required`                  *)
    Sync,           (* the synchronization symbols                            *)
    Mode,           (* monitor_historical_bars (TRUE), fetch (FALSE)          *)
    Delivered,      (* bound: the versions of a bar that are delivered        *)
    Fault,          (* what may go wrong around the client                    *)
    LastMinute      (* bound: the minutes 0 .. LastMinute are modelled        *)

ASSUME RequestAssumption == Optional \subseteq Request
ASSUME SyncAssumption == Sync \subseteq Request /\ Sync # {}
ASSUME ModeAssumption == Mode \subseteq BOOLEAN
ASSUME DeliveredAssumption == Delivered \subseteq {1, 2}
ASSUME FaultAssumption ==
    Fault \subseteq {"unreachable", "pacing", "request", "service", "closed", "timestamp"}
ASSUME LastMinuteAssumption == LastMinute \in Nat

VARIABLES
    clock,      (* the minute in progress                                     *)
    keepUpToDate, (* the client monitors, it does not only fetch               *)
    stop,       (* the stop predicate holds                                   *)
    phase,      (* where the caller is: idle, running, returned, threw        *)
    started,    (* request_started_                                           *)
    ended,      (* ended_requests_                                            *)
    results,    (* results_: the version of each bar                          *)
    published,  (* last_published_bar_                                        *)
    handed,     (* the latest completed_bar_handler_ call of the connection   *)
    failure,    (* failure_message_                                           *)
    aborted     (* a callback threw: the batch is given up                    *)

connection == <<started, ended, results, published, handed, failure, aborted>>
clientVars == <<clock, keepUpToDate, stop, phase, connection>>

Minute == 0 .. LastMinute
NoMinute == -1
Absent == 0
InProgress == 1
Final == 2
Version == {Absent, InProgress, Final}
NoBars == [i \in Request |-> [m \in Minute |-> Absent]]

\* A call of the handler: the common completed bar it is for, and the version
\* of that bar it shows for each synchronization symbol.
NoHandOver == [minute |-> NoMinute, shows |-> [i \in Sync |-> Absent]]

\* Mutation: every requested symbol is taken for a synchronization symbol.
HandOverAll(minute, bars) ==
    [minute |-> minute, shows |-> [i \in Request |-> bars[i][minute]]]

HandOver(minute, bars) == [minute |-> minute, shows |-> [i \in Sync |-> bars[i][minute]]]

None == "none"
Failure == Fault \cup {"handler"}

Latest(S) == CHOOSE m \in S : \A n \in S : n <= m

-----------------------------------------------------------------------------

ResetConnection ==
    /\ started' = FALSE
    /\ ended' = {}
    /\ results' = NoBars
    /\ published' = NoMinute
    /\ handed' = NoHandOver
    /\ aborted' = FALSE

\* prepare and connect of a new client: the caller retries after a throw.
Connect ==
    /\ phase \in {"idle", "threw"}
    /\ ~stop
    /\ ResetConnection
    /\ \/ phase' = "running" /\ failure' = None
       \/ "unreachable" \in Fault /\ phase' = "threw" /\ failure' = "unreachable"
    /\ UNCHANGED <<clock, keepUpToDate, stop>>

\* A callback may run: a batch is being processed.
Callback == phase = "running" /\ ~aborted /\ UNCHANGED <<clock, keepUpToDate, stop, phase>>

\* fail keeps the first message.
Fail(why) == failure' = IF failure = None THEN why ELSE failure

NextValidId ==
    /\ Callback
    /\ ~started
    /\ started' = TRUE
    /\ UNCHANGED <<ended, results, published, handed, failure, aborted>>

\* Of one instrument bars arrive in order, each final before the next begins;
\* a message may wait in the queue past the end of its minute.
InOrder(i, m, v) ==
    /\ m <= clock
    /\ v = Final => m < clock
    /\ v = InProgress => results[i][m] # Final
    /\ \A n \in Minute : n > m => results[i][n] = Absent
    /\ \A n \in Minute : n < m => results[i][n] # InProgress

StoreBar(i, m, v) == results' = [results EXCEPT ![i][m] = v]

\* latest_common_completed_bar over the stored bars.
CommonCompleted(bars) ==
    {m \in Minute : m < clock /\ \A i \in Sync : bars[i][m] # Absent}

\* Mutation: the latest call is not compared.
PublishesAgain ==
    keepUpToDate /\ ended' = Request /\ CommonCompleted(results') # {}

Publishes ==
    /\ keepUpToDate
    /\ ended' = Request
    /\ CommonCompleted(results') # {}
    /\ Latest(CommonCompleted(results')) > published

\* publish_completed_bar, called last in a callback.  The handler may throw:
\* the bar then stays unpublished, and the batch ends with a failure.
PublishCompletedBar ==
    IF Publishes
    THEN LET minute == Latest(CommonCompleted(results'))
         IN /\ handed' = HandOver(minute, results')
            /\ \/ published' = minute /\ UNCHANGED <<failure, aborted>>
               \/ UNCHANGED published /\ aborted' = TRUE /\ Fail("handler")
    ELSE UNCHANGED <<published, handed, failure, aborted>>

HistoricalData(i, m, v) ==
    /\ Callback
    /\ started
    /\ i \notin ended
    /\ InOrder(i, m, v)
    /\ StoreBar(i, m, v)
    /\ UNCHANGED <<started, ended, published, handed, failure, aborted>>

HistoricalDataUpdate(i, m, v) ==
    /\ Callback
    /\ keepUpToDate
    /\ i \in ended
    /\ InOrder(i, m, v)
    /\ StoreBar(i, m, v)
    /\ UNCHANGED <<started, ended>>
    /\ PublishCompletedBar

CompleteInitialRequest(i) ==
    /\ ended' = ended \cup {i}
    /\ UNCHANGED <<started, results>>
    /\ PublishCompletedBar

HistoricalDataEnd(i) ==
    /\ Callback
    /\ started
    /\ i \notin ended
    /\ CompleteInitialRequest(i)

\* error, by what the code distinguishes: a pacing response fails whatever it
\* is about, an optional request is given up, any other request fails, and so
\* does a service code that names no request.
Error ==
    /\ Callback
    /\ \/ \E i \in Request \cap Optional : started /\ CompleteInitialRequest(i)
       \/ \E why \in Fault \cap {"pacing", "request", "service"} :
              /\ why # "service" => started
              /\ why = "request" => Request \ Optional # {}
              /\ Fail(why)
              /\ UNCHANGED <<started, ended, results, published, handed, aborted>>

ConnectionClosed ==
    /\ Callback
    /\ "closed" \in Fault
    /\ Fail("closed")
    /\ UNCHANGED <<started, ended, results, published, handed, aborted>>

\* A bar whose timestamp does not parse is not stored; the batch goes on.
UnreadableBar ==
    /\ Callback
    /\ "timestamp" \in Fault
    /\ started
    /\ Fail("timestamp")
    /\ UNCHANGED <<started, ended, results, published, handed, aborted>>
\* Mutations: the failure is not rethrown; the loop does not look at it.
ExitQuietly ==
    /\ phase = "running"
    /\ stop \/ failure # None \/ (~keepUpToDate /\ ended = Request)
    /\ phase' = "returned"
    /\ UNCHANGED <<clock, keepUpToDate, stop, connection>>
ExitDeaf ==
    /\ phase = "running"
    /\ stop \/ (~keepUpToDate /\ ended = Request)
    /\ phase' = IF failure = None THEN "returned" ELSE "threw"
    /\ UNCHANGED <<clock, keepUpToDate, stop, connection>>

\* The loop's condition, read between two batches, then shutdown.
Exit ==
    /\ phase = "running"
    /\ stop \/ failure # None \/ (~keepUpToDate /\ ended = Request)
    /\ phase' = IF failure = None THEN "returned" ELSE "threw"
    /\ UNCHANGED <<clock, keepUpToDate, stop, connection>>

RequestStop ==
    /\ ~stop
    /\ stop' = TRUE
    /\ UNCHANGED <<clock, keepUpToDate, phase, connection>>

AdvanceClock ==
    /\ clock < LastMinute
    /\ clock' = clock + 1
    /\ UNCHANGED <<keepUpToDate, stop, phase, connection>>

-----------------------------------------------------------------------------

Init ==
    /\ clock = 0
    /\ keepUpToDate \in Mode
    /\ stop = FALSE
    /\ phase = "idle"
    /\ started = FALSE
    /\ ended = {}
    /\ results = NoBars
    /\ published = NoMinute
    /\ handed = NoHandOver
    /\ failure = None
    /\ aborted = FALSE

Callbacks ==
    \/ NextValidId
    \/ \E i \in Request, m \in Minute, v \in Delivered :
           HistoricalData(i, m, v) \/ HistoricalDataUpdate(i, m, v)
    \/ \E i \in Request : HistoricalDataEnd(i)
    \/ Error
    \/ ConnectionClosed
    \/ UnreadableBar

Next == Connect \/ Callbacks \/ Exit \/ RequestStop \/ AdvanceClock

\* The message loop wakes at least every 250 ms (EReaderOSSignal) and reads its
\* condition, and the wait before a retry ends.
Fairness == WF_clientVars(Exit) /\ WF_clientVars(Connect)

Spec == Init /\ [][Next]_clientVars /\ Fairness

-----------------------------------------------------------------------------
(* Properties.                                                             *)

\* Every variable keeps its type, and the failure message its vocabulary.
TypeOK ==
    /\ clock \in Minute
    /\ keepUpToDate \in Mode
    /\ stop \in BOOLEAN
    /\ phase \in {"idle", "running", "returned", "threw"}
    /\ started \in BOOLEAN
    /\ ended \subseteq Request
    /\ results \in [Request -> [Minute -> Version]]
    /\ published \in Minute \cup {NoMinute}
    /\ handed \in [minute : Minute \cup {NoMinute}, shows : [Sync -> Version]]
    /\ failure \in Failure \cup {None}
    /\ aborted \in BOOLEAN

\* The handler is called only after every request of the connection ended, for a
\* minute that is over and of which each synchronization symbol shows a bar; and,
\* after the first call, once for each such minute: no call leaves behind one that
\* had no call of its own.
OncePerCommonBar ==
    [][(handed' # handed /\ handed' # NoHandOver) =>
           /\ ended' = Request
           /\ handed'.minute < clock'
           /\ \A i \in Sync : handed'.shows[i] # Absent
           /\ handed'.minute > published
           /\ published # NoMinute =>
                  \A m \in CommonCompleted(results') : m > published => m = handed'.minute
      ]_clientVars

\* A caller told to carry on gets a normal return of a fetch only with the
\* initial data of every request, and none at all from a monitor.
NormalReturn ==
    (phase = "returned" /\ ~stop) =>
        ~keepUpToDate /\ failure = None /\ ended = Request

\* A stop request or a failure ends the connection, whatever is still queued.
Ends == (stop \/ failure # None) ~> (phase # "running")

=============================================================================
