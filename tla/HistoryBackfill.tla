--------------------------- MODULE HistoryBackfill ---------------------------
(***************************************************************************)
(* The background backfill of the market monitor: backfill_minute_history  *)
(* (MarketMonitor.cpp) with its planner (HistoricalRequestPlanner.cpp) and *)
(* the error classes it retries (IbkrErrorClassifier.cpp), next to the     *)
(* live merges of the monitor and across restarts.                         *)
(*                                                                         *)
(* History is the set of moments held per symbol, PerDay of them a day.    *)
(* The backfill asks for the windows of its plan, oldest first, and an     *)
(* IBKR request counts its days back from the moment it is sent.  A batch  *)
(* is whole but for its optional symbols (VIX), which TWS may refuse.      *)
(***************************************************************************)
EXTENDS Integers, FiniteSets

CONSTANTS
    Symbol,     (* the requested symbols                                      *)
    Optional,   (* those whose request is not `required`                      *)
    Lookback,   (* requested_history_days                                     *)
    MaxWindow,  (* one_minute_max_duration_days                               *)
    LiveDays,   (* days in the live client's history_duration                 *)
    PerDay,     (* moments in a day                                           *)
    Latest,     (* bound: the last moment                                     *)
    Cut,        (* bound: where the bars of an optional symbol may end        *)
    Cause       (* why a fetch may fail                                       *)

ASSUME OptionalAssumption == Optional \subseteq Symbol
ASSUME SpanAssumption == Lookback \in Nat \ {0} /\ MaxWindow \in Nat \ {0}
ASSUME LiveAssumption == LiveDays \in Nat \ {0}
ASSUME LatestAssumption == PerDay \in Nat \ {0} /\ Latest \in Nat /\ Latest >= PerDay * Lookback
ASSUME CauseAssumption == Cause \subseteq {"pacing", "closed", "connectivity", "request"}

VARIABLES
    now,        (* the current moment                                         *)
    stop,       (* the stop token or predicate                                *)
    pc,         (* the backfill thread: off, fetch, retry, merge, done, died  *)
    begun,      (* the moment the running backfill planned its windows        *)
    missing,    (* the symbols it fetches                                     *)
    delay,      (* end_delay of the window in hand, negative after the last   *)
    received,   (* the moments of the batch received, per symbol              *)
    refused,    (* history: the symbols of which the backfill got less than   *)
                (* it asked for                                               *)
    cause,      (* the exception that ended the thread                        *)
    held,       (* history: the moments in memory, per symbol                 *)
    filed       (* the moments in the CSV cache, per symbol                   *)

backfill == <<begun, missing, delay, received, refused, cause>>
vars == <<now, stop, pc, backfill, held, filed>>

First == PerDay * Lookback
Moment == 1 .. Latest
None == "none"

ASSUME CutAssumption == Cut \subseteq 1 .. Latest + 1 /\ Latest + 1 \in Cut

\* The window of these days that ends `back` days before moment t.
Days(t, back, duration) ==
    {m \in Moment : t - PerDay * (back + duration) < m /\ m <= t - PerDay * back}

Nothing == [s \in Symbol |-> {}]

\* What a client may bring of a window for these symbols: all of it, but for an
\* optional symbol that is refused, before its first bar or amid its bars (Cut).
Batches(symbols, window) ==
    {[s \in Symbol |-> IF s \notin symbols THEN {}
                       ELSE IF s \in Optional THEN {m \in window : m < end[s]}
                       ELSE window] :
         end \in [Optional -> Cut]}

\* Mutation: the number of windows is rounded down.
OldestDelayShort(days) == (days \div MaxWindow - 1) * MaxWindow

\* plan_one_minute_day_windows: delays from the oldest down to 0.
OldestDelay(days) == ((days - 1) \div MaxWindow) * MaxWindow
Duration(days, back) == IF MaxWindow < days - back THEN MaxWindow ELSE days - back

\* symbols_missing_coverage looks at the oldest bar only.  No bar may be traded in
\* the first moment of a complete range.
MissingCoverage(moments, t) ==
    {{s \in Symbol : ~ \E m \in moments[s] : m <= first} :
         first \in {t - First, t - First + 1}}

\* The variables of the thread are gone: it ended, but for a backfill that is done,
\* of which they stay for CompleteAtOnce.
Forget ==
    /\ begun' = First
    /\ missing' = {}
    /\ delay' = 0
    /\ received' = Nothing
    /\ refused' = {}

\* What the thread retries by the text of the exception: pacing, or one of the
\* connection texts; 1100 and 1101, which fail the client, match none of them.
IsPacing(why) == why = "pacing"
IsConnectionInterruption(why) == why = "closed"

-----------------------------------------------------------------------------

\* Start of the process: the cache is loaded and the thread plans.
Start ==
    /\ pc = "off"
    /\ held' = filed
    /\ UNCHANGED stop
    /\ begun' = now
    /\ missing' \in MissingCoverage(filed, now)
    /\ delay' = OldestDelay(Lookback)
    /\ received' = Nothing
    /\ refused' = {}
    /\ cause' = None
    /\ pc' = IF missing' = {} THEN "done" ELSE "fetch"
    /\ UNCHANGED <<now, filed>>

\* fetch_historical_bars returns one window of the missing symbols.  It returns
\* normally also when the optional ones were refused, and the window counts as done.
Fetch ==
    /\ pc = "fetch" /\ ~stop
    /\ LET window == Days(now, delay, Duration(Lookback, delay))
       IN /\ received' \in Batches(missing, window)
          /\ refused' = refused \cup {s \in missing : received'[s] # window}
    /\ pc' = "merge"
    /\ UNCHANGED <<now, stop, begun, missing, delay, cause, held, filed>>

FetchFails(why) ==
    /\ pc = "fetch" /\ ~stop
    /\ IF IsPacing(why) \/ IsConnectionInterruption(why)
       THEN pc' = "retry" /\ UNCHANGED backfill
       ELSE pc' = "died" /\ cause' = why /\ Forget
    /\ UNCHANGED <<now, stop, held, filed>>

Retry ==
    /\ pc = "retry"
    /\ pc' = "fetch"
    /\ UNCHANGED <<now, stop, backfill, held, filed>>

\* Mutation: the loop over the windows does not end at the newest.
MergeEndlessly ==
    /\ pc = "merge" /\ ~stop
    /\ held' = [s \in Symbol |-> held[s] \cup received[s]]
    /\ received' = Nothing
    /\ delay' = delay - MaxWindow
    /\ filed' = held'
    /\ pc' = "fetch"
    /\ UNCHANGED <<now, stop, begun, missing, refused, cause>>

\* Under the history mutex: merge, sort, save.  A save that throws ends the
\* thread; what it merged stays in memory.
Merge ==
    /\ pc = "merge" /\ ~stop
    /\ held' = [s \in Symbol |-> held[s] \cup received[s]]
    /\ \/ /\ filed' = held'
          /\ received' = Nothing
          /\ delay' = delay - MaxWindow
          /\ pc' = IF delay' < 0 THEN "done" ELSE "fetch"
          /\ UNCHANGED <<begun, missing, refused, cause>>
       \/ /\ UNCHANGED filed
          /\ pc' = "died" /\ cause' = "save" /\ Forget
    /\ UNCHANGED <<now, stop>>

\* Mutation: the stop is seen after a fetch only.
StopThreadLate ==
    /\ stop
    /\ pc = "merge"
    /\ pc' = "done" /\ Forget
    /\ UNCHANGED <<now, stop, cause, held, filed>>

\* The thread sees the stop request before a fetch or before a merge, after a
\* fetch that may have returned early with part of the batch.
StopThread ==
    /\ stop
    /\ pc \in {"fetch", "merge", "retry"}
    /\ pc' = "done" /\ Forget
    /\ UNCHANGED <<now, stop, cause, held, filed>>

-----------------------------------------------------------------------------
(* The rest of the process, and the calendar.                              *)

\* The live client's handler merges the last days, which it asked for in the same way,
\* and saves with the history whatever the backfill has merged; it carries on when the
\* save fails.
LiveMerge ==
    /\ pc # "off" /\ ~stop
    /\ \E bars \in Batches(Symbol, Days(now, 0, LiveDays)) :
           held' = [s \in Symbol |-> held[s] \cup bars[s]]
    /\ filed' \in {filed, held'}
    /\ UNCHANGED <<now, stop, pc, backfill>>

RequestStop ==
    /\ pc # "off" /\ ~stop
    /\ stop' = TRUE
    /\ UNCHANGED <<now, pc, backfill, held, filed>>

\* The process ends, in order or killed.
End ==
    /\ pc # "off"
    /\ pc' = "off"
    /\ held' = Nothing
    /\ stop' = FALSE
    /\ Forget /\ cause' = None
    /\ UNCHANGED <<now, filed>>

NextMoment ==
    /\ now < Latest
    /\ now' = now + 1
    /\ UNCHANGED <<stop, pc, backfill, held, filed>>

-----------------------------------------------------------------------------

Init ==
    /\ now = First
    /\ stop = FALSE
    /\ pc = "off"
    /\ begun = First
    /\ missing = {}
    /\ delay = 0
    /\ received = Nothing
    /\ refused = {}
    /\ cause = None
    /\ held = Nothing
    /\ filed = Nothing

Thread == Fetch \/ Retry \/ Merge \/ StopThread \/ \E why \in Cause : FetchFails(why)

Next == Start \/ Thread \/ LiveMerge \/ RequestStop \/ End \/ NextMoment

\* The thread is scheduled, and its wait before a retry ends.
Spec == Init /\ [][Next]_vars /\ WF_vars(Thread)

-----------------------------------------------------------------------------
(* Properties.                                                             *)

\* Every variable keeps its type.
TypeOK ==
    /\ now \in First .. Latest
    /\ begun \in First .. Latest
    /\ stop \in BOOLEAN
    /\ pc \in {"off", "fetch", "retry", "merge", "done", "died"}
    /\ missing \subseteq Symbol
    /\ delay \in Int /\ delay >= -MaxWindow
    /\ received \in [Symbol -> SUBSET Moment]
    /\ refused \subseteq Optional
    /\ cause \in Cause \cup {None, "save"}
    /\ held \in [Symbol -> SUBSET Moment]
    /\ filed \in [Symbol -> SUBSET Moment]

Range(t) == Days(t, 0, Lookback)

\* A backfill that finishes at the moment it began leaves every symbol it found
\* missing with the whole range, whatever was retried and whatever the live
\* client merged and saved meanwhile: the planned windows leave nothing out.  Only
\* an optional symbol that was refused may lack something: such requests "may fail
\* without stopping the ETF monitor" (MarketDataSettings.hpp).
CompleteAtOnce ==
    (pc = "done" /\ ~stop /\ now = begun) =>
        /\ refused \subseteq Optional
        /\ \A s \in missing \ refused : Range(now) \subseteq held[s]

\* A stop request ends the thread, also while it waits to retry.
StopEndsThread == stop ~> (~stop \/ pc \in {"off", "done", "died"})

\* An interrupted connection does not end the thread: "They must not leave a
\* background backfill only partially populated" (IbkrErrorClassifier.hpp).
InterruptionsRetried == cause \notin {"closed", "connectivity"}

=============================================================================
