-------------------------- MODULE BacktestHistory --------------------------
(***************************************************************************)
(* The history a backtest runs on (IbkrBacktestRunner.cpp): the CSV cache, *)
(* with symbols whose range is not there downloaded in windows and others  *)
(* refreshed with their latest days.  It shares the cache with the monitor *)
(* (HistoryBackfill), which has the same TWS client id: one of them runs   *)
(* at a time.  held is the memory of the process that runs.                *)
(***************************************************************************)
EXTENDS HistoryBackfill

CONSTANTS
    Cached,         (* cached_symbols, those a backtest needs, each required  *)
    BacktestDays,   (* the calendar_days a backtest may be run for            *)
    RecentDays      (* recent_refresh_days                                    *)

ASSUME CachedAssumption == Cached \subseteq Symbol
ASSUME BacktestAssumption ==
    BacktestDays \subseteq Nat \ {0} /\ RecentDays \in 1 .. MaxWindow

VARIABLES
    runner,     (* off, full, refresh, ready, failed                          *)
    days,       (* calendar_days                                              *)
    refreshing, (* refresh_symbols                                            *)
    whole       (* history: the symbols loaded without a gap that a refresh,  *)
                (* if one is needed, reaches back to                          *)

backtest == <<runner, days, refreshing, whole>>
allVars == <<vars, backtest>>

-----------------------------------------------------------------------------

Newest(moments) == CHOOSE m \in moments : \A o \in moments : o <= m
Oldest(moments) == CHOOSE m \in moments : \A o \in moments : m <= o
Gapless(moments) == moments = Oldest(moments) .. Newest(moments)

\* newest_age_days: whole days.
AgeDays(moments, t) == (t - Newest(moments)) \div PerDay

HasHistoricalStart(moments, first) == \E m \in moments : m <= first

\* Whole days are compared: bars that are up to a day older than the longest window
\* are refreshed with that window.
RefreshReaches(moments, t) ==
    AgeDays(moments, t) = MaxWindow => t - Newest(moments) = PerDay * MaxWindow

\* Mutation: the days asked for are the whole days that are missing.
RefreshDaysShort(ages) ==
    LET wanted == {RecentDays} \cup {IF a > MaxWindow THEN MaxWindow ELSE a : a \in ages}
    IN Newest(wanted)

\* refresh_duration_days, for the whole batch.
RefreshDays(ages) ==
    LET wanted == {RecentDays} \cup {IF a + 2 > MaxWindow THEN MaxWindow ELSE a + 2 : a \in ages}
    IN Newest(wanted)

\* load_or_fetch_history looks at the front and the back of every file, and at
\* the time of the last save of it, which any save of the history renews.
LoadHistory(n) ==
    /\ pc = "off" /\ runner = "off"
    /\ held' = [s \in Symbol |-> IF s \in Cached THEN filed[s] ELSE {}]
    /\ days' = n
    /\ begun' = now
    /\ \E first \in {now - PerDay * n, now - PerDay * n + 1}, recent \in SUBSET Cached :
          LET full == {s \in Cached : \/ ~HasHistoricalStart(filed[s], first)
                                      \/ AgeDays(filed[s], now) > MaxWindow}
              old == {s \in Cached \ full : AgeDays(filed[s], now) > RecentDays \/ s \notin recent}
          IN /\ missing' = full
             /\ refreshing' = old
             /\ delay' = IF full # {} THEN OldestDelay(n)
                         ELSE RefreshDays({AgeDays(filed[s], now) : s \in old})
             /\ runner' = IF full # {} THEN "full" ELSE IF old # {} THEN "refresh" ELSE "ready"
    /\ whole' = {s \in Cached : filed[s] # {} /\ Gapless(filed[s]) /\ RefreshReaches(filed[s], now)}
    /\ UNCHANGED <<now, stop, pc, received, refused, cause, filed>>

\* merge_instrument_bars
Merged(symbols, moments) ==
    [s \in Symbol |-> IF s \in symbols THEN held[s] \cup moments ELSE held[s]]

\* store.save writes the files of the symbols the backtest has.
Save(saved, history) ==
    filed' = [s \in Symbol |-> IF s \in saved THEN history[s] ELSE filed[s]]

\* The fetch fails, or store.save throws, which may be before the file of any symbol.
SaveFails(history) == \E saved \in SUBSET Cached \ {Cached} : Save(saved, history)

\* fetch_history: one window after the other, the oldest first, each saved.  A
\* pacing error is retried without end; another one, or a failed save, is fatal.
FetchWindow ==
    /\ runner = "full"
    /\ LET history == Merged(missing, Days(now, delay, Duration(days, delay)))
           next == delay - MaxWindow
       IN \/ /\ held' = history /\ Save(Cached, history)
             /\ IF next >= 0 THEN runner' = "full" /\ delay' = next
                ELSE /\ runner' = IF refreshing # {} THEN "refresh" ELSE "ready"
                     /\ delay' = RefreshDays({AgeDays(held[s], begun) : s \in refreshing})
          \/ /\ runner' = "failed"
             /\ SaveFails(history)
             /\ UNCHANGED <<held, delay>>
    /\ UNCHANGED <<now, stop, pc, begun, missing, received, refused, cause, days, refreshing, whole>>

\* refresh_recent_history: when it fails, the history stays as it was loaded.
Refresh ==
    /\ runner = "refresh"
    /\ LET history == Merged(refreshing, Days(now, 0, delay))
       IN \/ held' = history /\ Save(Cached, history)
          \/ UNCHANGED held /\ SaveFails(history)
    /\ runner' = "ready"
    /\ UNCHANGED <<now, stop, pc, begun, missing, delay, received, refused, cause, days, refreshing, whole>>

\* The backtest has run, or the process was ended on the way.
Finish ==
    /\ runner # "off"
    /\ runner' = "off"
    /\ held' = Nothing
    /\ Forget /\ cause' = None
    /\ days' = Lookback /\ refreshing' = {} /\ whole' = {}
    /\ UNCHANGED <<now, stop, pc, filed>>

-----------------------------------------------------------------------------

BacktestInit ==
    /\ Init
    /\ runner = "off"
    /\ days = Lookback
    /\ refreshing = {}
    /\ whole = {}

Monitor == runner = "off" /\ (Start \/ Thread \/ LiveMerge \/ RequestStop \/ End)
Backtest == (\E n \in BacktestDays : LoadHistory(n)) \/ FetchWindow \/ Refresh \/ Finish

BacktestNext == Backtest \/ ((Monitor \/ NextMoment) /\ UNCHANGED backtest)

BacktestSpec == BacktestInit /\ [][BacktestNext]_allVars /\ WF_allVars(Thread /\ UNCHANGED backtest)

-----------------------------------------------------------------------------
(* Properties.                                                             *)

BacktestTypeOK ==
    /\ runner \in {"off", "full", "refresh", "ready", "failed"}
    /\ days \in BacktestDays \cup {Lookback}
    /\ refreshing \subseteq Cached /\ whole \subseteq Cached

\* A backtest that is given its history at the moment it asked for it has the whole
\* range of every symbol it downloaded, and for the others no gap that the cache did
\* not have: "A stale-but-complete cache is still useful" (IbkrBacktestRunner.cpp).
\* The exception, RefreshReaches, is a cache the longest window old to the day.
BacktestCovered ==
    (runner = "ready" /\ now = begun) =>
        /\ \A s \in missing : Days(now, 0, days) \subseteq held[s]
        /\ \A s \in whole \ missing : Gapless(held[s])

=============================================================================
