# daytrader: a TLA+ model, its checks and its proofs

`daytrader` watches ETFs through the official TWS C++ API: it keeps a one-minute
history, scans it on every completed bar, follows the user's positions and the
tick-by-tick order flow, records how the setups it announces turn out, and
backtests the same rules on historical bars and ticks. It sends no orders.

This directory models the parts whose behaviour depends on the order of things:
threads, callbacks, files, restarts, retries, time. Definitions are translated
from `src/src/...` (below, paths are relative to that directory) and
`PROJECT.json` names the lines each one stands for, the checks, the mutants of
every property, the hazards, the findings and the theorems.

## 1. The system

| Component (code) | State it keeps | Operations | Talks to |
|---|---|---|---|
| **Market-data client** `ibkr/TwsMarketDataClient.cpp`, `market_data/CompletedBarSynchronizer.cpp` | requests ended, bars per request, last published bar, first failure | connect, TWS callbacks, fetch, monitor, shutdown | TWS; calls the completed-bar handler from inside a callback |
| **Completed-bar handler and history** `monitoring/MarketMonitor.cpp:329-378`, `market_data/InstrumentBarsMerger.cpp`, `storage/MarketDataCsvStore.cpp` | minute history (under a mutex), latest scan, one CSV file per symbol | merge, scan, save, load | client, backfill (same history, same files), calibration, dashboard |
| **Backfill** `MarketMonitor.cpp:90-176`, `ibkr/HistoricalRequestPlanner.cpp`, `ibkr/IbkrErrorClassifier.cpp` | windows left, batch received | plan, fetch, retry, merge | a client connection of its own; the history |
| **Monitor threads** `MarketMonitor.cpp:183-399`, `live/LiveTradeContextStore.cpp`, `runtime/ShutdownSignal.cpp` | latest scan, latest live context, stop flag | handle, refresh every second, reconnect, stop, join | everything that runs |
| **Setup calibration** `analysis/SetupCalibrationEngine.cpp`, `storage/SetupOutcomeCsvStore.cpp` | records, active waves, CSV file | resolve, start, save, load | the handler's scan, the history |
| **Live enrichment** `analysis/LiveTradeContextEnricher.cpp` | none (pure) | a scan with a live context: prices, zones, flow, executions | handler and refresh thread |
| **Dashboard, keys and layout** `presentation/TerminalDashboard.cpp`, `TerminalKeyDecoder.cpp`, `ConsoleScanPrinter.cpp`, `analysis/RotationGrouper.cpp` | tab, page, decoder state, latest scan | start, keys, updates, resizes, paging, the log of a redirected output | refresh, main and input thread |
| **Live context** `ibkr/TwsLiveContextClient.cpp`, `live/PositionTracker.cpp` | positions with peak and giveback, four request maps, publish time | TWS callbacks, publish | TWS; writes the live-context store |
| **Trade classification** `live/LiveOrderFlowTracker.cpp`, `analysis/TradeClassifier.cpp` | latest quote, previous price, direction | quote, trade; classify two streams | live context; order-flow backtest |
| **Order flow** `analysis/OrderFlowAggregator.cpp`, `OrderFlowWindowAnalyzer.cpp`, `OrderFlowSignalAnalyzer.cpp` | none (pure) | buckets, windows, imbalance, pressure, score | live enrichment; order-flow backtest |
| **Tick history** `ibkr/TwsHistoricalTickClient.cpp`, `storage/OrderFlowTickCsvStore.cpp`, `backtest/OrderFlowBacktestRunner.cpp` | trades, quotes, page cursors, two CSV files per candidate | page backwards, normalise, cache, judge | TWS |
| **Backtester** `backtest/DayTradeBacktester.cpp` | position, pending entry and exit, armed flag | one step per bar | scanner, execution guidance |
| **Execution guidance** `analysis/LeveragedExecutionAnalyzer.cpp` | none | entry and holding decisions | backtester, live enrichment |
| **Backtest data runner** `backtest/IbkrBacktestRunner.cpp` | the history it loads | refresh or download the cache it shares with the monitor | client, files |
| **Bar resampling** `market_data/BarTimeframeTransformer.cpp`, `BarSeriesAligner.cpp` | none (pure) | trend bars out of minutes, aligned pairs | scanner, backtester |
| **Decision algorithms** `analysis/*.cpp`, `strategy/`, `indicators/` | none (pure) | rank, score, classify, average | monitor, backtester |
| **Configuration, universe, time, printers** | none | constants, calendar, formatting | everything |

Hard to test here, and the reason for each property, is the list `hazards` of
`PROJECT.json`, each at its line. In short:

* **Callbacks and the loop.** The message loops read the failure flag and the stop
  predicate only between two batches; late callbacks run after a failure.
* **Two writers.** The live handler and the backfill merge into one history and
  save one cache; four threads share a scan, a context, a screen and a stop flag.
* **Disk.** CSV caches are rewritten in place, the outcome file is replaced by a
  rename; each save may fail, and the process may die between two steps.
* **Time.** Bars arrive out of step with the clock, days go by between two windows
  of a backfill, a tick page may end inside a second.
* **Retries and reconnects.** Every connection is a new client; what lives in the
  client dies with it, what lives in the monitor does not.
* **Long protocols.** A setup wave over scans, restarts and failed saves; an order
  of the backtester over bars, stops and sessions; a key over reads.
* **The same thing twice.** What a live session computes in one way a backtest
  computes in another: trade sides, flow windows, trend bars. A scan is enriched by
  the handler and again every second; headings and rows have their own widths.

## 2. Modules

| Module | Models | State ↔ code | Run |
|---|---|---|---|
| `SetupCalibration` | the engine and its store; one action for `observe_and_enrich` (resolve, start, save), one for a restart | `records`, `active` ↔ members of `Impl`; `stored`, `readable` ↔ the file | `SetupCalibration`, `SetupStoreTorn` |
| `CalibrationLedger` | abstract: what a reader of the outcome file is promised | `ledger` ↔ the file | refined by the above |
| `MarketDataClient` | one client, in both modes | variables are the members, named in comments | `MonitorClient` |
| `MonitorHistory` | EXTENDS `MarketDataClient` with the handler the monitor passes to it: the step of a callback that hands over *is* the handler's step | `history`, `cache`, `scan` | `MonitorHistory`, `HistoryFinalBars` |
| `HistoryBackfill` | the backfill thread, with the live merge as its environment | moments, `PerDay` of them a day, in place of minutes; `held` ↔ the history, `filed` ↔ the files | `BackfillInterrupted` |
| `BacktestHistory` | EXTENDS `HistoryBackfill` with the backtest's data runner on the same cache | `runner` ↔ where `load_or_fetch_history` is; `missing`, `refreshing` ↔ its two symbol lists | `Backfill` |
| `LongOpportunity` | rank, zone, score, phase, decision, regime and candidate of an ETF, pure | | used by `Backtest`, `LiveEnrichment` |
| `LeveragedExecution` | execution guidance, pure | | used by `LongOpportunity` |
| `LiveEnrichment` | a scan with a live context, pure; EXTENDS `LongOpportunity` and `OrderFlow` | | used by `MarketMonitor` |
| `MarketMonitor` | the four threads as program counters; one action per critical section; what is on the screen is `Enrich` of what was read | `latest`, `context`, `shown` | `MonitorThreads` |
| `ConsoleLayout` | rows, pages and widths of the tables, pure | a page ↔ a sequence of lines; a cell ↔ its width | used by `TerminalDashboard` |
| `TerminalDashboard` | start and stop, rendering, tabs, pages, key bytes, the redirected log | members of `Impl`; `screen` ↔ what was last printed | `Dashboard` |
| `LiveContext` | the live client and the position tracker; each connection a new client | four request maps, positions, the published context | `LiveContext` |
| `TradeClassification` | live and historical classification, pure | | used by `OrderFlow` |
| `OrderFlow` | buckets, windows, imbalance, pressure and score, pure | percentages ↔ whole numbers | used by `TickHistory`, `LiveEnrichment` |
| `TickHistory` | one candidate's ticks: cache, paging, sort, windows, verdict | ticks are places on the tape; `answer` is what is still to come of a page, handed over in the order of the tape; `cursor`, `result` ↔ members; `cache` ↔ the two files | `TickHistory` |
| `BarSeries` | resampling, alignment, which trend bars a minute has, pure | a tape ↔ the minutes a symbol traded in | used by `Backtest` |
| `Backtest` | the loop over the bars, one step per bar | locals of `run` | `Backtest` |
| `SetupCalibrationProofs`, `MonitorHistoryProofs`, `BacktestHistoryProofs`, `MarketMonitorProofs`, `TerminalDashboardProofs`, `LiveContextProofs`, `TickHistoryProofs`, `BacktestProofs` | the theorems about the module of that name, and about those it extends | | |

The compositions are by EXTENDS: `MonitorHistory` on its client, `BacktestHistory` on
the monitor's backfill, `MarketMonitor` on the enrichment it displays, `Backtest` on
the opportunities a scan can yield, `TickHistory` on the flow it judges.

`MC*` modules only define constants a `.cfg` cannot write. Variables marked
*history* are read by properties and never by a guard.

A definition whose comment starts with *Mutation:* is not used by a
specification. It is the definition below it with a plausible bug, and the
property it is paired with in `PROJECT.json` fails when it takes its place.

## 3. What is checked

Bounds are small on purpose; each run says what its bounds still contain.

| Run | Question | Bounds, and why they are enough |
|---|---|---|
| `SetupCalibration` | Are samples never lost, overlapping or rewritten, in memory and on disk, whatever saves are refused and whenever the process restarts? Does the file implement the ledger? | one wave key (keys do not interact), five minutes, horizon 2: two full horizons and a sample in each; bars may appear late and change |
| `SetupStoreTorn` *(violation)* | A short write at the stream's last flush goes unnoticed and is renamed over the good file | as above, with torn saves |
| `MonitorClient` | Is the handler called once for each common completed bar? Does a fetch return only whole results, and does a stop or failure end a connection? | two synchronization symbols and an optional one, three minutes, every fault, reconnects; both modes |
| `MonitorHistory` | Does memory stay ahead of the files, and does every hand-over get its scan, over failing saves, failing scans, reconnects and restarts? | three symbols of which two are benchmarks (a scan is dated by them), three minutes |
| `HistoryFinalBars` *(violation)* | A merge may keep the in-progress version of a bar after the final one was handed over | as above |
| `Backfill` | Is a backfill that runs within one moment complete, but for optional symbols that TWS refused? Does a backtest get the whole range of what it downloads, and no new gap in what it refreshes, whatever a monitor left in the cache? | ten moments, two a day; windows of two days (not a divisor of the three looked back), a required symbol and an optional one, whose request may be refused before its bars, amid them (`Cut`) or not at all; failing saves and fetches; the required symbol's cache of every age, with and without gaps, longer and shorter than the range. Some two minutes and a million states; that a runner with both symbols in its cache downloads one and then refreshes the other is left to the proofs |
| `BackfillInterrupted` *(violation)* | A lost TWS connectivity ends the backfill thread for good | five moments, one a day |
| `MonitorThreads` | Does the dashboard settle on the newest scan and context, does nothing of an older context remain on it, and does a stop end every thread? | three scans, two contexts after the empty one: a refresh can be two scans behind; four kinds of row, quotes that come and go, flow that turns, a position whose profit is given back |
| `Dashboard` | Is the screen current, is the page one the layout has, do the pages show every row once under its headings, do they fit the terminal, and does each key do its action once, wherever reads are split? | every key kind but a lone Escape, which no pause ends in the decoder; three scans (all groups, fallen leaders, nothing strong), six sizes around the breaks of pages and layouts, a redirected output |
| `LiveContext` | Do the request maps, TWS's subscriptions and the positions agree? Is the peak that of the lot in hand? Are lots published at once? | one allowed contract and a foreign one, a long and a short lot, two requests of each kind: open, close, reopen |
| `TickHistory` | Does a verdict rest on every tick of the lookback, once and in order? Is it the one the live tracker reached on the same tape? Do buckets and windows add up alike, and are buyers and sellers treated alike? Does a fetch end? | every tape of up to four ticks in three seconds (trades between quotes that buy and sell, a trade without a size, one past the limits, one unreported, a crossed quote, a quote without a size), pages of one tick: pages end everywhere, and a pagination that stops short fails. Some two minutes |
| `Backtest` | Do orders never outlive what they were decided for, are stops honoured on every bar, does one READY wave fill once? Is the market regime no veto, and does a minute use exactly the trend bars a live scan has? | four bar shapes (quiet, run-up, dip, gap), every opportunity of some 21,000 evidences (signs of the averages and changes, known and unknown horizons, crossings, sessions), four zones; traces of any length, since only finite state is kept; every pair of tapes of five minutes |

Each property has a mutant of the code that violates it.

### Findings

1. `storage/SetupOutcomeCsvStore.cpp:212`: the stream is tested before its last
   flush, so a full disk can replace the outcome file by a short one.
2. `market_data/InstrumentBarsMerger.cpp:61`: the sort is not stable and `unique`
   keeps the first of two equal minutes: an earlier version of a bar may win.
3. `ibkr/IbkrErrorClassifier.cpp:48`: errors 1100 and 1101 fail the client with a
   text that no retried pattern matches; the backfill thread ends, where the
   header says it must not be left partially populated.

More disagreements were met that have no run of their own:

* `analysis/LiveTradeContextEnricher.cpp:147`: the order flow is required for SOXX and
  QQQ only, where `README.md:34` says that a leveraged entry reaches READY only when
  the signal ETF's order flow agrees.
* `monitoring/MarketMonitor.cpp:372`: the refresh thread enriches a scan that the
  handler has enriched already, so a zone whose symbol has lost its quote (a reconnect
  empties the context) stays judged at the old live price. `EnrichedAnew` names the
  exception.
* `monitoring/MarketMonitor.cpp:150`: VIX is requested with `required=false`
  (`universe/EtfUniverse.cpp:117`), so a request of it that TWS refuses ends normally
  (`ibkr/TwsMarketDataClient.cpp:261`) with the bars that came before the refusal, or
  none. The backfill merges the batch, counts the window as done and does not ask for it
  again. The next process does so only if the first bar of the symbol is too young: a
  window refused between two that were answered leaves a gap that no backfill repairs.
  `CompleteAtOnce` names the exception; that a *required* symbol is never among the
  refused is part of it.
* `presentation/ConsoleScanPrinter.cpp:320` (and 334, 375, 389, 428, 447): the heading
  `entry state` has eleven characters and is printed with `setw(10)`. In the regular and
  the comfortable layouts the headings to its right stand one column right of their
  cells, and the header is one column wider than the rows (`Shift` in `FitsTerminal`).
* `presentation/ConsoleScanPrinter.cpp:255`: the comfortable sector table is chosen from
  165 columns on; its rows are 166 wide and its header 167. At 165 columns the last letter
  of a twelve-letter action is cut, at 165 and 166 the end of the last heading
  (`RowsTooWide`, `HeaderTooWide`).
* `ibkr/TwsLiveContextClient.cpp:295` and `ibkr/TwsHistoricalTickClient.cpp:138`: the live
  client drops unreported prints and quotes with an unset size, and keeps prints past the
  limits; the tick client drops the prints past the limits and keeps the others. Where
  such ticks are in the window, the backtest's pressure need not be the one a live signal
  was decided on. `AgreesWithLive` is about windows of which both keep the same trades;
  without that premise, or the one about quotes, TLC finds it violated.
* `live/LiveOrderFlowTracker.cpp:126` and `backtest/OrderFlowBacktestRunner.cpp:229`: a live
  window counts both its ends and is one second longer than the backtest's of the same
  name. `AgreesWithLive` is about tapes without a tick in that second; with one, the two
  may differ.
* `presentation/TerminalDashboard.cpp:298`: the row kept spare so that the screen
  does not scroll is not there below seven rows, and the market and trade tabs are
  not paged at all.

Buyers and sellers are alike (`BuyersLikeSellers`) with two exceptions, which the
property names: a trade at the price of a locked quote (bid = ask) counts as bought,
because the ask is compared first (`TradeClassifier.cpp:71`, `LiveOrderFlowTracker.cpp:77`),
and with `balanced_delta_ratio_percent` = 0, which is allowed, a pressure of 0 counts as
selling (`OrderFlowSignalAnalyzer.cpp:209`).

Among the hazards without a property are more facts a maintainer should know: the
peak of a position is forgotten at every reconnect; a tick cache that was cut
short passes for complete; the tracker of the order flow keeps every tick of its
connection and copies them into each snapshot (`live/LiveOrderFlowTracker.cpp:117`); a
save of the calibration that failed is not retried before the next change; windows of a
backfill that are requested at different moments leave gaps as wide as the time between them.

### Fairness

Only what the code's scheduling gives:

* `MarketDataClient`: weak fairness of leaving the loop and of the next connection.
  The reader's signal times out every 250 ms, so the condition is read again
  whatever TWS does. No callback is assumed to come.
* `HistoryBackfill`, `MarketMonitor`: weak fairness of each thread. Their waits are
  bounded (`wait_before_retry`, one second) or end with a stop.
* `TickHistory`: the answers of TWS to an outstanding request, and leaving the loop.
  `fetch` has no timeout, so its end does depend on TWS.
* `SetupCalibration`, `MonitorHistory`, `LiveContext`, `Backtest`, `TerminalDashboard`
  state safety only.
* `BacktestHistory` keeps the fairness of the backfill thread and adds none: a pacing
  error of a backtest is retried for ever.

`CHECK_DEADLOCK FALSE` is used where the process may stop or a bound ends the run.

### Assumptions about what is outside

* TWS answers with pages of whole seconds, the newest ticks up to the cursor, at
  least as many as asked for. If a page could end inside a second, the one-second
  step of the cursor would skip ticks.
* TWS sends any messages in any order, including late ones about requests that
  were cancelled, and it may refuse each request.
* Ticks are inside regular trading hours; a trend bar compared with a live scan is one
  whose minutes have all been received.
* A process killed during a write leaves a prefix of the file; a rename is atomic.
* The epochs of scans do not fall across restarts (the local clock is not set back).

## 4. What is proved

TLC explores the instances of section 3. The theorems below hold for every value of
the constants: any number of symbols, contracts, scans, minutes and ticks, any
horizon, lookback, window, page size and price. A theorem `T` about an invariant `I`
reads `Spec => []I`. Each module has one inductive invariant and one lemma per action;
what the invariant adds to the properties, and why, is the content of the proof.

### `SetupCalibrationProofs`

`TypeCorrect`; `SamplesDisjoint` (`Disjoint`: no wave key ever has two pending samples,
or two whose horizons overlap, in memory or in the file); `MemoryComplete`
(`MemoryCoversDisk`: memory holds every sample of the file, at least as far resolved);
`OutcomesStayFrozen` (`OutcomesFrozen`); `LedgerImplemented` (the file implements
`CalibrationLedger`).

The invariants are not inductive by themselves. `CalibrationInv` is: it adds
`SeenScanned`, that no record is from after the latest scan. The guard of
`start_new_waves` looks for records in `[t - horizon, t]` only, so a record from the
future would let a second one in. `MemoryCoversDisk` is needed for the others, because a
restart replaces memory by the file, which may be older: the samples that were lost had
not been promised, and those that were promised are in memory when the next save
overwrites the file. One scan is followed through `ResolveKeeps`,
`ResolvePendingPreserves`, `StartNewWavesPreserves` and `ObserveInv`. That outcomes
stay frozen needs `ResolvedWithin` as well. The refinement is a step simulation: a scan
whose save succeeds is a commit of the ledger, everything else a stutter.

### `MonitorHistoryProofs`

About the client, with callbacks in any order: `ClientTypeCorrect`;
`NormalReturnMeansData` (`NormalReturn`); `HandlerOncePerCommonBar` (the action property
`OncePerCommonBar`). The last needs to know, between two callbacks, that the only common
minute above the published one is one that every symbol still shows in progress
(`PublishedSoFar`), and that only the newest bar of a symbol is in progress
(`BarsInOrder`); without either a callback might pass a minute over.

About the handler on top of it: `MemoryComplete` (`MemoryCoversCache`) and
`HandOversScanned` (`ScanCoversHandOver`). `MergeCovers` says that a merge drops no bar,
whichever of two equal minutes it keeps, and `SaveCovered` that a save which fails
after any number of files leaves bars in them that memory has.

### `BacktestHistoryProofs`

The planner first: its windows tile the days asked for, whatever the length of the
range and of a window (`PlanStarts`, `PlanContinues`). From that `BackfillComplete`
(`CompleteAtOnce`), with the invariant that what lies before the current window has
been merged, for every symbol of which nothing was refused, as long as the moment has not
changed (`WindowsMerged`), that only optional symbols are refused, wherever TWS cuts them
(`Cut`), and that no bar is from the future (`Past`).

The runner on the same cache: `BackfillCompleteBetween` and `BacktestIsCovered`
(`BacktestCovered`). Here the difficult part is a refresh: `WaitsForRefresh` says that
what was whole before the download waits for the refresh unchanged, and that the one
window the refresh asks for is as long as the oldest of it needs, or the longest there
is; `WindowsDownloaded` says of a download what `WindowsMerged` says of a backfill, and
`OneAtATime` that the backfill thread is off while the runner works. `BackfillTypeCorrect` and
`CacheTypeCorrect` are the types.

### `MarketMonitorProofs`

`ScreenEnrichedAnew` (`EnrichedAnew`) is a theorem about the pure `Enrich` for any scan
and any two contexts: a second enrichment gives what the first would have given with
the second context, but for a zone whose symbol has lost its quote, which the property
names. `ScansNeverOlder` (the shared scan is never replaced by an older one) needs
`ScansInOrder`, which relates the scans that the handler's thread carries from one
critical section to the next with the one that is shared. `EndsAfterItsThreads` says
that `run` ends only after its threads; its invariant `Joined` follows the three joins.
The last two have no run: they hold for any number of scans and reconnects.

### `TerminalDashboardProofs`

`ScreenStaysCurrent` (`ScreenCurrent`): the screen shows what is in hand. The invariant
adds that nothing was shown, and no key read, before the output was found to be a
terminal (`KeysOfTerminal`).

`KeysAreDecoded` (`KeysDecoded`): `KeysInv` says where in the bytes of the pressed key
the reader is, in which states the decoder may be there, and that the key has acted if
and only if its bytes are at an end. The theorem has a hypothesis, `Unambiguous`: if a
lone Escape is among the keys, no arrow and no `[` is. The decoder keeps the Escape
until the next byte comes, however long that takes, and takes `ESC [` for the start of a
sequence; that is the code's behaviour, not a convenience of the proof, and the run
leaves the lone Escape out for the same reason.

The layout is proved first, for any rankings and any room: `RanksInOrder` (the rows of a
group are those of its signal, sorted), `PagesHoldTheRows` (the pages hold every row once
and in order, none is empty or longer than there is room, every row is under its headings)
and `LogOnOnePage`. The invariant of the loop over the rows is `Laid`: no page is too long
or has a row without its headings, and only the last may be empty. From these and `PagesInv`, which says that the page count
in hand is that of the latest rendering, follow `TypesHold` (`TypeOK`, with the page within
the count), `PagesStayPartitioned` (`PagesPartitionRows`) and `FitsStays` (`FitsTerminal`):
the columns of every layout are added up for headings and rows, compared with each other
(`Shift` apart) and with the narrowest window the layout is chosen for.

### `LiveContextProofs`

`TypeCorrect`, `RequestsCorrect` (`RequestsMatchPositions`), `PeakCorrect`
(`PeakOfThisLot`), `PublishedCorrect` (`LotsPublished`). One invariant,
`LiveContextInv`: a request number not yet given out is free and has no ticks
(`RequestsFresh`), so that a late message of a refused or cancelled request cannot meet
a new contract; and the peak, the profit and the giveback of every lot are made of the
profits seen since it was opened (`MarksOfLots`), which a position message of another
lot resets and one of the same lot does not. A late `pnlSingle` that was sent for the lot
before counts as one of the new lot, in the model as in the code: the message does not
say which lot it means.

### `TickHistoryProofs`

`TypeCorrect` and `VerdictOnAllTicks` (`JudgedOnAllTicks`): whatever the tape, the page
size and the lookback, wherever the parts of a page are cut, over failures, retries and
reruns from the cache, a verdict rests on every kept tick of the lookback, each once and
in the order of the tape.

While a stream is read, `Paging` holds: the ticks received and those of the page still to
come are together exactly the kept ticks later than the cursor or in its page, and
within one second the ticks received go before those to come. `PageIsAnEnd` (a page
holds whole seconds and the end of what it is cut from) gives `NextPageAdjoins`: all
kept ticks from the earliest received on are there, so that the next cursor, one second
earlier, leaves nothing out, and a stream whose earliest tick has reached the lookback
has all of it. Pages come newest first; `NormalizedSorts` says that the stable sort by
second turns such a stream into tape order, by `Places`: in a finite total order the
number of smaller members gives every member a place of its own. `EvidenceInv`
carries this through the result, the files and the evidence. A stream may be empty, which
ends its paging without a look at the lookback; `JudgedOnTicks` shows that the verdict is
then "insufficient". The theorem is about caches that were not cut short (`intact`); one
that was is hazard `storage/OrderFlowTickCsvStore.cpp:146`.

`VerdictAgreesWithLive` (`AgreesWithLive`) starts from `EvidenceInv`. For the sides:
`LiveFinds` and `ClassifyFinds` say of the two classifiers, by induction over a tape, that
each trade was compared with the latest ordered quote before it, and with the latest
quote up to its second; `SameSides` that under `Comparable` these are one quote, in reach
for both or for neither. For the pressure: `SamePicks` says that two sequences which hold
the same ticks in the same order are the same after picking, whatever their places are,
`WindowTrades` and `WindowQuotes` that the evidence and the tape are such sequences from
the start of the window on, the quote that leads into it among them, and `SameFlow` that
the flows are then one.
The two clients keep different ticks: `HeardTrade` and `HeardQuote` are the live filter,
`Kept` the historical one. The theorem's premises are that they agree on the trades of
the window and that the live client keeps the quotes; `TradesHeard` and `QuotesHeard` make
the windows of the same ticks from them. That the backtest's windows are complete is
`EnoughInv`: a verdict other than "insufficient" needs it.

`FlowsAddUp` (`BucketsAddUp`), on any tape and for any interval: `EventsOfWindow` is the
step, that the pairs a bucket makes with the last quote before it, wherever that is, are
the neighbours in the window's series.

`SidesTreatedAlike` (`BuyersLikeSellers`): every operator from the ticks to the score has
its lemma of what it does to the mirrored input (`OnTickMirrored`, `OfiMirrored`,
`VolumesMirrored`, `ChangeMirrored`, `MicropriceMirrored`, `PercentNegated`,
`ScoreMirrored`): signs are turned, shares, counts and the quality stay. `AssessMirrored`
is where the positive threshold is needed, `SideMirrored` where it is used that no quote
is locked.

### `BacktestProofs`

`TypeCorrect`, `OrdersNeverStale` (`NoStaleOrders`), `WavesFillOnce` (`OneFillPerWave`),
`StopsAlwaysHonoured` (`StopsHonoured`). `BacktestInv` adds that a wave which has been
filled keeps the entry disarmed (`WaveDisarmed`), that a position is on a bar
(`HeldOnBar`), and that a position whose momentum faded twice has its exit pending
(`FadedLeaves`), which bounds the count. `RegimeHasNoVeto` (`RegimeIsNoVeto`) is a
theorem about the decision for every evidence: it needs no step, but the cases of rank,
zone, score and phase.

`NeverLooksAhead` (`NoLookAhead`) is one about the trend bars of any two tapes. A cut of
the tape at a minute resamples to a front of the whole (`FrontOfTape`): later bars touch
no bucket but the last of the cut, and not that one once its last minute has passed, in
which case the two are equal. What the backtester has appended is the front of the
buckets that have ended (`AppendedIsCut`), and the alignment drops from the live bars
exactly the bucket that has not (`AlignFront`), so `ReplayedIsLive`.

### Recursive functions

Pages, widths, resampled bars, aligned pairs, classified sides and sums are recursive
functions of the number of elements taken so far. Their proofs share four lemmas:
`LeastOf` (a set of numbers that is not empty has a least one, from the well-foundedness
of the natural numbers), `Inductively` (a set of numbers that has 0 and with each its
successor has all: the scheme of induction as a statement about sets, since one about
predicates cannot be instantiated), `Computed` (the recursive definition has the values
its equations say) and, built on them, one lemma `...By` per function. The induction of
a proof is then over the set of the numbers for which the invariant of the loop holds.
They are repeated in the modules that need them, which extend different components.

### What the theorems assume

* `None`, an empty optional, is none of the values it may stand beside
  (`NoneAssumption`, `EmptyAssumption`, `CandidateAssumption`, `ZoneAssumption` of
  `LiveEnrichment`), nor `Unset` a profit, nor `Free` a contract. In the code these are
  `std::optional` and absent map entries, never values.
* Constants that stand for data have the type of the data: bars have a low and a high
  around open and close, averages and changes have signs, scan rows and quotes have
  the fields of their structs, ticks lie in the seconds of the tape; optional symbols, and those the backtest
  finds in the cache, are symbols, and an answer is cut at some moment or not at all
  (`OptionalAssumption`, `CachedAssumption`, `CutAssumption`). An ATR is positive
  where there is one (`Backtest.ZoneAssumption`): a zone without one is not built.
* Sizes are what the configuration constants make them: horizons, intervals, windows,
  page sizes and lengths at least 1, a lookback not longer than the time there is.
* `OutcomesStayFrozen` and `LedgerImplemented` assume that `"torn"` is not a result of a
  save. It is one in the code, which is finding 1 and the run `SetupStoreTorn`.
* `KeysAreDecoded` assumes `Unambiguous`, see above.
* The ranks of a scan have different changes (`ScansAssumption`): the order of equal ones
  is left to `std::sort`.
* `Absent`, an empty ratio, is no number (`AbsentAssumption`). A tick has the fields of a
  trade or of a quote, whose sizes are not negative (`TickAssumption`): both clients raise
  a negative size to 0. The short window is shorter than the long one, and that shorter
  than the lookback, as 30 < 60 < 300 are (`SpanAssumption`). Trend bars are at least two
  minutes long, as `resample_bars` demands (`TapeAssumption`).

TLC evaluates each assumption on a constant in the runs that instantiate it.

### What stays with TLC

* Liveness under fairness: `FetchEnds`, that the dashboard settles, that threads end, that
  backfills and connections end.
* That a system that goes on for ever never blocks: the deadlock check of its run.
* The violations of section 3, which are counterexamples.

## 5. What is not modelled

* The indicators, averages and volumes: they reach the models as signs and classes,
  chosen freely where a threshold reads them.
* Configuration, argument parsing, the universe of symbols and the calendar.
* The wording of cells, of the market and trade tabs and of the reports; the
  terminal's modes; the costs and sums of the backtest report and the displayed
  estimates of the calibration, which nothing reads back.
* The choice of the candidates of the order-flow backtest: one stands for all.

In the models that exist prices are versions or small integers, percentages are whole
numbers rounded toward zero (the code's are doubles; the properties compare a
computation with another one of the same model), the skew of a microprice is its sign,
and one symbol stands for those that
do not interact.

## 6. What is left

Every invariant and every action property that a run checks has its theorem; only the
liveness properties have none. What a reader may still miss:

* *More abstract specifications*: the published live context as one atomic register of
  positions; a classification independent of paging for `TickHistory`, of which
  `VerdictOnAllTicks` and `VerdictAgreesWithLive` are the two halves.
* *Hazards without a property* (see `PROJECT.json`): age of a live price, the peak over a
  reconnect, a cache that was cut short. Of the peak the code says that it is measured
  "from the time this process first observes" the lot
  (`include/daytrader/domain/LiveTradeContext.hpp:38`), and the tracker that observes it
  is made anew with each connection; about the other two it promises nothing that a
  property could state.
* *Not modelled*: what section 5 names.
