------------------------ MODULE MarketMonitorProofs ------------------------
(***************************************************************************)
(* Proofs about MarketMonitor and LiveEnrichment: enriching a scan a       *)
(* second time leaves nothing of the first one on the screen, scans are    *)
(* never overtaken by older ones, and the run ends after its threads.      *)
(***************************************************************************)
EXTENDS MarketMonitor, TLAPS

-----------------------------------------------------------------------------
(* Enriching a row.                                                        *)

Price == {None} \cup Int

LEMMA LivePriceType ==
    ASSUME NEW c \in 0 .. LastContext, NEW symbol
    PROVE  LivePrice(ContextContent(c), symbol) \in Price
BY PriceAssumption DEF LivePrice, Price

LEMMA ApplyLivePriceType ==
    ASSUME NEW zone \in {None} \cup Zone, NEW price \in Price
    PROVE  /\ ApplyLivePrice(zone, price) \in {None} \cup Zone
           /\ zone = None <=> ApplyLivePrice(zone, price) = None
           /\ zone # None => /\ ApplyLivePrice(zone, price).lower = zone.lower
                             /\ ApplyLivePrice(zone, price).upper = zone.upper
                             /\ ApplyLivePrice(zone, price).atr = zone.atr
<1>1. CASE zone = None \/ price = None
  BY <1>1 DEF ApplyLivePrice
<1>2. CASE zone \in Zone /\ price \in Int /\ zone # None /\ price # None
  <2>1. ApplyLivePrice(zone, price)
          = [zone EXCEPT !.price = price, !.state = ZoneState(price, zone.lower, zone.upper)]
    BY <1>2 DEF ApplyLivePrice
  <2>2. ZoneState(price, zone.lower, zone.upper) \in {"extended", "below_zone", "in_zone"}
    BY DEF ZoneState
  <2>3. ApplyLivePrice(zone, price) \in Zone
    BY <1>2, <2>1, <2>2 DEF Zone
  <2>4. /\ ApplyLivePrice(zone, price).lower = zone.lower
        /\ ApplyLivePrice(zone, price).upper = zone.upper
        /\ ApplyLivePrice(zone, price).atr = zone.atr
    BY <1>2, <2>1 DEF Zone
  <2>5. QED
    BY <1>2, <2>3, <2>4, ZoneAssumption
<1>3. QED
  BY <1>1, <1>2 DEF Price

LEMMA ZoneRepriced ==
    ASSUME NEW z \in Zone, NEW price, NEW state
    PROVE  [z EXCEPT !.price = price, !.state = state]
             = [lower |-> z.lower, upper |-> z.upper, price |-> price, atr |-> z.atr, state |-> state]
<1> DEFINE t == [z EXCEPT !.price = price]
<1>1. z = [lower |-> z.lower, upper |-> z.upper, price |-> z.price, atr |-> z.atr, state |-> z.state]
  BY DEF Zone
<1>2. t = [lower |-> z.lower, upper |-> z.upper, price |-> price, atr |-> z.atr, state |-> z.state]
  BY <1>1
<1>3. [z EXCEPT !.price = price, !.state = state] = [t EXCEPT !.state = state]
  OBVIOUS
<1> HIDE DEF t
<1>4. [t EXCEPT !.state = state]
        = [lower |-> z.lower, upper |-> z.upper, price |-> price, atr |-> z.atr, state |-> state]
  BY <1>2
<1>5. QED
  BY <1>3, <1>4

\* A zone judged at a price does not remember an earlier one.
LEMMA ZoneJudgedAnew ==
    ASSUME NEW zone \in {None} \cup Zone, NEW old \in Price, NEW price \in Int, price # None
    PROVE  ApplyLivePrice(ApplyLivePrice(zone, old), price) = ApplyLivePrice(zone, price)
<1> DEFINE once == ApplyLivePrice(zone, old)
<1>1. /\ once \in {None} \cup Zone
      /\ zone = None <=> once = None
      /\ zone # None => once.lower = zone.lower /\ once.upper = zone.upper /\ once.atr = zone.atr
  BY ApplyLivePriceType
<1> HIDE DEF once
<1>2. CASE zone = None
  BY <1>1, <1>2 DEF ApplyLivePrice
<1>3. CASE zone # None
  <2> DEFINE state == ZoneState(price, zone.lower, zone.upper)
  <2>1. once \in Zone /\ zone \in Zone
    BY <1>1, <1>3
  <2>2. ZoneState(price, once.lower, once.upper) = state
    BY <1>1, <1>3
  <2> HIDE DEF state
  <2>3. ApplyLivePrice(once, price) = [once EXCEPT !.price = price, !.state = state]
    BY <1>1, <1>3, <2>2 DEF ApplyLivePrice
  <2>4. ApplyLivePrice(zone, price) = [zone EXCEPT !.price = price, !.state = state]
    BY <1>3 DEF ApplyLivePrice, state
  <2>5. [once EXCEPT !.price = price, !.state = state] = [zone EXCEPT !.price = price, !.state = state]
    <3>1. once.lower = zone.lower /\ once.upper = zone.upper /\ once.atr = zone.atr
      BY <1>1, <1>3
    <3>2. [once EXCEPT !.price = price, !.state = state]
            = [lower |-> once.lower, upper |-> once.upper, price |-> price, atr |-> once.atr,
               state |-> state]
      BY <2>1, ZoneRepriced, Zenon
    <3>3. [zone EXCEPT !.price = price, !.state = state]
            = [lower |-> zone.lower, upper |-> zone.upper, price |-> price, atr |-> zone.atr,
               state |-> state]
      BY <2>1, ZoneRepriced, Zenon
    <3>4. QED
      BY <3>1, <3>2, <3>3, Zenon
  <2>6. QED
    BY <2>3, <2>4, <2>5 DEF once
<1>4. QED
  BY <1>2, <1>3

\* What of a row an enrichment replaces, and what it keeps.
LEMMA RowEnriched ==
    ASSUME NEW row, NEW now, NEW signal,
           row = [leveraged |-> row.leveraged, atr |-> row.atr, zone |-> row.zone,
                  leveragedZone |-> row.leveragedZone, live |-> row.live,
                  opportunity |-> row.opportunity, execution |-> row.execution]
    PROVE  LET zone == ApplyLivePrice(row.leveragedZone, LivePrice(now, row.leveraged))
           IN EnrichedRow(row, now, signal) =
              [leveraged |-> row.leveraged, atr |-> row.atr,
               zone |-> ApplyLivePrice(row.zone, LivePrice(now, signal)),
               leveragedZone |-> IF row.leveraged = None THEN row.leveragedZone ELSE zone,
               live |-> LivePrice(now, signal),
               opportunity |-> row.opportunity,
               execution |-> IF row.leveraged = None THEN row.execution
                             ELSE Analyze(row.opportunity, zone, FlowFor(row, now, signal),
                                          Position(now, row.leveraged), signal \in FlowSignal)]
BY DEF EnrichedRow

\* The flow is judged against the ATR of the scan, which no enrichment changes.
LEMMA FlowOfAtr ==
    ASSUME NEW row, NEW other, row.atr = other.atr, NEW now, NEW signal
    PROVE  FlowFor(row, now, signal) = FlowFor(other, now, signal)
BY DEF FlowFor

\* The fields of a row, of which the first three are never replaced.
Rebuilt(row) ==
    row = [leveraged |-> row.leveraged, atr |-> row.atr, zone |-> row.zone,
           leveragedZone |-> row.leveragedZone, live |-> row.live,
           opportunity |-> row.opportunity, execution |-> row.execution]

\* What the enriched row shows, field by field.
Shows(new, row, now, signal) ==
    /\ new.leveraged = row.leveraged /\ new.atr = row.atr /\ new.opportunity = row.opportunity
    /\ new.live = LivePrice(now, signal)
    /\ new.zone = ApplyLivePrice(row.zone, LivePrice(now, signal))
    /\ row.leveraged = None => /\ new.leveragedZone = row.leveragedZone
                               /\ new.execution = row.execution
    /\ row.leveraged # None =>
           /\ new.leveragedZone = ApplyLivePrice(row.leveragedZone, LivePrice(now, row.leveraged))
           /\ new.execution =
                  [entry |-> ExecutionEntry(SignalGate(row.opportunity), new.leveragedZone,
                                            FlowFor(row, now, signal), signal \in FlowSignal),
                   held |-> ProtectedGuidance(row.opportunity.held, Position(now, row.leveraged))]

LEMMA FieldsEnriched ==
    ASSUME NEW row, NEW now, NEW signal, Rebuilt(row)
    PROVE  /\ Rebuilt(EnrichedRow(row, now, signal))
           /\ Shows(EnrichedRow(row, now, signal), row, now, signal)
<1> DEFINE zone == ApplyLivePrice(row.leveragedZone, LivePrice(now, row.leveraged))
           execution == Analyze(row.opportunity, zone, FlowFor(row, now, signal),
                                Position(now, row.leveraged), signal \in FlowSignal)
           outlook == ApplyLivePrice(row.zone, LivePrice(now, signal))
           live == LivePrice(now, signal)
<1> DEFINE new == EnrichedRow(row, now, signal)
<1>1. new = [leveraged |-> row.leveraged, atr |-> row.atr, zone |-> outlook,
             leveragedZone |-> IF row.leveraged = None THEN row.leveragedZone ELSE zone,
             live |-> live, opportunity |-> row.opportunity,
             execution |-> IF row.leveraged = None THEN row.execution ELSE execution]
  BY RowEnriched DEF Rebuilt
<1>2. execution
        = [entry |-> ExecutionEntry(SignalGate(row.opportunity), zone, FlowFor(row, now, signal),
                                    signal \in FlowSignal),
           held |-> ProtectedGuidance(row.opportunity.held, Position(now, row.leveraged))]
  BY DEF Analyze
<1> HIDE DEF zone, execution, outlook, live, new
<1>3. Rebuilt(new)
  BY <1>1 DEF Rebuilt
<1>4. /\ new.leveraged = row.leveraged /\ new.atr = row.atr /\ new.opportunity = row.opportunity
      /\ new.live = live /\ new.zone = outlook
      /\ row.leveraged = None => new.leveragedZone = row.leveragedZone /\ new.execution = row.execution
      /\ row.leveraged # None => new.leveragedZone = zone /\ new.execution = execution
  BY <1>1
<1>5. Shows(new, row, now, signal)
  BY <1>2, <1>4 DEF zone, outlook, live, Shows
<1>6. QED
  BY <1>3, <1>5 DEF new

\* Enriched with one context and then with another, a row shows the other one, but for a
\* zone whose symbol is not quoted any more.
LEMMA RowAnew ==
    ASSUME NEW row \in Row, NEW signal, NEW seen \in 0 .. LastContext, NEW c \in 0 .. LastContext,
           NEW once, once = EnrichedRow(row, ContextContent(seen), signal),
           NEW screen, screen = EnrichedRow(once, ContextContent(c), signal),
           NEW fresh, fresh = EnrichedRow(row, ContextContent(c), signal)
    PROVE  /\ screen.leveraged = row.leveraged
           /\ screen.live = fresh.live
           /\ screen.execution.held = fresh.execution.held
           /\ LivePrice(ContextContent(c), signal) # None => screen.zone = fresh.zone
           /\ LivePrice(ContextContent(c), row.leveraged) # None =>
                  /\ screen.leveragedZone = fresh.leveragedZone
                  /\ screen.execution = fresh.execution
<1> DEFINE old == ContextContent(seen)
           new == ContextContent(c)
<1>1. /\ Rebuilt(row) /\ row.zone \in {None} \cup Zone /\ row.leveragedZone \in {None} \cup Zone
  BY DEF Row, Rebuilt
<1>2. \A symbol : LivePrice(old, symbol) \in Price /\ LivePrice(new, symbol) \in Price
  BY LivePriceType
<1>0. /\ once = EnrichedRow(row, old, signal)
      /\ screen = EnrichedRow(once, new, signal)
      /\ fresh = EnrichedRow(row, new, signal)
  OBVIOUS
<1> HIDE DEF old, new
<1>3. Shows(once, row, old, signal) /\ Rebuilt(once)
  BY <1>0, <1>1, FieldsEnriched
<1>4. Shows(screen, once, new, signal)
  BY <1>0, <1>3, FieldsEnriched
<1>5. Shows(fresh, row, new, signal)
  BY <1>0, <1>1, FieldsEnriched
<1>6. screen.leveraged = row.leveraged /\ screen.live = fresh.live
  BY <1>3, <1>4, <1>5 DEF Shows
<1>7. screen.execution.held = fresh.execution.held
  <2>1. CASE row.leveraged = None
    BY <1>3, <1>4, <1>5, <2>1 DEF Shows
  <2>2. CASE row.leveraged # None
    <3>1. once.opportunity = row.opportunity /\ once.leveraged = row.leveraged
      BY <1>3 DEF Shows
    <3>2. screen.execution.held
            = ProtectedGuidance(once.opportunity.held, Position(new, once.leveraged))
      BY <1>4, <2>2, <3>1 DEF Shows
    <3>3. fresh.execution.held
            = ProtectedGuidance(row.opportunity.held, Position(new, row.leveraged))
      BY <1>5, <2>2 DEF Shows
    <3>4. QED
      BY <3>1, <3>2, <3>3
  <2>3. QED
    BY <2>1, <2>2
<1>8. ASSUME LivePrice(new, signal) # None PROVE screen.zone = fresh.zone
  <2>1. LivePrice(new, signal) \in Int /\ LivePrice(old, signal) \in Price
    BY <1>2, <1>8 DEF Price
  <2>2. ApplyLivePrice(ApplyLivePrice(row.zone, LivePrice(old, signal)), LivePrice(new, signal))
          = ApplyLivePrice(row.zone, LivePrice(new, signal))
    BY <1>1, <1>8, <2>1, ZoneJudgedAnew
  <2>3. QED
    BY <1>3, <1>4, <1>5, <2>2 DEF Shows
<1>9. ASSUME LivePrice(new, row.leveraged) # None
      PROVE  screen.leveragedZone = fresh.leveragedZone /\ screen.execution = fresh.execution
  <2>1. CASE row.leveraged = None
    BY <1>3, <1>4, <1>5, <2>1 DEF Shows
  <2>2. CASE row.leveraged # None
    <3>1. LivePrice(new, row.leveraged) \in Int /\ LivePrice(old, row.leveraged) \in Price
      BY <1>2, <1>9 DEF Price
    <3>2. ApplyLivePrice(ApplyLivePrice(row.leveragedZone, LivePrice(old, row.leveraged)),
                         LivePrice(new, row.leveraged))
            = ApplyLivePrice(row.leveragedZone, LivePrice(new, row.leveraged))
      BY <1>1, <1>9, <3>1, ZoneJudgedAnew
    <3>3. screen.leveragedZone = fresh.leveragedZone
      BY <1>3, <1>4, <1>5, <2>2, <3>2 DEF Shows
    <3>4. once.opportunity = row.opportunity /\ once.leveraged = row.leveraged /\ once.atr = row.atr
      BY <1>3 DEF Shows
    <3>5. FlowFor(once, new, signal) = FlowFor(row, new, signal)
      BY <3>4, FlowOfAtr
    <3>6. QED
      BY <1>4, <1>5, <2>2, <3>3, <3>4, <3>5 DEF Shows
  <2>3. QED
    BY <2>1, <2>2
<1>10. QED
  BY <1>6, <1>7, <1>8, <1>9 DEF new

-----------------------------------------------------------------------------
(* The invariant: the scan that is shared is the last one that was shown,  *)
(* until the handler has a newer one.                                      *)

ScansInOrder ==
    /\ mainPc \notin {"share", "show"} => latest.scan = lastScan
    /\ mainPc = "share" => latest.scan = lastScan /\ mainScan.scan > lastScan
    /\ mainPc = "show" => latest = mainScan /\ mainScan.scan > lastScan

\* The main thread joins the others in this order.
Joined ==
    /\ mainPc \in {"join refresh", "join live", "done"} => stop /\ backfillPc = "done"
    /\ mainPc \in {"join live", "done"} => refreshPc = "done"
    /\ mainPc = "done" => livePc = "done"
    /\ mainPc = "join backfill" => stop

MonitorInv == TypeOK /\ ScansInOrder /\ Joined

LEMMA ViewType ==
    /\ NoView \in View
    /\ \A n \in 0 .. LastScan, s \in 0 .. LastContext, c \in 0 .. LastContext :
          [scan |-> n, seen |-> s, context |-> c] \in View
    /\ \A v \in View : v.scan \in 0 .. LastScan /\ v.seen \in 0 .. LastContext
                       /\ v.context \in 0 .. LastContext
BY ScanAssumption, ContextAssumption DEF NoView, View

LEMMA ScanType ==
    ASSUME TypeOK
    PROVE  /\ lastScan \in Int /\ latest.scan \in Int /\ mainScan.scan \in Int
           /\ mainScan.scan \in 0 .. LastScan
<1>1. latest \in View /\ mainScan \in View /\ lastScan \in 0 .. LastScan
  BY DEF TypeOK
<1>2. \A n \in 0 .. LastScan : n \in Int
  OBVIOUS
<1>3. latest.scan \in 0 .. LastScan /\ mainScan.scan \in 0 .. LastScan
  BY <1>1, ViewType
<1>4. QED
  BY <1>1, <1>2, <1>3

LEMMA InitInv == Init => MonitorInv
<1> SUFFICES ASSUME Init PROVE MonitorInv
  OBVIOUS
<1>1. TypeOK
  <2>1. 0 \in 0 .. LastScan /\ 0 \in 0 .. LastContext
    BY ScanAssumption, ContextAssumption
  <2>2. NoView \in View
    BY ViewType
  <2>3. QED
    BY <2>1, <2>2 DEF Init, TypeOK
<1>2. ScansInOrder /\ Joined
  BY DEF Init, ScansInOrder, Joined, NoView
<1>3. QED
  BY <1>1, <1>2 DEF MonitorInv

\* A step of the main thread.
LEMMA MainInv ==
    ASSUME MonitorInv, Main \/ LoseConnection \/ \E n \in Scan : HandleScan(n)
    PROVE  MonitorInv' /\ lastScan' >= lastScan /\ latest'.scan >= latest.scan
<1>1. TypeOK /\ ScansInOrder /\ Joined
  BY DEF MonitorInv
<1>2. lastScan \in Int /\ latest.scan \in Int /\ mainScan.scan \in 0 .. LastScan /\ mainScan.scan \in Int
  BY <1>1, ScanType
<1>3. ASSUME NEW n \in Scan, HandleScan(n)
      PROVE  MonitorInv' /\ UNCHANGED <<lastScan, latest>>
  <2>1. /\ mainPc = "monitor" /\ UNCHANGED <<lastScan, latest>>
        /\ UNCHANGED <<stop, refreshPc, livePc, backfillPc, context, latest, lastScan, copy, shown>>
        /\ \/ n > lastScan /\ mainPc' = "share"
              /\ mainScan' = [scan |-> n, seen |-> context, context |-> context]
           \/ UNCHANGED <<mainScan, mainPc>>
    BY <1>3 DEF HandleScan
  <2>2. mainScan' \in View
    BY <1>1, <2>1, ViewType, ScanAssumption DEF TypeOK, Scan
  <2>3. TypeOK' /\ Joined'
    BY <1>1, <2>1, <2>2 DEF TypeOK, Joined
  <2>4. ScansInOrder'
    BY <1>1, <2>1 DEF ScansInOrder
  <2>5. QED
    BY <2>1, <2>3, <2>4 DEF MonitorInv
<1>4. CASE ShareScan
  <2>1. /\ mainPc = "share" /\ mainPc' = "show" /\ latest' = mainScan
        /\ UNCHANGED <<stop, refreshPc, livePc, backfillPc, context, lastScan, mainScan, copy, shown>>
    BY <1>4 DEF ShareScan
  <2>2. TypeOK' /\ ScansInOrder' /\ Joined'
    BY <1>1, <2>1 DEF TypeOK, ScansInOrder, Joined
  <2>3. latest'.scan >= latest.scan /\ lastScan' >= lastScan
    BY <1>1, <1>2, <2>1 DEF ScansInOrder
  <2>4. QED
    BY <2>2, <2>3 DEF MonitorInv
<1>5. CASE ShowScan
  <2>1. /\ mainPc = "show" /\ mainPc' = "monitor" /\ shown' = mainScan /\ lastScan' = mainScan.scan
        /\ UNCHANGED <<stop, refreshPc, livePc, backfillPc, context, latest, mainScan, copy>>
    BY <1>5 DEF ShowScan
  <2>2. TypeOK' /\ ScansInOrder' /\ Joined'
    BY <1>1, <1>2, <2>1 DEF TypeOK, ScansInOrder, Joined
  <2>3. latest'.scan >= latest.scan /\ lastScan' >= lastScan
    BY <1>1, <1>2, <2>1 DEF ScansInOrder
  <2>4. QED
    BY <2>2, <2>3 DEF MonitorInv
<1>6. CASE LoseConnection \/ Reconnect
  <2>1. UNCHANGED <<stop, refreshPc, livePc, backfillPc, context, latest, lastScan, mainScan, copy, shown>>
        /\ mainPc \in {"monitor", "retry"} /\ mainPc' \in {"monitor", "retry"}
    BY <1>6 DEF LoseConnection, Reconnect
  <2>2. TypeOK' /\ ScansInOrder' /\ Joined'
    BY <1>1, <2>1 DEF TypeOK, ScansInOrder, Joined
  <2>3. QED
    BY <1>2, <2>1, <2>2 DEF MonitorInv
<1>7. CASE Shutdown
  <2>1. /\ UNCHANGED <<stop, refreshPc, livePc, backfillPc, context, latest, lastScan, mainScan, copy, shown>>
        /\ \/ mainPc \in {"monitor", "retry"} /\ stop /\ mainPc' = "join backfill"
           \/ mainPc = "join backfill" /\ backfillPc = "done" /\ mainPc' = "join refresh"
           \/ mainPc = "join refresh" /\ refreshPc = "done" /\ mainPc' = "join live"
           \/ mainPc = "join live" /\ livePc = "done" /\ mainPc' = "done"
    BY <1>7 DEF Shutdown
  <2>2. TypeOK'
    BY <1>1, <2>1 DEF TypeOK
  <2>3. ScansInOrder'
    BY <1>1, <2>1 DEF ScansInOrder
  <2>4. Joined'
    BY <1>1, <2>1 DEF Joined
  <2>5. UNCHANGED <<lastScan, latest>>
    BY <2>1
  <2>6. QED
    BY <1>2, <2>2, <2>3, <2>4, <2>5 DEF MonitorInv
<1>8. QED
  BY <1>2, <1>3, <1>4, <1>5, <1>6, <1>7 DEF Main

\* A step of another thread; once a thread is done it stays so.
LEMMA OthersInv ==
    ASSUME MonitorInv,
           Refresh \/ LivePublishes \/ LiveLosesConnection \/ LiveContinues \/ BackfillEnds
           \/ RequestStop \/ UNCHANGED vars
    PROVE  MonitorInv' /\ UNCHANGED <<lastScan, latest>>
<1>1. TypeOK /\ ScansInOrder /\ Joined
  BY DEF MonitorInv
<1>2. CASE RefreshReads
  <2>1. /\ refreshPc = "read" /\ refreshPc' \in {"done", "sleep", "enrich"} /\ copy' \in {copy, latest}
        /\ UNCHANGED <<stop, mainPc, livePc, backfillPc, context, latest, lastScan, mainScan, shown>>
    BY <1>2 DEF RefreshReads
  <2>2. TypeOK' /\ ScansInOrder' /\ Joined'
    <3>1. TypeOK'
      BY <1>1, <2>1 DEF TypeOK
    <3>2. ScansInOrder'
      BY <1>1, <2>1 DEF ScansInOrder
    <3>3. Joined'
      BY <1>1, <2>1 DEF Joined
    <3>4. QED
      BY <3>1, <3>2, <3>3
  <2>3. QED
    BY <2>1, <2>2 DEF MonitorInv
<1>3. CASE RefreshEnriches
  <2>1. /\ refreshPc = "enrich" /\ refreshPc' = "show"
        /\ copy' = [scan |-> copy.scan, seen |-> copy.seen, context |-> context]
        /\ UNCHANGED <<stop, mainPc, livePc, backfillPc, context, latest, lastScan, mainScan, shown>>
    BY <1>3 DEF RefreshEnriches
  <2>2. copy' \in View
    BY <1>1, <2>1, ViewType DEF TypeOK
  <2>3. TypeOK' /\ ScansInOrder' /\ Joined'
    <3>1. TypeOK'
      BY <1>1, <2>1, <2>2 DEF TypeOK
    <3>2. ScansInOrder'
      BY <1>1, <2>1, <2>2 DEF ScansInOrder
    <3>3. Joined'
      BY <1>1, <2>1, <2>2 DEF Joined
    <3>4. QED
      BY <3>1, <3>2, <3>3
  <2>4. QED
    BY <2>1, <2>3 DEF MonitorInv
<1>4. CASE RefreshShows \/ RefreshWakes
  <2>1. /\ refreshPc \in {"show", "sleep"} /\ refreshPc' \in {"sleep", "read"} /\ shown' \in {shown, copy}
        /\ UNCHANGED <<stop, mainPc, livePc, backfillPc, context, latest, lastScan, mainScan, copy>>
    BY <1>4 DEF RefreshShows, RefreshWakes
  <2>2. TypeOK' /\ ScansInOrder' /\ Joined'
    <3>1. TypeOK'
      BY <1>1, <2>1 DEF TypeOK
    <3>2. ScansInOrder'
      BY <1>1, <2>1 DEF ScansInOrder
    <3>3. Joined'
      BY <1>1, <2>1 DEF Joined
    <3>4. QED
      BY <3>1, <3>2, <3>3
  <2>3. QED
    BY <2>1, <2>2 DEF MonitorInv
<1>5. CASE LivePublishes
  <2>1. /\ context' = context + 1 /\ context < LastContext
        /\ UNCHANGED <<stop, mainPc, refreshPc, livePc, backfillPc, latest, lastScan, mainScan, copy, shown>>
    BY <1>5 DEF LivePublishes, threads
  <2>2. context' \in 0 .. LastContext
    <3>1. context \in 0 .. LastContext
      BY <1>1 DEF TypeOK
    <3>2. QED
      BY <2>1, <3>1, ContextAssumption
  <2>3. TypeOK' /\ ScansInOrder' /\ Joined'
    <3>1. TypeOK'
      BY <1>1, <2>1, <2>2 DEF TypeOK
    <3>2. ScansInOrder'
      BY <1>1, <2>1, <2>2 DEF ScansInOrder
    <3>3. Joined'
      BY <1>1, <2>1, <2>2 DEF Joined
    <3>4. QED
      BY <3>1, <3>2, <3>3
  <2>4. QED
    BY <2>1, <2>3 DEF MonitorInv
<1>6. CASE LiveLosesConnection \/ LiveContinues
  <2>1. /\ livePc \in {"monitor", "retry"} /\ livePc' \in {"monitor", "retry", "done"}
        /\ UNCHANGED <<stop, mainPc, refreshPc, backfillPc, context, latest, lastScan, mainScan, copy, shown>>
    BY <1>6 DEF LiveLosesConnection, LiveContinues
  <2>2. TypeOK' /\ ScansInOrder' /\ Joined'
    <3>1. TypeOK'
      BY <1>1, <2>1 DEF TypeOK
    <3>2. ScansInOrder'
      BY <1>1, <2>1 DEF ScansInOrder
    <3>3. Joined'
      BY <1>1, <2>1 DEF Joined
    <3>4. QED
      BY <3>1, <3>2, <3>3
  <2>3. QED
    BY <2>1, <2>2 DEF MonitorInv
<1>7. CASE BackfillEnds
  <2>1. /\ backfillPc' = "done"
        /\ UNCHANGED <<stop, mainPc, refreshPc, livePc, context, latest, lastScan, mainScan, copy, shown>>
    BY <1>7 DEF BackfillEnds
  <2>2. TypeOK' /\ ScansInOrder' /\ Joined'
    <3>1. TypeOK'
      BY <1>1, <2>1 DEF TypeOK
    <3>2. ScansInOrder'
      BY <1>1, <2>1 DEF ScansInOrder
    <3>3. Joined'
      BY <1>1, <2>1 DEF Joined
    <3>4. QED
      BY <3>1, <3>2, <3>3
  <2>3. QED
    BY <2>1, <2>2 DEF MonitorInv
<1>8. CASE RequestStop
  <2>1. /\ stop' = TRUE
        /\ UNCHANGED <<mainPc, refreshPc, livePc, backfillPc, context, latest, lastScan, mainScan, copy, shown>>
    BY <1>8 DEF RequestStop, threads
  <2>2. TypeOK' /\ ScansInOrder' /\ Joined'
    <3>1. TypeOK'
      BY <1>1, <2>1 DEF TypeOK
    <3>2. ScansInOrder'
      BY <1>1, <2>1 DEF ScansInOrder
    <3>3. Joined'
      BY <1>1, <2>1 DEF Joined
    <3>4. QED
      BY <3>1, <3>2, <3>3
  <2>3. QED
    BY <2>1, <2>2 DEF MonitorInv
<1>9. CASE UNCHANGED vars
  <2>1. UNCHANGED <<stop, mainPc, refreshPc, livePc, backfillPc, context, latest, lastScan,
                    mainScan, copy, shown>>
    BY <1>9 DEF vars, threads
  <2>2. TypeOK' /\ ScansInOrder' /\ Joined'
    <3>1. TypeOK'
      BY <1>1, <2>1 DEF TypeOK
    <3>2. ScansInOrder'
      BY <1>1, <2>1 DEF ScansInOrder
    <3>3. Joined'
      BY <1>1, <2>1 DEF Joined
    <3>4. QED
      BY <3>1, <3>2, <3>3
  <2>3. QED
    BY <2>1, <2>2 DEF MonitorInv
<1>10. QED
  BY <1>2, <1>3, <1>4, <1>5, <1>6, <1>7, <1>8, <1>9 DEF Refresh

LEMMA NextInv ==
    MonitorInv /\ [Next]_vars => MonitorInv' /\ lastScan' >= lastScan /\ latest'.scan >= latest.scan
<1> SUFFICES ASSUME MonitorInv, [Next]_vars
             PROVE  MonitorInv' /\ lastScan' >= lastScan /\ latest'.scan >= latest.scan
  OBVIOUS
<1>1. lastScan \in Int /\ latest.scan \in Int
  BY ScanType DEF MonitorInv
<1>2. QED
  BY <1>1, MainInv, OthersInv DEF Next

-----------------------------------------------------------------------------
(* The theorems.                                                           *)

\* Type correctness of the threads and what they share, for any number of scans and
\* contexts, whatever they hold.
THEOREM TypeCorrect == Spec => []TypeOK
<1>1. MonitorInv => TypeOK
  BY DEF MonitorInv
<1>2. QED
  BY <1>1, InitInv, NextInv, PTL DEF Spec

\* What is on the screen is the scan and the context shown with it, and nothing of the
\* context that the handler had, but for a zone whose symbol has lost its quote: for any
\* content of the scans and the contexts.
THEOREM ScreenEnrichedAnew == Spec => []EnrichedAnew
<1>1. MonitorInv => EnrichedAnew
  <2> SUFFICES ASSUME MonitorInv, shown.scan # 0 PROVE EnrichedAnew
    BY DEF EnrichedAnew
  <2> DEFINE S == ScanContent(shown.scan)
             old == ContextContent(shown.seen)
             new == ContextContent(shown.context)
  <2>1. /\ shown \in Shown /\ shown.scan \in 1 .. LastScan
        /\ shown.seen \in 0 .. LastContext /\ shown.context \in 0 .. LastContext
    <3>1. shown \in View
      BY DEF MonitorInv, TypeOK
    <3>2. \A n \in 0 .. LastScan : n # 0 => n \in 1 .. LastScan
      BY ScanAssumption
    <3>3. QED
      BY <3>1, <3>2, ViewType DEF Shown
  <2>2. \A signal \in DOMAIN S : S[signal] \in Row
    BY <2>1, ContentAssumption
  <2>3. Contents[shown] = Enrich(Enrich(S, old), new) /\ EnrichedOnce[shown] = Enrich(S, new)
    BY <2>1 DEF Contents, EnrichedOnce
  <2> HIDE DEF S
  <2>4. /\ DOMAIN Contents[shown] = DOMAIN S
        /\ \A signal \in DOMAIN S :
              /\ Contents[shown][signal] = EnrichedRow(EnrichedRow(S[signal], old, signal), new, signal)
              /\ EnrichedOnce[shown][signal] = EnrichedRow(S[signal], new, signal)
    BY <2>3 DEF Enrich
  <2>5. ASSUME NEW signal \in DOMAIN Contents[shown]
        PROVE  LET row == Contents[shown][signal]
                   fresh == EnrichedOnce[shown][signal]
               IN /\ row.live = fresh.live
                  /\ row.execution.held = fresh.execution.held
                  /\ LivePrice(new, signal) # None => row.zone = fresh.zone
                  /\ LivePrice(new, row.leveraged) # None =>
                         row.leveragedZone = fresh.leveragedZone /\ row.execution = fresh.execution
    <3> DEFINE scanned == S[signal]
               once == EnrichedRow(scanned, old, signal)
               row == EnrichedRow(once, new, signal)
               fresh == EnrichedRow(scanned, new, signal)
    <3>1. scanned \in Row /\ Contents[shown][signal] = row /\ EnrichedOnce[shown][signal] = fresh
      BY <2>2, <2>4, <2>5
    <3>2. /\ row.leveraged = scanned.leveraged
          /\ row.live = fresh.live
          /\ row.execution.held = fresh.execution.held
          /\ LivePrice(new, signal) # None => row.zone = fresh.zone
          /\ LivePrice(new, scanned.leveraged) # None =>
                 row.leveragedZone = fresh.leveragedZone /\ row.execution = fresh.execution
      <4> HIDE DEF scanned, once, row, fresh
      <4>1. /\ once = EnrichedRow(scanned, ContextContent(shown.seen), signal)
            /\ row = EnrichedRow(once, ContextContent(shown.context), signal)
            /\ fresh = EnrichedRow(scanned, ContextContent(shown.context), signal)
        BY DEF once, row, fresh
      <4>2. QED
        BY <2>1, <3>1, <4>1, RowAnew
    <3> HIDE DEF scanned, once, row, fresh
    <3>3. QED
      BY <3>1, <3>2
  <2>6. QED
    BY <2>5 DEF EnrichedAnew
<1>2. QED
  BY <1>1, InitInv, NextInv, PTL DEF Spec

\* The scan that the threads share is never replaced by an older one, whatever the order
\* in which the handler is called and however often the client reconnects.
THEOREM ScansNeverOlder ==
    Spec => [][lastScan' >= lastScan /\ latest'.scan >= latest.scan]_<<lastScan, latest>>
<1>1. MonitorInv /\ [Next]_vars =>
          [lastScan' >= lastScan /\ latest'.scan >= latest.scan]_<<lastScan, latest>>
  BY NextInv
<1>2. QED
  BY <1>1, InitInv, NextInv, PTL DEF Spec

\* The run is over when a stop was requested and every thread has ended, so that nobody
\* updates the dashboard that is stopped, or what the threads refer to.
THEOREM EndsAfterItsThreads ==
    Spec => [](mainPc = "done" =>
                   stop /\ backfillPc = "done" /\ refreshPc = "done" /\ livePc = "done")
<1>1. MonitorInv => (mainPc = "done" =>
                         stop /\ backfillPc = "done" /\ refreshPc = "done" /\ livePc = "done")
  BY DEF MonitorInv, Joined
<1>2. QED
  BY <1>1, InitInv, NextInv, PTL DEF Spec

=============================================================================
