---------------------------- MODULE LiveContext ----------------------------
(***************************************************************************)
(* The live-context client (TwsLiveContextClient.cpp) and its position     *)
(* tracker (PositionTracker.cpp): positions, the profit-and-loss and       *)
(* Level-1 subscriptions opened for each, the peak of the unrealized       *)
(* profit, and the contexts published to the monitor.                      *)
(*                                                                         *)
(* TWS sends positions, profits and ticks in any order, also late ones     *)
(* about a subscription that was cancelled.  Every connection is a new     *)
(* client.  The order-flow trackers are in TradeClassification.            *)
(***************************************************************************)
EXTENDS Integers, FiniteSets, FiniteSetsExt

CONSTANTS
    Contract,       (* contracts of the account                               *)
    Allowed,        (* stocks among the day-trade position symbols            *)
    Lot,            (* open positions: quantity and average cost              *)
    Price,          (* prices of a tick                                       *)
    Field,          (* tick fields: "mark", "last", "bid", "ask"              *)
    Profit,         (* unrealized profits a pnlSingle may report              *)
    Unset,          (* an empty optional                                      *)
    LastRequest     (* bound: requests 1 .. LastRequest of each kind          *)

ASSUME AllowedAssumption == Allowed \subseteq Contract
ASSUME LotAssumption == Lot \subseteq [quantity : Int \ {0}, cost : Int]
ASSUME PriceAssumption == Price \subseteq Nat \ {0}
ASSUME FieldAssumption == Field \subseteq {"mark", "last", "bid", "ask"}
ASSUME ProfitAssumption == Profit \subseteq Int
ASSUME UnsetAssumption == Unset \notin Int
ASSUME RequestAssumption == LastRequest \in Nat \ {0}

VARIABLES
    connected,  (* a client is connected                                      *)
    started,    (* requests_started_                                          *)
    failed,     (* failed_                                                    *)
    ready,      (* positions_ready_                                           *)
    positions,  (* PositionTracker::positions_                                *)
    pnlOf,      (* position_to_pnl_request_, 0 when there is none             *)
    pnlRequests,    (* pnl_requests_: the contract of a request               *)
    marketOf,   (* position_to_market_request_, 0 when there is none          *)
    marketRequests, (* market_requests_: its contract and the ticks received  *)
    nextPnl,    (* next_pnl_request_id_                                       *)
    nextMarket, (* next_position_market_request_id_                           *)
    served,     (* the subscriptions TWS has open for this connection         *)
    throttled,  (* the last publication is less than 250 ms old               *)
    published,  (* the latest context of the store                            *)
    seen        (* history: the profits computed for the lot in hand          *)

requests == <<pnlOf, pnlRequests, marketOf, marketRequests, nextPnl, nextMarket, served>>
vars == <<connected, started, failed, ready, positions, requests, throttled, published, seen>>

Id == 1 .. LastRequest
Free == "free"
ASSUME ContractAssumption == Free \notin Contract
NoTicks == [f \in Field |-> Unset]
FreeRequest == [contract |-> Free, ticks |-> NoTicks]
NoPosition == [quantity |-> 0, cost |-> 0, unrealized |-> Unset, peak |-> Unset,
               giveback |-> Unset]
Opened(lot) == [quantity |-> lot.quantity, cost |-> lot.cost, unrealized |-> Unset,
                peak |-> Unset, giveback |-> Unset]
Held(c) == positions[c].quantity # 0
SameLot(p, lot) == p.quantity = lot.quantity /\ p.cost = lot.cost
LotOf(p) == [quantity |-> p.quantity, cost |-> p.cost]

-----------------------------------------------------------------------------
(* PositionTracker.                                                        *)

\* Mutations: the message is taken for a change of the position; the changed lot
\* keeps its marks.
UpdatePositionAdding(p, lot) == [Opened(lot) EXCEPT !.quantity = p.quantity + lot.quantity]
UpdatePositionMarked(p, lot) == [p EXCEPT !.quantity = lot.quantity, !.cost = lot.cost]

\* A changed lot loses its marks, its peak and its giveback.
UpdatePosition(p, lot) == IF SameLot(p, lot) THEN p ELSE Opened(lot)

\* The peak and the giveback that go with a new unrealized profit.  The
\* giveback stays as it was while the peak is no profit.
Marked(p, unrealized) ==
    LET peak == IF p.peak = Unset \/ unrealized > p.peak THEN unrealized ELSE p.peak
    IN [p EXCEPT !.unrealized = unrealized, !.peak = peak,
                 !.giveback = IF peak > 0 THEN peak - unrealized ELSE @]

\* update_pnl: TWS may report no profit, and the peak stays.
UpdatePnl(p, unrealized) ==
    IF unrealized = Unset THEN [p EXCEPT !.unrealized = Unset] ELSE Marked(p, unrealized)

UpdateMarketPrice(p, price) == Marked(p, (price - p.cost) * p.quantity)

\* The price of a subscription: mark, then last, then the midpoint or a side.
Has(ticks, f) == f \in Field /\ ticks[f] # Unset
Selected(ticks) ==
    IF Has(ticks, "mark") THEN ticks["mark"]
    ELSE IF Has(ticks, "last") THEN ticks["last"]
    ELSE IF Has(ticks, "bid") /\ Has(ticks, "ask") THEN (ticks["bid"] + ticks["ask"]) \div 2
    ELSE IF Has(ticks, "bid") THEN ticks["bid"] ELSE ticks["ask"]

-----------------------------------------------------------------------------

\* publish: unforced contexts are dropped within 250 ms of the latest one.
Publish(force) ==
    IF force \/ ~throttled
    THEN /\ published' = [ready |-> ready', positions |-> positions']
         /\ throttled' = TRUE
    ELSE UNCHANGED <<published, throttled>>

\* The callbacks of a batch run on after a failure: the loop reads the flag later.
Callback == connected /\ UNCHANGED connected

\* A new client: prepare and connect.  The store keeps the latest context.
Connect ==
    /\ ~connected
    /\ connected' = TRUE
    /\ started' = FALSE /\ failed' = FALSE /\ ready' = FALSE /\ throttled' = FALSE
    /\ positions' = [c \in Contract |-> NoPosition]
    /\ pnlOf' = [c \in Contract |-> 0]
    /\ pnlRequests' = [i \in Id |-> Free]
    /\ marketOf' = [c \in Contract |-> 0]
    /\ marketRequests' = [i \in Id |-> FreeRequest]
    /\ nextPnl' = 1 /\ nextMarket' = 1
    /\ served' = {}
    /\ seen' = [c \in Contract |-> {}]
    /\ UNCHANGED published

NextValidId ==
    /\ Callback /\ ~started
    /\ started' = TRUE
    /\ UNCHANGED <<failed, ready, positions, requests, seen>>
    /\ Publish(TRUE)

\* position with a quantity: both subscriptions are opened where there is none.
PositionOpen(c, lot) ==
    /\ nextPnl <= LastRequest /\ nextMarket <= LastRequest
    /\ positions' = [positions EXCEPT ![c] = UpdatePosition(@, lot)]
    /\ seen' = [seen EXCEPT ![c] = IF SameLot(positions[c], lot) THEN @ ELSE {}]
    /\ IF pnlOf[c] = 0
       THEN /\ pnlOf' = [pnlOf EXCEPT ![c] = nextPnl]
            /\ pnlRequests' = [pnlRequests EXCEPT ![nextPnl] = c]
            /\ nextPnl' = nextPnl + 1
       ELSE UNCHANGED <<pnlOf, pnlRequests, nextPnl>>
    /\ IF marketOf[c] = 0
       THEN /\ marketOf' = [marketOf EXCEPT ![c] = nextMarket]
            /\ marketRequests' =
                 [marketRequests EXCEPT ![nextMarket] = [contract |-> c, ticks |-> NoTicks]]
            /\ nextMarket' = nextMarket + 1
       ELSE UNCHANGED <<marketOf, marketRequests, nextMarket>>
    /\ served' = served \cup (IF pnlOf[c] = 0 THEN {<<"pnl", nextPnl>>} ELSE {})
                        \cup (IF marketOf[c] = 0 THEN {<<"market", nextMarket>>} ELSE {})

\* position without a quantity: both subscriptions are cancelled.
PositionClosed(c) ==
    /\ positions' = [positions EXCEPT ![c] = NoPosition]
    /\ seen' = [seen EXCEPT ![c] = {}]
    /\ pnlRequests' = [i \in Id |-> IF i = pnlOf[c] THEN Free ELSE pnlRequests[i]]
    /\ marketRequests' = [i \in Id |-> IF i = marketOf[c] THEN FreeRequest ELSE marketRequests[i]]
    /\ pnlOf' = [pnlOf EXCEPT ![c] = 0]
    /\ marketOf' = [marketOf EXCEPT ![c] = 0]
    /\ served' = served \ {<<"pnl", pnlOf[c]>>, <<"market", marketOf[c]>>}
    /\ UNCHANGED <<nextPnl, nextMarket>>

\* Mutation: a position is published like a tick.
PositionThrottled(c) ==
    /\ Callback /\ started
    /\ c \in Allowed
    /\ (\E lot \in Lot : PositionOpen(c, lot)) \/ PositionClosed(c)
    /\ UNCHANGED <<started, failed, ready>>
    /\ Publish(FALSE)

Position(c) ==
    /\ Callback /\ started
    /\ c \in Allowed
    /\ (\E lot \in Lot : PositionOpen(c, lot)) \/ PositionClosed(c)
    /\ UNCHANGED <<started, failed, ready>>
    /\ Publish(TRUE)

PositionEnd ==
    /\ Callback /\ started
    /\ ready' = TRUE
    /\ UNCHANGED <<started, failed, positions, requests, seen>>
    /\ Publish(TRUE)

PnlSingle(id, unrealized) ==
    /\ Callback
    /\ pnlRequests[id] # Free
    /\ LET c == pnlRequests[id]
       IN /\ positions' = [positions EXCEPT ![c] = UpdatePnl(@, unrealized)]
          /\ seen' = [seen EXCEPT ![c] = IF unrealized = Unset THEN @ ELSE @ \cup {unrealized}]
    /\ UNCHANGED <<started, failed, ready, requests>>
    /\ Publish(TRUE)

TickPrice(id, f, price) ==
    /\ Callback
    /\ marketRequests[id] # FreeRequest
    /\ marketRequests' = [marketRequests EXCEPT ![id].ticks[f] = price]
    /\ LET c == marketRequests[id].contract
           p == UpdateMarketPrice(positions[c], Selected(marketRequests'[id].ticks))
       IN /\ positions' = [positions EXCEPT ![c] = p]
          /\ seen' = [seen EXCEPT ![c] = @ \cup {p.unrealized}]
    /\ UNCHANGED <<started, failed, ready, pnlOf, pnlRequests, marketOf, nextPnl, nextMarket,
                   served>>
    /\ Publish(FALSE)

\* Mutation: the position keeps the request that failed.
RequestErrorHalf(kind, id) ==
    /\ Callback
    /\ <<kind, id>> \in served
    /\ served' = served \ {<<kind, id>>}
    /\ pnlRequests' = IF kind = "pnl" THEN [pnlRequests EXCEPT ![id] = Free] ELSE pnlRequests
    /\ UNCHANGED <<started, failed, ready, positions, pnlOf, marketOf, marketRequests, nextPnl,
                   nextMarket, throttled, published, seen>>

\* TWS ends a subscription with an error: a profit request is forgotten, for the
\* next position message to renew, and a Level-1 request is kept.
RequestError(kind, id) ==
    /\ Callback
    /\ <<kind, id>> \in served
    /\ served' = served \ {<<kind, id>>}
    /\ IF kind = "pnl" /\ pnlRequests[id] # Free
       THEN /\ pnlOf' = [pnlOf EXCEPT ![pnlRequests[id]] = 0]
            /\ pnlRequests' = [pnlRequests EXCEPT ![id] = Free]
       ELSE UNCHANGED <<pnlOf, pnlRequests>>
    /\ UNCHANGED <<started, failed, ready, positions, marketOf, marketRequests, nextPnl,
                   nextMarket, throttled, published, seen>>

\* Order-flow ticks and the ticks of the quoted symbols publish at most every
\* 250 ms, a changed feed type always does.
StreamUpdate(force) ==
    /\ Callback /\ started
    /\ UNCHANGED <<started, failed, ready, positions, requests, seen>>
    /\ Publish(force)

\* A pacing response, a service error or a closed connection.
Fail ==
    /\ Callback
    /\ failed' = TRUE
    /\ UNCHANGED <<started, ready, positions, requests, throttled, published, seen>>

\* The loop ends at a failure or a stop request: shutdown cancels what it knows
\* of and disconnects, which ends every subscription.
Shutdown ==
    /\ connected
    /\ connected' = FALSE
    /\ served' = {}
    /\ UNCHANGED <<started, failed, ready, positions, pnlOf, pnlRequests, marketOf,
                   marketRequests, nextPnl, nextMarket, throttled, published, seen>>

QuarterSecond ==
    /\ throttled
    /\ throttled' = FALSE
    /\ UNCHANGED <<connected, started, failed, ready, positions, requests, published, seen>>

-----------------------------------------------------------------------------

Init ==
    /\ connected = FALSE /\ started = FALSE /\ failed = FALSE /\ ready = FALSE
    /\ positions = [c \in Contract |-> NoPosition]
    /\ pnlOf = [c \in Contract |-> 0]
    /\ pnlRequests = [i \in Id |-> Free]
    /\ marketOf = [c \in Contract |-> 0]
    /\ marketRequests = [i \in Id |-> FreeRequest]
    /\ nextPnl = 1 /\ nextMarket = 1
    /\ served = {}
    /\ throttled = FALSE
    /\ published = [ready |-> FALSE, positions |-> [c \in Contract |-> NoPosition]]
    /\ seen = [c \in Contract |-> {}]

Next ==
    \/ Connect \/ NextValidId \/ PositionEnd \/ Fail \/ Shutdown \/ QuarterSecond
    \/ \E c \in Contract : Position(c)
    \/ \E force \in BOOLEAN : StreamUpdate(force)
    \/ \E id \in Id, unrealized \in Profit \cup {Unset} : PnlSingle(id, unrealized)
    \/ \E id \in Id, f \in Field, price \in Price : TickPrice(id, f, price)
    \/ \E kind \in {"pnl", "market"}, id \in Id : RequestError(kind, id)

Spec == Init /\ [][Next]_vars

-----------------------------------------------------------------------------
(* Properties.                                                             *)

Optional(S) == S \cup {Unset}
PositionRecord ==
    [quantity : {0} \cup {l.quantity : l \in Lot}, cost : {0} \cup {l.cost : l \in Lot},
     unrealized : Optional(Int), peak : Optional(Int), giveback : Optional(Int)]

\* Every variable keeps its type.
TypeOK ==
    /\ connected \in BOOLEAN /\ started \in BOOLEAN /\ failed \in BOOLEAN
    /\ ready \in BOOLEAN /\ throttled \in BOOLEAN
    /\ positions \in [Contract -> PositionRecord]
    /\ pnlOf \in [Contract -> Id \cup {0}] /\ marketOf \in [Contract -> Id \cup {0}]
    /\ pnlRequests \in [Id -> Contract \cup {Free}]
    /\ marketRequests \in [Id -> [contract : Contract \cup {Free}, ticks : [Field -> Optional(Price)]]]
    /\ nextPnl \in 1 .. LastRequest + 1 /\ nextMarket \in 1 .. LastRequest + 1
    /\ served \subseteq {"pnl", "market"} \X Id
    /\ published \in [ready : BOOLEAN, positions : [Contract -> PositionRecord]]
    /\ seen \in [Contract -> SUBSET Int]

\* The four request maps and TWS agree on the subscriptions: those of the held
\* positions, one of each kind at most, whatever was refused, closed, reopened.
RequestsMatchPositions ==
    /\ \A c \in Contract : Held(c) <=> marketOf[c] # 0
    /\ \A c \in Contract : pnlOf[c] # 0 => Held(c)
    /\ \A c \in Contract, i \in Id :
           /\ pnlRequests[i] = c <=> pnlOf[c] = i
           /\ marketRequests[i].contract = c <=> marketOf[c] = i
    /\ \A i \in Id :
           /\ <<"pnl", i>> \in served => pnlRequests[i] # Free
           /\ <<"market", i>> \in served => marketRequests[i] # FreeRequest

\* The peak is the largest profit the connection has computed for the lot in
\* hand, and the giveback is measured from it to the latest profit, although
\* either stream may update them and either may fall silent.
PeakOfThisLot ==
    \A c \in Contract :
        LET p == positions[c]
        IN /\ p.peak = IF seen[c] = {} THEN Unset ELSE Max(seen[c])
           /\ (p.unrealized # Unset /\ p.peak > 0) => p.giveback = p.peak - p.unrealized

\* While the connection is up, the store shows the lots that are held and
\* whether they are all known: the throttle never delays a position.
LotsPublished ==
    started =>
        /\ published.ready = ready
        /\ \A c \in Contract : LotOf(published.positions[c]) = LotOf(positions[c])

=============================================================================
