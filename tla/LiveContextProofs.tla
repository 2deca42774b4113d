-------------------------- MODULE LiveContextProofs --------------------------
(***************************************************************************)
(* Proofs about LiveContext: types, the agreement of the request maps with *)
(* the positions and with TWS, the peak of the lot in hand, and the lots   *)
(* that are published.                                                     *)
(***************************************************************************)
EXTENDS LiveContext, TLAPS

-----------------------------------------------------------------------------
(* The inductive invariant.                                                *)

\* A request number that was not given out yet is not in use, and a Level-1
\* request without a contract is an empty one.
RequestsFresh ==
    /\ \A i \in Id : i >= nextPnl => pnlRequests[i] = Free
    /\ \A i \in Id : i >= nextMarket => marketRequests[i] = FreeRequest
    /\ \A i \in Id : marketRequests[i].contract = Free => marketRequests[i] = FreeRequest

\* The marks of a position are those of the profits seen for its lot: the peak is
\* an upper bound of them and one of them, and so is the latest profit.
MarksSeen(p, profits) ==
    /\ profits = {} => p.peak = Unset /\ p.unrealized = Unset
    /\ profits # {} => p.peak \in profits /\ \A u \in profits : u <= p.peak
    /\ p.unrealized # Unset => p.unrealized \in profits
    /\ (p.unrealized # Unset /\ p.peak > 0) => p.giveback = p.peak - p.unrealized

MarksOfLots == \A c \in Contract : MarksSeen(positions[c], seen[c])

LiveContextInv ==
    /\ TypeOK
    /\ RequestsMatchPositions
    /\ RequestsFresh
    /\ MarksOfLots
    /\ LotsPublished

-----------------------------------------------------------------------------
(* The position tracker.                                                   *)

\* A new profit keeps the lot, and the marks stay those of the profits seen.
LEMMA MarkedKeeps ==
    ASSUME NEW p \in PositionRecord, NEW u \in Int, NEW profits \in SUBSET Int,
           MarksSeen(p, profits)
    PROVE  /\ Marked(p, u) \in PositionRecord
           /\ LotOf(Marked(p, u)) = LotOf(p)
           /\ Marked(p, u).quantity = p.quantity
           /\ Marked(p, u).unrealized = u
           /\ MarksSeen(Marked(p, u), profits \cup {u})
<1> DEFINE peak == IF p.peak = Unset \/ u > p.peak THEN u ELSE p.peak
           giveback == IF peak > 0 THEN peak - u ELSE p.giveback
<1>1. peak \in Int /\ giveback \in Optional(Int)
  BY DEF PositionRecord, Optional
<1>2. /\ Marked(p, u) \in PositionRecord
      /\ Marked(p, u).quantity = p.quantity /\ Marked(p, u).cost = p.cost
      /\ Marked(p, u).unrealized = u
      /\ Marked(p, u).peak = peak
      /\ Marked(p, u).giveback = giveback
  BY <1>1 DEF Marked, PositionRecord, Optional
<1>3. u # Unset
  BY UnsetAssumption
<1>4. peak \in profits \cup {u} /\ \A v \in profits \cup {u} : v <= peak
  <2>1. CASE profits = {}
    BY <2>1 DEF MarksSeen
  <2>2. CASE profits # {}
    <3>1. p.peak \in profits /\ p.peak \in Int /\ \A v \in profits : v \in Int /\ v <= p.peak
      BY <2>2 DEF MarksSeen
    <3>2. peak = IF u > p.peak THEN u ELSE p.peak
      BY <3>1, UnsetAssumption
    <3>3. QED
      BY <3>1, <3>2
  <2>3. QED
    BY <2>1, <2>2
<1>5. peak > 0 => giveback = peak - u
  OBVIOUS
<1> HIDE DEF peak, giveback
<1>6. QED
  BY <1>2, <1>3, <1>4, <1>5 DEF MarksSeen, LotOf

\* A profit that TWS cannot give clears the profit and nothing else.
LEMMA UpdatePnlKeeps ==
    ASSUME NEW p \in PositionRecord, NEW u \in Profit \cup {Unset},
           NEW profits \in SUBSET Int, MarksSeen(p, profits)
    PROVE  /\ UpdatePnl(p, u) \in PositionRecord
           /\ LotOf(UpdatePnl(p, u)) = LotOf(p)
           /\ UpdatePnl(p, u).quantity = p.quantity
           /\ MarksSeen(UpdatePnl(p, u), IF u = Unset THEN profits ELSE profits \cup {u})
<1>1. CASE u = Unset
  BY <1>1 DEF UpdatePnl, PositionRecord, Optional, LotOf, MarksSeen
<1>2. CASE u # Unset
  <2>1. u \in Int
    BY <1>2, ProfitAssumption
  <2>2. QED
    BY <1>2, <2>1, MarkedKeeps DEF UpdatePnl
<1>3. QED
  BY <1>1, <1>2

\* Once a tick has arrived there is a price to mark the position with.
LEMMA SelectedPrice ==
    ASSUME NEW ticks \in [Field -> Optional(Price)], NEW f \in Field, ticks[f] # Unset
    PROVE  Selected(ticks) \in Int
<1>1. \A g \in Field : Has(ticks, g) => ticks[g] \in Nat
  BY PriceAssumption DEF Has, Optional
<1>2. \E g \in Field : g \in {"mark", "last", "bid", "ask"} /\ Has(ticks, g)
  BY FieldAssumption DEF Has
<1>3. CASE Has(ticks, "bid") /\ Has(ticks, "ask")
  <2>1. ticks["bid"] \in Nat /\ ticks["ask"] \in Nat
    BY <1>1, <1>3 DEF Has
  <2>2. (ticks["bid"] + ticks["ask"]) \div 2 \in Int
    BY <2>1
  <2>3. Has(ticks, "mark") => ticks["mark"] \in Nat
    BY <1>1 DEF Has
  <2>4. Has(ticks, "last") => ticks["last"] \in Nat
    BY <1>1 DEF Has
  <2>5. QED
    BY <1>3, <2>2, <2>3, <2>4 DEF Selected
<1>4. CASE ~(Has(ticks, "bid") /\ Has(ticks, "ask"))
  <2>1. \A g \in {"mark", "last", "bid", "ask"} : Has(ticks, g) => ticks[g] \in Int
    BY <1>1 DEF Has
  <2>2. QED
    BY <1>2, <1>4, <2>1 DEF Selected
<1>5. QED
  BY <1>3, <1>4

\* A position message opens the lot anew, or finds it as it is.
LEMMA UpdatePositionKeeps ==
    ASSUME NEW p \in PositionRecord, NEW lot \in Lot, NEW profits \in SUBSET Int,
           MarksSeen(p, profits)
    PROVE  /\ UpdatePosition(p, lot) \in PositionRecord
           /\ UpdatePosition(p, lot).quantity # 0
           /\ MarksSeen(UpdatePosition(p, lot), IF SameLot(p, lot) THEN profits ELSE {})
<1>1. lot.quantity \in Int \ {0} /\ lot.cost \in Int
  BY LotAssumption
<1>2. CASE SameLot(p, lot)
  BY <1>1, <1>2 DEF UpdatePosition, SameLot
<1>3. CASE ~SameLot(p, lot)
  BY <1>1, <1>3 DEF UpdatePosition, Opened, PositionRecord, Optional, MarksSeen
<1>4. QED
  BY <1>2, <1>3

LEMMA NoPositionMarks ==
    /\ NoPosition \in PositionRecord
    /\ NoPosition.quantity = 0
    /\ MarksSeen(NoPosition, {})
BY DEF NoPosition, PositionRecord, Optional, MarksSeen

-----------------------------------------------------------------------------
(* Publishing.                                                             *)

Context == [ready : BOOLEAN, positions : [Contract -> PositionRecord]]

\* What the store shows of the lots.
ShowsLots(context, known, held) ==
    /\ context.ready = known
    /\ \A c \in Contract : LotOf(context.positions[c]) = LotOf(held[c])

\* A publication is a context; a forced one shows the lots in hand, and one that may
\* be throttled away shows them when they were shown and did not change.
LEMMA PublishShows ==
    ASSUME LiveContextInv, NEW force \in BOOLEAN, Publish(force),
           ready' \in BOOLEAN, positions' \in [Contract -> PositionRecord]
    PROVE  /\ throttled' \in BOOLEAN /\ published' \in Context
           /\ force => ShowsLots(published', ready', positions')
           /\ (/\ started /\ ready' = ready
               /\ \A c \in Contract : LotOf(positions'[c]) = LotOf(positions[c]))
              => ShowsLots(published', ready', positions')
<1>1. CASE force \/ ~throttled
  <2>1. published' = [ready |-> ready', positions |-> positions'] /\ throttled' = TRUE
    BY <1>1 DEF Publish
  <2>2. published' \in Context
    BY <2>1 DEF Context
  <2>3. published'.ready = ready' /\ published'.positions = positions'
    BY <2>1
  <2>4. QED
    BY <2>1, <2>2, <2>3 DEF ShowsLots
<1>2. CASE ~(force \/ ~throttled)
  <2>1. published' = published /\ throttled' = throttled
    BY <1>2 DEF Publish
  <2>2. published \in Context /\ throttled \in BOOLEAN
    BY DEF LiveContextInv, TypeOK, Context
  <2>3. started => ShowsLots(published, ready, positions)
    BY DEF LiveContextInv, LotsPublished, ShowsLots
  <2>4. QED
    BY <1>2, <2>1, <2>2, <2>3 DEF ShowsLots
<1>3. QED
  BY <1>1, <1>2

\* Steps that leave positions and requests alone and whose context is current.
LEMMA FlagsInv ==
    ASSUME LiveContextInv, UNCHANGED <<positions, requests, seen>>,
           connected' \in BOOLEAN, started' \in BOOLEAN, failed' \in BOOLEAN,
           ready' \in BOOLEAN, throttled' \in BOOLEAN, published' \in Context,
           started' => ShowsLots(published', ready', positions')
    PROVE  LiveContextInv'
<1>1. TypeOK'
  BY DEF LiveContextInv, TypeOK, requests, Context
<1>2. RequestsMatchPositions'
  BY DEF LiveContextInv, RequestsMatchPositions, requests, Held
<1>3. RequestsFresh'
  BY DEF LiveContextInv, RequestsFresh, requests
<1>4. MarksOfLots'
  BY DEF LiveContextInv, MarksOfLots
<1>5. LotsPublished'
  BY DEF LotsPublished, ShowsLots
<1>6. QED
  BY <1>1, <1>2, <1>3, <1>4, <1>5 DEF LiveContextInv

\* Some of the served subscriptions end.
LEMMA ServedLess ==
    ASSUME LiveContextInv, UNCHANGED <<positions, seen, pnlOf, pnlRequests, marketOf,
                                       marketRequests, nextPnl, nextMarket>>,
           served' \subseteq served, UNCHANGED <<started, failed, ready, throttled, published>>,
           connected' \in BOOLEAN
    PROVE  LiveContextInv'
<1>1. TypeOK'
  BY DEF LiveContextInv, TypeOK
<1>2. RequestsMatchPositions'
  BY DEF LiveContextInv, RequestsMatchPositions, Held
<1>3. RequestsFresh'
  BY DEF LiveContextInv, RequestsFresh
<1>4. MarksOfLots'
  BY DEF LiveContextInv, MarksOfLots
<1>5. LotsPublished'
  BY DEF LiveContextInv, LotsPublished
<1>6. QED
  BY <1>1, <1>2, <1>3, <1>4, <1>5 DEF LiveContextInv

\* Steps in which one position gets new marks and keeps its lot, and in which no
\* request is opened or ended.
LEMMA MarksInv ==
    ASSUME LiveContextInv, NEW c \in Contract, NEW p \in PositionRecord,
           NEW profits \in SUBSET Int, NEW force \in BOOLEAN,
           positions' = [positions EXCEPT ![c] = p], p.quantity = positions[c].quantity,
           LotOf(p) = LotOf(positions[c]), seen' = [seen EXCEPT ![c] = profits],
           MarksSeen(p, profits),
           UNCHANGED <<connected, started, failed, ready>>, Publish(force),
           UNCHANGED <<pnlOf, pnlRequests, marketOf, nextPnl, nextMarket, served>>,
           marketRequests' \in [Id -> [contract : Contract \cup {Free},
                                      ticks : [Field -> Optional(Price)]]],
           \A i \in Id : /\ marketRequests'[i].contract = marketRequests[i].contract
                         /\ marketRequests[i] = FreeRequest => marketRequests'[i] = FreeRequest
    PROVE  LiveContextInv'
<1>1. TypeOK
  BY DEF LiveContextInv
<1>2. positions' \in [Contract -> PositionRecord] /\ seen' \in [Contract -> SUBSET Int]
  BY <1>1 DEF TypeOK
<1>3. \A d \in Contract : LotOf(positions'[d]) = LotOf(positions[d])
  BY <1>1 DEF TypeOK
<1>4. /\ throttled' \in BOOLEAN /\ published' \in Context
      /\ started => ShowsLots(published', ready', positions')
  BY <1>1, <1>2, <1>3, PublishShows DEF TypeOK
<1>5. TypeOK'
  BY <1>1, <1>2, <1>4 DEF TypeOK, Context
<1>6. RequestsMatchPositions'
  <2>1. \A d \in Contract : Held(d)' = Held(d)
    BY <1>1 DEF TypeOK, Held
  <2>2. FreeRequest.contract = Free
    BY DEF FreeRequest
  <2>3. \A i \in Id : marketRequests[i] # FreeRequest => marketRequests'[i] # FreeRequest
    BY <2>2 DEF LiveContextInv, RequestsFresh
  <2>4. QED
    BY <2>1, <2>3 DEF LiveContextInv, RequestsMatchPositions
<1>7. RequestsFresh'
  BY DEF LiveContextInv, RequestsFresh
<1>8. MarksOfLots'
  BY <1>1 DEF LiveContextInv, MarksOfLots, TypeOK
<1>9. LotsPublished'
  BY <1>4 DEF LotsPublished, ShowsLots
<1>10. QED
  BY <1>5, <1>6, <1>7, <1>8, <1>9 DEF LiveContextInv

-----------------------------------------------------------------------------
(* The request maps.                                                       *)

\* One kind of request: its two maps are inverses of each other, a number that was
\* not given out is free, and TWS serves none that is free.
PnlMapsAgree(of, reqs, next, open) ==
    /\ \A c \in Contract, i \in Id : reqs[i] = c <=> of[c] = i
    /\ \A i \in Id : i >= next => reqs[i] = Free
    /\ \A i \in Id : <<"pnl", i>> \in open => reqs[i] # Free

MarketMapsAgree(of, reqs, next, open) ==
    /\ \A c \in Contract, i \in Id : reqs[i].contract = c <=> of[c] = i
    /\ \A i \in Id : i >= next => reqs[i] = FreeRequest
    /\ \A i \in Id : reqs[i].contract = Free => reqs[i] = FreeRequest
    /\ \A i \in Id : <<"market", i>> \in open => reqs[i] # FreeRequest

MarketRequest == [contract : Contract \cup {Free}, ticks : [Field -> Optional(Price)]]

LEMMA MapsAgree ==
    LiveContextInv => /\ PnlMapsAgree(pnlOf, pnlRequests, nextPnl, served)
                      /\ MarketMapsAgree(marketOf, marketRequests, nextMarket, served)
<1> SUFFICES ASSUME LiveContextInv
             PROVE  /\ PnlMapsAgree(pnlOf, pnlRequests, nextPnl, served)
                    /\ MarketMapsAgree(marketOf, marketRequests, nextMarket, served)
  OBVIOUS
<1>1. RequestsMatchPositions /\ RequestsFresh
  BY DEF LiveContextInv
<1>2. PnlMapsAgree(pnlOf, pnlRequests, nextPnl, served)
  <2>1. /\ \A c \in Contract, i \in Id : pnlRequests[i] = c <=> pnlOf[c] = i
        /\ \A i \in Id : <<"pnl", i>> \in served => pnlRequests[i] # Free
    BY <1>1, Zenon DEF RequestsMatchPositions
  <2>2. \A i \in Id : i >= nextPnl => pnlRequests[i] = Free
    BY <1>1, Zenon DEF RequestsFresh
  <2>3. QED
    BY <2>1, <2>2, Zenon DEF PnlMapsAgree
<1>3. MarketMapsAgree(marketOf, marketRequests, nextMarket, served)
  <2>1. /\ \A c \in Contract, i \in Id : marketRequests[i].contract = c <=> marketOf[c] = i
        /\ \A i \in Id : <<"market", i>> \in served => marketRequests[i] # FreeRequest
    BY <1>1, Zenon DEF RequestsMatchPositions
  <2>2. /\ \A i \in Id : i >= nextMarket => marketRequests[i] = FreeRequest
        /\ \A i \in Id : marketRequests[i].contract = Free => marketRequests[i] = FreeRequest
    BY <1>1, Zenon DEF RequestsFresh
  <2>3. QED
    BY <2>1, <2>2, Zenon DEF MarketMapsAgree
<1>4. QED
  BY <1>2, <1>3

LEMMA FreeRequestType == FreeRequest \in MarketRequest /\ NoTicks \in [Field -> Optional(Price)]
BY DEF FreeRequest, MarketRequest, NoTicks, Optional

\* A profit subscription is opened where there is none, under a fresh number.
LEMMA PnlOpened ==
    ASSUME NEW of \in [Contract -> Id \cup {0}], NEW reqs \in [Id -> Contract \cup {Free}],
           NEW n \in Id, NEW open, NEW c \in Contract,
           PnlMapsAgree(of, reqs, n, open), of[c] = 0,
           NEW new, <<"pnl", n>> \in new,
           \A i \in Id : <<"pnl", i>> \in new => <<"pnl", i>> \in open \/ i = n
    PROVE  /\ [of EXCEPT ![c] = n] \in [Contract -> Id \cup {0}]
           /\ [reqs EXCEPT ![n] = c] \in [Id -> Contract \cup {Free}]
           /\ PnlMapsAgree([of EXCEPT ![c] = n], [reqs EXCEPT ![n] = c], n + 1, new)
<1>1. n \in Int /\ \A i \in Id : i \in Int /\ i # 0
  BY RequestAssumption DEF Id
<1>2. reqs[n] = Free /\ \A d \in Contract : of[d] # n
  BY <1>1, ContractAssumption DEF PnlMapsAgree
<1>3. \A i \in Id : i >= n + 1 => i >= n /\ i # n
  BY <1>1
<1>4. QED
  BY <1>1, <1>2, <1>3, ContractAssumption DEF PnlMapsAgree

\* The same of a Level-1 subscription.
LEMMA MarketOpened ==
    ASSUME NEW of \in [Contract -> Id \cup {0}], NEW reqs \in [Id -> MarketRequest],
           NEW n \in Id, NEW open, NEW c \in Contract,
           MarketMapsAgree(of, reqs, n, open), of[c] = 0,
           NEW new, <<"market", n>> \in new,
           \A i \in Id : <<"market", i>> \in new => <<"market", i>> \in open \/ i = n
    PROVE  LET r == [contract |-> c, ticks |-> NoTicks]
           IN /\ [of EXCEPT ![c] = n] \in [Contract -> Id \cup {0}]
              /\ [reqs EXCEPT ![n] = r] \in [Id -> MarketRequest]
              /\ MarketMapsAgree([of EXCEPT ![c] = n], [reqs EXCEPT ![n] = r], n + 1, new)
<1> DEFINE r == [contract |-> c, ticks |-> NoTicks]
<1>1. n \in Int /\ \A i \in Id : i \in Int /\ i # 0
  BY RequestAssumption DEF Id
<1>2. reqs[n] = FreeRequest /\ FreeRequest.contract = Free
  BY <1>1 DEF MarketMapsAgree, FreeRequest
<1>3. \A d \in Contract : of[d] # n
  BY <1>2, ContractAssumption DEF MarketMapsAgree
<1>4. r \in MarketRequest /\ r.contract = c /\ c # Free
  BY FreeRequestType, ContractAssumption DEF MarketRequest
<1>5. r # FreeRequest
  BY <1>2, <1>4
<1>6. \A i \in Id : i >= n + 1 => i >= n /\ i # n
  BY <1>1
<1> HIDE DEF r
<1> DEFINE of2 == [of EXCEPT ![c] = n]
           reqs2 == [reqs EXCEPT ![n] = r]
<1>7. /\ of2[c] = n /\ \A d \in Contract \ {c} : of2[d] = of[d]
      /\ reqs2[n] = r /\ \A i \in Id \ {n} : reqs2[i] = reqs[i]
  OBVIOUS
<1>8. of2 \in [Contract -> Id \cup {0}] /\ reqs2 \in [Id -> MarketRequest]
  BY <1>4
<1> HIDE DEF of2, reqs2
<1>9. MarketMapsAgree(of2, reqs2, n + 1, new)
  <2>1. \A d \in Contract, i \in Id : reqs2[i].contract = d <=> of2[d] = i
    BY <1>1, <1>2, <1>3, <1>4, <1>7, ContractAssumption DEF MarketMapsAgree
  <2>2. \A i \in Id : /\ i >= n + 1 => reqs2[i] = FreeRequest
                      /\ reqs2[i].contract = Free => reqs2[i] = FreeRequest
                      /\ <<"market", i>> \in new => reqs2[i] # FreeRequest
    BY <1>4, <1>5, <1>6, <1>7 DEF MarketMapsAgree
  <2>3. QED
    BY <2>1, <2>2 DEF MarketMapsAgree
<1>10. QED
  BY <1>8, <1>9 DEF of2, reqs2, r

\* A position is opened or changed, with the subscriptions it lacks.
LEMMA PositionOpenInv ==
    ASSUME LiveContextInv, NEW c \in Contract, NEW lot \in Lot,
           PositionOpen(c, lot), UNCHANGED <<connected, started, failed, ready>>, Publish(TRUE)
    PROVE  LiveContextInv'
<1> DEFINE p == UpdatePosition(positions[c], lot)
           profits == IF SameLot(positions[c], lot) THEN seen[c] ELSE {}
<1>1. TypeOK /\ RequestsMatchPositions
  BY DEF LiveContextInv
<1>2. p \in PositionRecord /\ p.quantity # 0 /\ MarksSeen(p, profits)
  BY UpdatePositionKeeps DEF LiveContextInv, TypeOK, MarksOfLots
<1>3. positions' = [positions EXCEPT ![c] = p] /\ seen' = [seen EXCEPT ![c] = profits]
  BY <1>1 DEF PositionOpen, TypeOK
<1>4. profits \in SUBSET Int
  BY <1>1 DEF TypeOK
<1> HIDE DEF p, profits
<1>5. positions' \in [Contract -> PositionRecord] /\ seen' \in [Contract -> SUBSET Int]
  BY <1>1, <1>2, <1>3, <1>4 DEF TypeOK
<1>6. /\ throttled' \in BOOLEAN /\ published' \in Context
      /\ ShowsLots(published', ready', positions')
  BY <1>1, <1>5, PublishShows DEF TypeOK
<1>7. nextPnl \in Id /\ nextMarket \in Id
  BY <1>1, RequestAssumption DEF PositionOpen, TypeOK, Id
<1>8. nextPnl + 1 \in 1 .. LastRequest + 1 /\ nextMarket + 1 \in 1 .. LastRequest + 1
  BY <1>7, RequestAssumption DEF Id
<1>9. /\ PnlMapsAgree(pnlOf, pnlRequests, nextPnl, served)
      /\ MarketMapsAgree(marketOf, marketRequests, nextMarket, served)
  BY MapsAgree
<1>10. /\ pnlOf \in [Contract -> Id \cup {0}] /\ pnlRequests \in [Id -> Contract \cup {Free}]
       /\ marketOf \in [Contract -> Id \cup {0}] /\ marketRequests \in [Id -> MarketRequest]
       /\ nextPnl \in 1 .. LastRequest + 1 /\ nextMarket \in 1 .. LastRequest + 1
  BY <1>1 DEF TypeOK, MarketRequest
<1>11. \A i \in Id :
          /\ <<"pnl", i>> \in served' <=> <<"pnl", i>> \in served \/ (pnlOf[c] = 0 /\ i = nextPnl)
          /\ <<"market", i>> \in served' <=>
                 <<"market", i>> \in served \/ (marketOf[c] = 0 /\ i = nextMarket)
  BY DEF PositionOpen
<1>12. /\ PnlMapsAgree(pnlOf', pnlRequests', nextPnl', served')
       /\ pnlOf' \in [Contract -> Id \cup {0}] /\ pnlRequests' \in [Id -> Contract \cup {Free}]
       /\ nextPnl' \in 1 .. LastRequest + 1
       /\ \A d \in Contract \ {c} : pnlOf'[d] = pnlOf[d]
  <2>1. CASE pnlOf[c] = 0
    <3>1. /\ pnlOf' = [pnlOf EXCEPT ![c] = nextPnl] /\ nextPnl' = nextPnl + 1
          /\ pnlRequests' = [pnlRequests EXCEPT ![nextPnl] = c]
      BY <2>1 DEF PositionOpen
    <3>2. /\ <<"pnl", nextPnl>> \in served'
          /\ \A i \in Id : <<"pnl", i>> \in served' => <<"pnl", i>> \in served \/ i = nextPnl
      BY <1>7, <1>11, <2>1
    <3>3. /\ PnlMapsAgree(pnlOf', pnlRequests', nextPnl', served')
          /\ pnlOf' \in [Contract -> Id \cup {0}]
          /\ pnlRequests' \in [Id -> Contract \cup {Free}]
      BY <1>7, <1>9, <1>10, <2>1, <3>1, <3>2, PnlOpened
    <3>4. QED
      BY <1>8, <1>10, <3>1, <3>3
  <2>2. CASE pnlOf[c] # 0
    <3>1. UNCHANGED <<pnlOf, pnlRequests, nextPnl>>
      BY <2>2 DEF PositionOpen
    <3>2. QED
      BY <1>9, <1>10, <1>11, <2>2, <3>1 DEF PnlMapsAgree
  <2>3. QED
    BY <2>1, <2>2
<1>13. /\ MarketMapsAgree(marketOf', marketRequests', nextMarket', served')
       /\ marketOf' \in [Contract -> Id \cup {0}] /\ marketRequests' \in [Id -> MarketRequest]
       /\ nextMarket' \in 1 .. LastRequest + 1
       /\ marketOf'[c] # 0 /\ \A d \in Contract \ {c} : marketOf'[d] = marketOf[d]
  <2>1. CASE marketOf[c] = 0
    <3>1. /\ marketOf' = [marketOf EXCEPT ![c] = nextMarket] /\ nextMarket' = nextMarket + 1
          /\ marketRequests' =
                [marketRequests EXCEPT ![nextMarket] = [contract |-> c, ticks |-> NoTicks]]
      BY <2>1 DEF PositionOpen
    <3>2. nextMarket # 0
      BY <1>7 DEF Id
    <3>3. /\ <<"market", nextMarket>> \in served'
          /\ \A i \in Id : <<"market", i>> \in served' => <<"market", i>> \in served \/ i = nextMarket
      BY <1>7, <1>11, <2>1
    <3>4. /\ MarketMapsAgree(marketOf', marketRequests', nextMarket', served')
          /\ marketOf' \in [Contract -> Id \cup {0}]
          /\ marketRequests' \in [Id -> MarketRequest]
      BY <1>7, <1>9, <1>10, <2>1, <3>1, <3>3, MarketOpened
    <3>5. QED
      BY <1>8, <1>10, <3>1, <3>2, <3>4
  <2>2. CASE marketOf[c] # 0
    <3>1. UNCHANGED <<marketOf, marketRequests, nextMarket>>
      BY <2>2 DEF PositionOpen
    <3>2. QED
      BY <1>9, <1>10, <1>11, <2>2, <3>1 DEF MarketMapsAgree
  <2>3. QED
    BY <2>1, <2>2
<1>14. \A d \in Contract : /\ Held(d)' <=> marketOf'[d] # 0
                           /\ pnlOf'[d] # 0 => Held(d)'
  BY <1>1, <1>2, <1>3, <1>12, <1>13 DEF TypeOK, RequestsMatchPositions, Held
<1>15. RequestsMatchPositions' /\ RequestsFresh'
  BY <1>12, <1>13, <1>14 DEF RequestsMatchPositions, RequestsFresh, PnlMapsAgree, MarketMapsAgree
<1>16. TypeOK'
  <2>1. served' \subseteq {"pnl", "market"} \X Id
    BY <1>1, <1>7 DEF PositionOpen, TypeOK
  <2>2. QED
    BY <1>1, <1>5, <1>6, <1>12, <1>13, <2>1 DEF TypeOK, Context, MarketRequest
<1>17. MarksOfLots'
  BY <1>1, <1>2, <1>3 DEF LiveContextInv, MarksOfLots, TypeOK
<1>18. LotsPublished'
  BY <1>6 DEF LotsPublished, ShowsLots
<1>19. QED
  BY <1>15, <1>16, <1>17, <1>18 DEF LiveContextInv

\* A position is closed, and both of its subscriptions are cancelled.
LEMMA PositionClosedInv ==
    ASSUME LiveContextInv, NEW c \in Contract,
           PositionClosed(c), UNCHANGED <<connected, started, failed, ready>>, Publish(TRUE)
    PROVE  LiveContextInv'
<1>1. TypeOK /\ RequestsMatchPositions
  BY DEF LiveContextInv
<1>2. positions' = [positions EXCEPT ![c] = NoPosition] /\ seen' = [seen EXCEPT ![c] = {}]
  BY DEF PositionClosed
<1>3. positions' \in [Contract -> PositionRecord] /\ seen' \in [Contract -> SUBSET Int]
  BY <1>1, <1>2, NoPositionMarks DEF TypeOK
<1>4. /\ throttled' \in BOOLEAN /\ published' \in Context
      /\ ShowsLots(published', ready', positions')
  BY <1>1, <1>3, PublishShows DEF TypeOK
<1>5. /\ PnlMapsAgree(pnlOf, pnlRequests, nextPnl, served)
      /\ MarketMapsAgree(marketOf, marketRequests, nextMarket, served)
  BY MapsAgree
<1>6. TypeOK'
  BY <1>1, <1>3, <1>4, FreeRequestType DEF PositionClosed, TypeOK, Context, MarketRequest
<1>7. 0 \notin Id
  BY DEF Id
<1>8. PnlMapsAgree(pnlOf', pnlRequests', nextPnl', served')
  <2>1. \A d \in Contract : pnlOf'[d] = IF d = c THEN 0 ELSE pnlOf[d]
    BY <1>1 DEF PositionClosed, TypeOK
  <2>2. \A i \in Id : pnlRequests'[i] = IF i = pnlOf[c] THEN Free ELSE pnlRequests[i]
    BY DEF PositionClosed
  <2>3. \A i \in Id : <<"pnl", i>> \in served' => <<"pnl", i>> \in served /\ i # pnlOf[c]
    BY DEF PositionClosed
  <2>4. nextPnl' = nextPnl
    BY DEF PositionClosed
  <2>5. \A d \in Contract, i \in Id : pnlRequests'[i] = d <=> pnlOf'[d] = i
    BY <1>5, <1>7, <2>1, <2>2, ContractAssumption DEF PnlMapsAgree
  <2>6. QED
    BY <1>5, <2>2, <2>3, <2>4, <2>5 DEF PnlMapsAgree
<1>9. MarketMapsAgree(marketOf', marketRequests', nextMarket', served')
  <2>1. \A d \in Contract : marketOf'[d] = IF d = c THEN 0 ELSE marketOf[d]
    BY <1>1 DEF PositionClosed, TypeOK
  <2>2. \A i \in Id : marketRequests'[i] = IF i = marketOf[c] THEN FreeRequest ELSE marketRequests[i]
    BY DEF PositionClosed
  <2>3. \A i \in Id : <<"market", i>> \in served' => <<"market", i>> \in served /\ i # marketOf[c]
    BY DEF PositionClosed
  <2>4. nextMarket' = nextMarket /\ FreeRequest.contract = Free
    BY DEF PositionClosed, FreeRequest
  <2>5. \A d \in Contract, i \in Id : marketRequests'[i].contract = d <=> marketOf'[d] = i
    BY <1>5, <1>7, <2>1, <2>2, <2>4, ContractAssumption DEF MarketMapsAgree
  <2>6. QED
    BY <1>5, <2>2, <2>3, <2>4, <2>5 DEF MarketMapsAgree
<1>10. \A d \in Contract : /\ Held(d)' <=> marketOf'[d] # 0
                           /\ pnlOf'[d] # 0 => Held(d)'
  BY <1>1, <1>2, NoPositionMarks DEF PositionClosed, TypeOK, RequestsMatchPositions, Held
<1>11. RequestsMatchPositions' /\ RequestsFresh'
  BY <1>8, <1>9, <1>10 DEF RequestsMatchPositions, RequestsFresh, PnlMapsAgree, MarketMapsAgree
<1>12. MarksOfLots'
  BY <1>1, <1>2, NoPositionMarks DEF LiveContextInv, MarksOfLots, TypeOK
<1>13. LotsPublished'
  BY <1>4 DEF LotsPublished, ShowsLots
<1>14. QED
  BY <1>6, <1>11, <1>12, <1>13 DEF LiveContextInv

\* TWS ends a subscription with an error: a profit request is forgotten.
LEMMA RequestErrorInv ==
    ASSUME LiveContextInv, NEW kind \in {"pnl", "market"}, NEW id \in Id,
           RequestError(kind, id)
    PROVE  LiveContextInv'
<1>1. TypeOK /\ RequestsMatchPositions
  BY DEF LiveContextInv
<1>2. served' = served \ {<<kind, id>>} /\ connected' = connected
  BY DEF RequestError, Callback
<1>3. UNCHANGED <<started, failed, ready, positions, marketOf, marketRequests, nextPnl,
                  nextMarket, throttled, published, seen>>
  BY DEF RequestError
<1>4. CASE kind = "pnl" /\ pnlRequests[id] # Free
  <2> DEFINE c == pnlRequests[id]
  <2>1. c \in Contract
    BY <1>1, <1>4 DEF TypeOK
  <2>2. pnlOf' = [pnlOf EXCEPT ![c] = 0] /\ pnlRequests' = [pnlRequests EXCEPT ![id] = Free]
    BY <1>4 DEF RequestError
  <2> HIDE DEF c
  <2>3. 0 \notin Id
    BY DEF Id
  <2>4. pnlOf[c] = id
    BY <1>1, <2>1 DEF RequestsMatchPositions, c
  <2>5. TypeOK'
    BY <1>1, <1>2, <1>3, <2>1, <2>2 DEF TypeOK
  <2>6. \A d \in Contract : Held(d)' = Held(d)
    BY <1>3 DEF Held
  <2>7. \A d \in Contract, i \in Id : pnlRequests'[i] = d <=> pnlOf'[d] = i
    BY <1>1, <2>1, <2>2, <2>3, <2>4, ContractAssumption DEF TypeOK, RequestsMatchPositions
  <2>8. \A i \in Id : <<"pnl", i>> \in served' => pnlRequests'[i] # Free
    <3> SUFFICES ASSUME NEW i \in Id, <<"pnl", i>> \in served'
                 PROVE  pnlRequests'[i] # Free
      OBVIOUS
    <3>1. served' = served \ {<<"pnl", id>>}
      BY <1>4 DEF RequestError
    <3>2. <<"pnl", i>> \in served /\ i # id
      BY <3>1
    <3>3. pnlRequests[i] # Free
      BY <1>1, <3>2 DEF RequestsMatchPositions
    <3>4. QED
      BY <1>1, <2>2, <3>2, <3>3 DEF TypeOK
  <2>9. \A d \in Contract : pnlOf'[d] # 0 => pnlOf[d] # 0
    BY <1>1, <2>1, <2>2 DEF TypeOK
  <2>10. RequestsMatchPositions'
    BY <1>1, <1>2, <1>3, <2>6, <2>7, <2>8, <2>9 DEF RequestsMatchPositions
  <2>11. RequestsFresh'
    BY <1>1, <1>3, <2>2 DEF LiveContextInv, RequestsFresh, TypeOK
  <2>12. MarksOfLots' /\ LotsPublished'
    BY <1>3 DEF LiveContextInv, MarksOfLots, LotsPublished
  <2>13. QED
    BY <2>5, <2>10, <2>11, <2>12 DEF LiveContextInv
<1>5. CASE ~(kind = "pnl" /\ pnlRequests[id] # Free)
  <2>1. UNCHANGED <<pnlOf, pnlRequests>>
    BY <1>5 DEF RequestError
  <2>2. QED
    BY <1>1, <1>2, <1>3, <2>1, ServedLess DEF TypeOK
<1>6. QED
  BY <1>4, <1>5

-----------------------------------------------------------------------------
(* Every step.                                                             *)

\* The maps of a new client.
LEMMA EmptyMaps ==
    /\ [c \in Contract |-> NoPosition] \in [Contract -> PositionRecord]
    /\ [c \in Contract |-> 0] \in [Contract -> Id \cup {0}]
    /\ [i \in Id |-> Free] \in [Id -> Contract \cup {Free}]
    /\ [i \in Id |-> FreeRequest] \in [Id -> MarketRequest]
    /\ 1 \in 1 .. LastRequest + 1
    /\ [c \in Contract |-> {}] \in [Contract -> SUBSET Int]
<1>1. 1 \in 1 .. LastRequest + 1
  BY RequestAssumption
<1>2. [i \in Id |-> FreeRequest] \in [Id -> MarketRequest]
  BY FreeRequestType
<1>3. QED
  BY <1>1, <1>2, NoPositionMarks

LEMMA ConnectInv ==
    ASSUME LiveContextInv, Connect
    PROVE  LiveContextInv'
<1>1. TypeOK'
  <2>1. /\ connected' \in BOOLEAN /\ started' \in BOOLEAN /\ failed' \in BOOLEAN
        /\ ready' \in BOOLEAN /\ throttled' \in BOOLEAN
        /\ served' \subseteq {"pnl", "market"} \X Id
    BY DEF Connect
  <2>2. /\ positions' \in [Contract -> PositionRecord] /\ seen' \in [Contract -> SUBSET Int]
        /\ pnlOf' \in [Contract -> Id \cup {0}] /\ marketOf' \in [Contract -> Id \cup {0}]
        /\ pnlRequests' \in [Id -> Contract \cup {Free}]
        /\ marketRequests' \in [Id -> MarketRequest]
        /\ nextPnl' \in 1 .. LastRequest + 1 /\ nextMarket' \in 1 .. LastRequest + 1
    BY EmptyMaps DEF Connect
  <2>3. published' \in [ready : BOOLEAN, positions : [Contract -> PositionRecord]]
    BY DEF Connect, LiveContextInv, TypeOK
  <2>4. QED
    BY <2>1, <2>2, <2>3 DEF TypeOK, MarketRequest
<1>2. RequestsMatchPositions' /\ RequestsFresh'
  BY NoPositionMarks, ContractAssumption
     DEF Connect, RequestsMatchPositions, RequestsFresh, Held, Id, FreeRequest
<1>3. MarksOfLots' /\ LotsPublished'
  BY NoPositionMarks DEF Connect, MarksOfLots, LotsPublished
<1>4. QED
  BY <1>1, <1>2, <1>3 DEF LiveContextInv

LEMMA PnlSingleInv ==
    ASSUME LiveContextInv, NEW id \in Id, NEW u \in Profit \cup {Unset}, PnlSingle(id, u)
    PROVE  LiveContextInv'
<1> DEFINE c == pnlRequests[id]
           p == UpdatePnl(positions[c], u)
           profits == IF u = Unset THEN seen[c] ELSE seen[c] \cup {u}
<1>1. TypeOK
  BY DEF LiveContextInv
<1>2. c \in Contract
  BY <1>1 DEF PnlSingle, TypeOK
<1>3. /\ p \in PositionRecord /\ p.quantity = positions[c].quantity
      /\ LotOf(p) = LotOf(positions[c]) /\ MarksSeen(p, profits)
  BY <1>1, <1>2, UpdatePnlKeeps DEF LiveContextInv, TypeOK, MarksOfLots
<1>4. profits \in SUBSET Int
  BY <1>1, <1>2, ProfitAssumption DEF TypeOK
<1>5. positions' = [positions EXCEPT ![c] = p] /\ seen' = [seen EXCEPT ![c] = profits]
  BY <1>1, <1>2 DEF PnlSingle, TypeOK
<1>6. /\ UNCHANGED <<connected, started, failed, ready>> /\ Publish(TRUE)
      /\ UNCHANGED requests
  BY DEF PnlSingle, Callback
<1> HIDE DEF c, p, profits
<1>7. QED
  BY <1>1, <1>2, <1>3, <1>4, <1>5, <1>6, MarksInv DEF requests, TypeOK

LEMMA TickPriceInv ==
    ASSUME LiveContextInv, NEW id \in Id, NEW f \in Field, NEW price \in Price,
           TickPrice(id, f, price)
    PROVE  LiveContextInv'
<1> DEFINE c == marketRequests[id].contract
           u == Selected(marketRequests'[id].ticks)
           p == UpdateMarketPrice(positions[c], u)
<1>1. TypeOK
  BY DEF LiveContextInv
<1>2. c \in Contract
  BY <1>1 DEF LiveContextInv, RequestsFresh, TickPrice, TypeOK
<1>3. marketRequests' = [marketRequests EXCEPT ![id].ticks[f] = price]
  BY DEF TickPrice
<1>4. price \in Nat /\ price # Unset
  BY PriceAssumption, UnsetAssumption
<1>5. /\ marketRequests' \in [Id -> MarketRequest]
      /\ \A i \in Id : /\ marketRequests'[i].contract = marketRequests[i].contract
                       /\ i # id => marketRequests'[i] = marketRequests[i]
      /\ marketRequests'[id].ticks[f] = price
  BY <1>1, <1>3 DEF TypeOK, MarketRequest, Optional
<1>6. u \in Int
  BY <1>4, <1>5, SelectedPrice DEF MarketRequest
<1>7. positions[c] \in PositionRecord /\ seen[c] \in SUBSET Int /\ MarksSeen(positions[c], seen[c])
  BY <1>1, <1>2 DEF LiveContextInv, TypeOK, MarksOfLots
<1>8. positions[c].cost \in Int /\ positions[c].quantity \in Int
  BY <1>7, LotAssumption DEF PositionRecord
<1>9. /\ p \in PositionRecord /\ p.quantity = positions[c].quantity
      /\ LotOf(p) = LotOf(positions[c]) /\ p.unrealized \in Int
      /\ MarksSeen(p, seen[c] \cup {p.unrealized})
  <2> DEFINE v == (u - positions[c].cost) * positions[c].quantity
  <2>1. v \in Int
    BY <1>6, <1>8
  <2>2. p = Marked(positions[c], v)
    BY DEF UpdateMarketPrice
  <2> HIDE DEF v, p
  <2>3. QED
    BY <1>7, <2>1, <2>2, MarkedKeeps
<1>10. positions' = [positions EXCEPT ![c] = p]
       /\ seen' = [seen EXCEPT ![c] = seen[c] \cup {p.unrealized}]
  BY <1>1, <1>2 DEF TickPrice, TypeOK
<1>11. /\ UNCHANGED <<connected, started, failed, ready>> /\ Publish(FALSE)
       /\ UNCHANGED <<pnlOf, pnlRequests, marketOf, nextPnl, nextMarket, served>>
  BY DEF TickPrice, Callback
<1>12. \A i \in Id : marketRequests[i] = FreeRequest => marketRequests'[i] = FreeRequest
  BY <1>5 DEF TickPrice
<1> HIDE DEF c, p, u
<1>13. QED
  BY <1>2, <1>5, <1>7, <1>9, <1>10, <1>11, <1>12, MarksInv DEF MarketRequest

LEMMA NextInv == LiveContextInv /\ [Next]_vars => LiveContextInv'
<1> SUFFICES ASSUME LiveContextInv, [Next]_vars
             PROVE  LiveContextInv'
  OBVIOUS
<1>1. TypeOK
  BY DEF LiveContextInv
<1>2. published \in Context /\ (started => ShowsLots(published, ready, positions))
  BY DEF LiveContextInv, TypeOK, Context, LotsPublished, ShowsLots
<1>3. ASSUME NEW force \in BOOLEAN, Publish(force), ready' \in BOOLEAN, UNCHANGED positions
      PROVE  /\ throttled' \in BOOLEAN /\ published' \in Context
             /\ force \/ (started /\ ready' = ready) => ShowsLots(published', ready', positions')
  <2>1. positions' \in [Contract -> PositionRecord]
    BY <1>1, <1>3 DEF TypeOK
  <2>2. QED
    BY <1>3, <2>1, PublishShows
<1>4. CASE Connect
  BY <1>4, ConnectInv
<1>5. CASE NextValidId
  <2>1. Publish(TRUE) /\ ready' \in BOOLEAN /\ UNCHANGED positions
    BY <1>1, <1>5 DEF NextValidId, TypeOK
  <2>2. QED
    BY <1>1, <1>3, <1>5, <2>1, FlagsInv DEF NextValidId, Callback, TypeOK
<1>6. CASE PositionEnd
  <2>1. Publish(TRUE) /\ ready' \in BOOLEAN /\ UNCHANGED positions
    BY <1>6 DEF PositionEnd
  <2>2. QED
    BY <1>1, <1>3, <1>6, <2>1, FlagsInv DEF PositionEnd, Callback, TypeOK
<1>7. CASE Fail
  BY <1>1, <1>2, <1>7, FlagsInv DEF Fail, Callback, TypeOK
<1>8. CASE Shutdown
  BY <1>8, ServedLess DEF Shutdown
<1>9. CASE QuarterSecond
  BY <1>1, <1>2, <1>9, FlagsInv DEF QuarterSecond, TypeOK
<1>10. ASSUME NEW c \in Contract, Position(c)
       PROVE  LiveContextInv'
  BY <1>10, PositionOpenInv, PositionClosedInv DEF Position, Callback
<1>11. ASSUME NEW force \in BOOLEAN, StreamUpdate(force)
       PROVE  LiveContextInv'
  <2>1. Publish(force) /\ ready' \in BOOLEAN /\ UNCHANGED positions
    BY <1>1, <1>11 DEF StreamUpdate, TypeOK
  <2>2. QED
    BY <1>1, <1>3, <1>11, <2>1, FlagsInv DEF StreamUpdate, Callback, TypeOK
<1>12. ASSUME NEW id \in Id, NEW u \in Profit \cup {Unset}, PnlSingle(id, u)
       PROVE  LiveContextInv'
  BY <1>12, PnlSingleInv
<1>13. ASSUME NEW id \in Id, NEW f \in Field, NEW price \in Price, TickPrice(id, f, price)
       PROVE  LiveContextInv'
  BY <1>13, TickPriceInv
<1>14. ASSUME NEW kind \in {"pnl", "market"}, NEW id \in Id, RequestError(kind, id)
       PROVE  LiveContextInv'
  BY <1>14, RequestErrorInv
<1>15. CASE UNCHANGED vars
  BY <1>1, <1>2, <1>15, FlagsInv DEF vars, TypeOK
<1>16. QED
  BY <1>4, <1>5, <1>6, <1>7, <1>8, <1>9, <1>10, <1>11, <1>12, <1>13, <1>14, <1>15 DEF Next

LEMMA InitInv == Init => LiveContextInv
<1> SUFFICES ASSUME Init PROVE LiveContextInv
  OBVIOUS
<1>1. TypeOK
  <2>1. /\ positions \in [Contract -> PositionRecord] /\ seen \in [Contract -> SUBSET Int]
        /\ pnlOf \in [Contract -> Id \cup {0}] /\ marketOf \in [Contract -> Id \cup {0}]
        /\ pnlRequests \in [Id -> Contract \cup {Free}]
        /\ marketRequests \in [Id -> MarketRequest]
        /\ nextPnl \in 1 .. LastRequest + 1 /\ nextMarket \in 1 .. LastRequest + 1
    BY EmptyMaps DEF Init
  <2>2. published \in [ready : BOOLEAN, positions : [Contract -> PositionRecord]]
    BY EmptyMaps DEF Init
  <2>3. QED
    BY <2>1, <2>2 DEF Init, TypeOK, MarketRequest
<1>2. RequestsMatchPositions /\ RequestsFresh
  BY NoPositionMarks, ContractAssumption
     DEF Init, RequestsMatchPositions, RequestsFresh, Held, Id, FreeRequest
<1>3. MarksOfLots /\ LotsPublished
  BY NoPositionMarks DEF Init, MarksOfLots, LotsPublished
<1>4. QED
  BY <1>1, <1>2, <1>3 DEF LiveContextInv

LEMMA Invariant == Spec => []LiveContextInv
BY InitInv, NextInv, PTL DEF Spec

-----------------------------------------------------------------------------
(* The theorems.                                                           *)

\* Type correctness, for any contracts, lots, prices, profits and requests.
THEOREM TypeCorrect == Spec => []TypeOK
<1>1. LiveContextInv => TypeOK
  BY DEF LiveContextInv
<1>2. QED
  BY <1>1, Invariant, PTL

\* The request maps agree with each other, with the positions and with what TWS
\* serves, in whatever order positions are opened, closed and reopened and whatever
\* requests are refused or answered late.
THEOREM RequestsCorrect == Spec => []RequestsMatchPositions
<1>1. LiveContextInv => RequestsMatchPositions
  BY DEF LiveContextInv
<1>2. QED
  BY <1>1, Invariant, PTL

\* The peak is the largest profit computed for the lot in hand, and the giveback is
\* measured from it, whichever of the two streams computed them.
THEOREM PeakCorrect == Spec => []PeakOfThisLot
<1>1. LiveContextInv => PeakOfThisLot
  <2> SUFFICES ASSUME LiveContextInv, NEW c \in Contract
               PROVE  LET p == positions[c]
                      IN /\ p.peak = IF seen[c] = {} THEN Unset ELSE Max(seen[c])
                         /\ (p.unrealized # Unset /\ p.peak > 0) =>
                                p.giveback = p.peak - p.unrealized
    BY DEF PeakOfThisLot
  <2>1. MarksSeen(positions[c], seen[c]) /\ seen[c] \subseteq Int
    BY DEF LiveContextInv, MarksOfLots, TypeOK
  <2>2. ASSUME seen[c] # {}
        PROVE  positions[c].peak = Max(seen[c])
    <3>1. positions[c].peak \in seen[c] /\ \A u \in seen[c] : positions[c].peak >= u
      BY <2>1, <2>2 DEF MarksSeen
    <3>2. Max(seen[c]) \in seen[c] /\ \A u \in seen[c] : Max(seen[c]) >= u
      BY <3>1 DEF Max
    <3>3. QED
      BY <2>1, <3>1, <3>2
  <2>3. QED
    BY <2>1, <2>2 DEF MarksSeen
<1>2. QED
  BY <1>1, Invariant, PTL

\* The store always shows the lots that are held: the throttle delays marks only.
THEOREM PublishedCorrect == Spec => []LotsPublished
<1>1. LiveContextInv => LotsPublished
  BY DEF LiveContextInv
<1>2. QED
  BY <1>1, Invariant, PTL

=============================================================================
