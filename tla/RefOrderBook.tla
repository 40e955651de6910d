---------------------------- MODULE RefOrderBook ----------------------------
(***************************************************************************)
(* lob::RefOrderBook (include/lob/ref_order_book.hpp), the slow reference  *)
(* the fuzz test compares OrderBook with.  It is the abstract              *)
(* specification of an order book: per side a map from prices to FIFOs of  *)
(* orders, an index of the open orders, no pool, no links, no aggregates   *)
(* and no cached best price.  A price whose FIFO is empty is a price that  *)
(* is not a key of the map.  OrderBookRefinement shows that OrderBook      *)
(* implements it.                                                          *)
(***************************************************************************)
EXTENDS LobTypes, Sequences, FiniteSetsExt

VARIABLES bids, asks, \* bids_, asks_: the FIFO of each price
          id_index,   \* id_index_[id], NoInfo for an id not in the map
          pc, call, res, trade

vars == <<bids, asks, id_index, pc, call, res, trade>>

RefOrder == [id : Ids, side : Side, price : Ticks, remaining : Quantity,
             owner : Owners \cup {0}]

Info(side, price, owner) == [side |-> side, price |-> price, owner |-> owner]

NoInfo == Info("Buy", NoPrice, 0)

Init ==
    /\ bids = [p \in Ticks |-> <<>>]
    /\ asks = [p \in Ticks |-> <<>>]
    /\ id_index = [i \in Ids |-> NoInfo]
    /\ pc = "idle"
    /\ call = NoCall
    /\ res = EmptyResult
    /\ trade = NoTrade

-----------------------------------------------------------------------------
Book(side) == IF side = "Buy" THEN bids ELSE asks

SetBook(side, b) ==
    IF side = "Buy" THEN bids' = b /\ UNCHANGED asks
                    ELSE asks' = b /\ UNCHANGED bids

Keys(b) == {p \in Ticks : b[p] # <<>>}

best(side) ==
    LET K == Keys(Book(side))
    IN  IF K = {} THEN NoPrice
        ELSE CHOOSE p \in K : \A q \in K : IF side = "Buy" THEN q <= p ELSE p <= q

(* A Market order reaches every price. *)
Reaches(c, p) ==
    \/ c.type = "Market"
    \/ IF c.side = "Buy" THEN p <= c.price ELSE p >= c.price

(* scan_level: the orders of the FIFO an incoming owner can trade with, up *)
(* to the first one of its own.                                            *)
Own(dq, owner) == {i \in 1 .. Len(dq) : SelfTrade(owner, dq[i].owner)}

scan_level(dq, owner) ==
    MapThenSumSet(LAMBDA i : dq[i].remaining,
                  {i \in 1 .. Len(dq) : \A j \in Own(dq, owner) : i < j})

(* Some prefix of the reachable prices, in priority order and cut at the   *)
(* first order of the same owner, offers the quantity.                     *)
can_fill(c) ==
    LET opp == Book(Opposite(c.side))
        reached == {p \in Keys(opp) : Reaches(c, p)}
        upto(p) == {q \in reached : IF c.side = "Buy" THEN q <= p ELSE q >= p}
    IN  \/ c.qty = 0
        \/ \E p \in reached :
             /\ \A q \in upto(p) \ {p} : Own(opp[q], c.owner) = {}
             /\ MapThenSumSet(LAMBDA q : scan_level(opp[q], c.owner), upto(p)) % QMod
                  >= c.qty

Position(dq, id) == CHOOSE i \in 1 .. Len(dq) : dq[i].id = id

Without(dq, i) == SubSeq(dq, 1, i - 1) \o SubSeq(dq, i + 1, Len(dq))

-----------------------------------------------------------------------------
Answer(c, r) ==
    /\ pc' = "done"
    /\ call' = c
    /\ res' = r
    /\ trade' = NoTrade

StartSweep(c) ==
    /\ pc' = "sweep"
    /\ call' = c
    /\ res' = EmptyResult
    /\ trade' = NoTrade

submit(id, side, type, price, qty, owner) ==
    LET c == SubmitCall("submit", id, side, type, price, qty, owner)
    IN  /\ pc = "idle"
        /\ id_index[id] = NoInfo
        /\ IF type = "Fok" /\ ~can_fill(c)
             THEN Answer(c, [EmptyResult EXCEPT !.id = id])
             ELSE StartSweep(c)
        /\ UNCHANGED <<bids, asks, id_index>>

OppositeBest == best(Opposite(call.side))

Front == Book(Opposite(call.side))[OppositeBest][1]

Matches == /\ call.remaining > 0
           /\ OppositeBest # NoPrice
           /\ Reaches(call, OppositeBest)
           /\ ~SelfTrade(call.owner, Front.owner)

do_match ==
    LET rst == Front
        opp == Book(Opposite(call.side))
        traded == Lesser(call.remaining, rst.remaining)
    IN  /\ pc = "sweep"
        /\ Matches
        /\ call' = [call EXCEPT !.remaining = @ - traded, !.filled = @ + traded]
        /\ trade' = [resting_id |-> rst.id, incoming_id |-> call.id,
                     price |-> rst.price, quantity |-> traded]
        /\ IF rst.remaining = traded
             THEN /\ SetBook(rst.side, [opp EXCEPT ![rst.price] = Tail(@)])
                  /\ id_index' = [id_index EXCEPT ![rst.id] = NoInfo]
             ELSE /\ SetBook(rst.side,
                             [opp EXCEPT ![rst.price][1].remaining = @ - traded])
                  /\ UNCHANGED id_index
        /\ UNCHANGED <<pc, res>>

Rests == /\ call.remaining > 0
         /\ call.type = "Limit"
         /\ ~(OppositeBest # NoPrice /\ Reaches(call, OppositeBest))

rest(c) ==
    /\ SetBook(c.side,
               [Book(c.side) EXCEPT ![c.price] =
                   Append(@, [id |-> c.id, side |-> c.side, price |-> c.price,
                              remaining |-> c.remaining, owner |-> c.owner])])
    /\ id_index' = [id_index EXCEPT ![c.id] = Info(c.side, c.price, c.owner)]

finish_submit ==
    /\ pc = "sweep"
    /\ ~Matches
    /\ IF Rests THEN rest(call) ELSE UNCHANGED <<bids, asks, id_index>>
    /\ Answer(call, [id |-> call.id, accepted |-> TRUE,
                     filled |-> call.filled,
                     resting |-> IF Rests THEN call.remaining ELSE 0,
                     fully_filled |-> call.remaining = 0])

(* Erase an open order from its FIFO and from the index. *)
erase(id) ==
    LET i == id_index[id]
    IN  /\ SetBook(i.side, [Book(i.side) EXCEPT ![i.price] =
                               Without(@, Position(@, id))])
        /\ id_index' = [id_index EXCEPT ![id] = NoInfo]

CancelCall(op, id) == [NoCall EXCEPT !.op = op, !.id = id]

cancel(id) ==
    /\ pc = "idle"
    /\ IF id_index[id] = NoInfo
         THEN /\ Answer(CancelCall("cancel", id), EmptyResult)
              /\ UNCHANGED <<bids, asks, id_index>>
         ELSE /\ erase(id)
              /\ Answer(CancelCall("cancel", id),
                        [EmptyResult EXCEPT !.accepted = TRUE])

(* modify of an open order. *)
modify_open(id, new_price, new_qty) ==
    LET i == id_index[id]
        dq == Book(i.side)[i.price]
        at == Position(dq, id)
        in_place == new_price = i.price /\ new_qty <= dq[at].remaining
        c == SubmitCall("modify", id, i.side, "Limit", new_price, new_qty, i.owner)
        accepted == [EmptyResult EXCEPT !.id = id, !.accepted = TRUE]
    IN  \/ /\ new_qty = 0
           /\ erase(id)
           /\ Answer(CancelCall("modify", id), accepted)
        \/ /\ new_qty # 0 /\ in_place
           /\ SetBook(i.side, [Book(i.side) EXCEPT ![i.price][at].remaining = new_qty])
           /\ UNCHANGED id_index
           /\ Answer(c, [accepted EXCEPT !.resting = new_qty])
        \/ /\ new_qty # 0 /\ ~in_place
           /\ erase(id)
           /\ StartSweep(c)

modify(id, new_price, new_qty) ==
    /\ pc = "idle"
    /\ IF id_index[id] = NoInfo
         THEN /\ Answer(CancelCall("modify", id), EmptyResult)
              /\ UNCHANGED <<bids, asks, id_index>>
         ELSE modify_open(id, new_price, new_qty)

return ==
    /\ pc = "done"
    /\ pc' = "idle"
    /\ call' = NoCall
    /\ res' = EmptyResult
    /\ trade' = NoTrade
    /\ UNCHANGED <<bids, asks, id_index>>

Submit == \E id \in Ids, side \in Side, type \in OrderType, qty \in Quantities,
             owner \in Owners : \E price \in CallPrices(type) :
             submit(id, side, type, price, qty, owner)

Cancel == \E id \in Ids : cancel(id)

Modify == \E id \in Ids, price \in Ticks, qty \in Quantities :
             modify(id, price, qty)

Next == Submit \/ do_match \/ finish_submit \/ Cancel \/ Modify \/ return

Spec == Init /\ [][Next]_vars
=============================================================================
