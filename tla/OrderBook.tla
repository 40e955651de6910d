----------------------------- MODULE OrderBook -----------------------------
(***************************************************************************)
(* lob::OrderBook (include/lob/order_book.hpp, src/core/order_book.cpp):   *)
(* price levels that are intrusive doubly linked FIFOs of pool slots, an   *)
(* id -> slot index, and cached best prices.                               *)
(*                                                                         *)
(* A call takes several steps: the call itself, one step per trade of the  *)
(* matching sweep (each trade leaves through the sink before the next is   *)
(* made), the end of the sweep, where the remainder rests, and the return. *)
(* The pool is used through its interface: a set of free slots, of which   *)
(* allocate returns one; module Pool shows that both free-list policies    *)
(* implement that.  A free slot holds no order: its union with next_free   *)
(* is overwritten and rest_order sets every field again, so its content is *)
(* the default record.  seq_ only numbers the trades; it is modelled where *)
(* the number is used, in TradePipeline.                                   *)
(***************************************************************************)
EXTENDS LobTypes, Sequences, FiniteSets, FiniteSetsExt

CONSTANTS Handles, \* the slots of the pool; max_orders is their number
          Null     \* kNullHandle

ASSUME NullAssumption   == Null \notin Handles
ASSUME FiniteAssumption == IsFiniteSet(Handles)

VARIABLES
    levels,    \* levels_[tick]: head and tail of the FIFO, total quantity
    pool,      \* pool_[handle]: the Order in each slot
    free,      \* the slots the pool can hand out
    id_index,  \* id_index_[id], Null for an id that is not in the map
    best_bid, best_ask,
    pc,        \* where the call in progress is
    call, res, \* its arguments and locals, its ExecResult
    trade      \* the trade this step pushed to the sink, if any

book   == <<levels, pool, free, id_index, best_bid, best_ask>>
client == <<pc, call, res, trade>>
vars   == <<levels, pool, free, id_index, best_bid, best_ask,
            pc, call, res, trade>>

Link == Handles \cup {Null}

Order == [remaining : Quantity, prev : Link, next : Link,
          id : Ids \cup {NullId}, price : Ticks, side : Side,
          owner : Owners \cup {0}]

DefaultOrder == [remaining |-> 0, prev |-> Null, next |-> Null, id |-> NullId,
                 price |-> 0, side |-> "Buy", owner |-> 0]

PriceLevel == [head : Link, tail : Link, total : Quantity]

Live == Handles \ free

TypeOK ==
    /\ levels \in [Ticks -> PriceLevel]
    /\ pool \in [Handles -> Order]
    /\ free \in SUBSET Handles
    /\ id_index \in [Ids -> Link]
    /\ best_bid \in Ticks \cup {NoPrice}
    /\ best_ask \in Ticks \cup {NoPrice}
    /\ pc \in {"idle", "sweep", "done"}
    /\ call \in Call
    /\ (call.type = "Limit" => call.price \in Ticks)
    /\ (pc = "sweep" => call.id \in Ids)
    /\ res \in ExecResult
    /\ trade \in Trade \cup {NoTrade}

Init ==
    /\ levels = [p \in Ticks |-> [head |-> Null, tail |-> Null, total |-> 0]]
    /\ pool = [h \in Handles |-> DefaultOrder]
    /\ free = Handles
    /\ id_index = [i \in Ids |-> Null]
    /\ best_bid = NoPrice
    /\ best_ask = NoPrice
    /\ pc = "idle"
    /\ call = NoCall
    /\ res = EmptyResult
    /\ trade = NoTrade

-----------------------------------------------------------------------------
(* Repricing: the first non-empty level inward from the old best price. *)

NonEmpty(lv) == {p \in Ticks : lv[p].head # Null}

BidOneTickDown(lv) == best_bid - 1              \* mutant: no scan

reprice_best_bid(lv) ==
    LET S == {p \in NonEmpty(lv) : p <= best_bid}
    IN  IF S = {} THEN NoPrice ELSE CHOOSE p \in S : \A q \in S : q <= p

AskWithoutSentinel(lv) ==                       \* mutant: runs off the array
    LET S == {p \in NonEmpty(lv) \cup {TickRange} : p >= best_ask}
    IN  CHOOSE p \in S : \A q \in S : q >= p

reprice_best_ask(lv) ==
    LET S == {p \in NonEmpty(lv) : p >= best_ask}
    IN  IF S = {} THEN NoPrice ELSE CHOOSE p \in S : \A q \in S : q >= p

(* The level without the order o that was linked into it. *)
KeepsTail(l, o) ==                              \* mutant: tail not moved
    [head  |-> IF o.prev # Null THEN l.head ELSE o.next,
     tail  |-> l.tail,
     total |-> (l.total - o.remaining) % QMod]

KeepsTotal(l, o) ==                             \* mutant: aggregate not updated
    [head  |-> IF o.prev # Null THEN l.head ELSE o.next,
     tail  |-> IF o.next # Null THEN l.tail ELSE o.prev,
     total |-> l.total]

Spliced(l, o) ==
    [head  |-> IF o.prev # Null THEN l.head ELSE o.next,
     tail  |-> IF o.next # Null THEN l.tail ELSE o.prev,
     total |-> (l.total - o.remaining) % QMod]

(* The order in slot g once the slot h of order o is unlinked and free. *)
OnlyForward(g, h, o, pl) ==                     \* mutant: prev link left dangling
    CASE g = h      -> DefaultOrder
      [] g = o.prev -> [pl[g] EXCEPT !.next = o.next]
      [] OTHER      -> pl[g]

Relinked(g, h, o, pl) ==
    CASE g = h      -> DefaultOrder
      [] g = o.prev -> [pl[g] EXCEPT !.next = o.next]
      [] g = o.next -> [pl[g] EXCEPT !.prev = o.prev]
      [] OTHER      -> pl[g]

(* Pool::deallocate *)
LeakSlot(h) == free                             \* mutant: slot not returned

deallocate(h) == free \cup {h}

(* Splice slot h out of its level, take its remaining quantity off the     *)
(* level's total, return the slot and move a best price whose level is now *)
(* empty.  pl and lv are the pool and the levels at the time of the call.  *)
unlink_and_free(h, pl, lv) ==
    LET o == pl[h]
        lv2 == [lv EXCEPT ![o.price] = Spliced(lv[o.price], o)]
        emptied == lv2[o.price].head = Null
    IN  /\ levels' = lv2
        /\ pool' = [g \in Handles |-> Relinked(g, h, o, pl)]
        /\ free' = deallocate(h)
        /\ best_bid' = IF emptied /\ o.side = "Buy" /\ o.price = best_bid
                         THEN reprice_best_bid(lv2) ELSE best_bid
        /\ best_ask' = IF emptied /\ o.side = "Sell" /\ o.price = best_ask
                         THEN reprice_best_ask(lv2) ELSE best_ask

(* id_index_.erase(id) *)
KeepEntry(id) == id_index                       \* mutant: entry not erased

erase(id) == [id_index EXCEPT ![id] = Null]

(* The order a new order in slot h is linked behind, if any. *)
LinkToSelf(l, h) ==                             \* mutant: tail moved before it is read
    IF l.head = Null THEN Null ELSE h

OldTail(l, h) == IF l.head = Null THEN Null ELSE l.tail

(* Append a new order, in slot h, at the tail of its level. *)
rest_in_slot(h, id, side, price, qty, owner) ==
    LET l == levels[price]
        last == OldTail(l, h)
        o == [remaining |-> qty, prev |-> last, next |-> Null,
              id |-> id, price |-> price, side |-> side, owner |-> owner]
    IN  /\ free' = free \ {h}
        /\ pool' = [g \in Handles |->
                       CASE g = h    -> o
                         [] g = last -> [pool[g] EXCEPT !.next = h]
                         [] OTHER    -> pool[g]]
        /\ levels' = [levels EXCEPT ![price] =
              [head  |-> IF l.head = Null THEN h ELSE l.head,
               tail  |-> h,
               total |-> (l.total + qty) % QMod]]
        /\ id_index' = [id_index EXCEPT ![id] = h]
        /\ best_bid' = IF side = "Buy" /\ (best_bid = NoPrice \/ price > best_bid)
                         THEN price ELSE best_bid
        /\ best_ask' = IF side = "Sell" /\ (best_ask = NoPrice \/ price < best_ask)
                         THEN price ELSE best_ask

(* An exhausted pool leaves the book as it is. *)
rest_order(id, side, price, qty, owner) ==
    \/ free = {} /\ UNCHANGED book
    \/ \E h \in free : rest_in_slot(h, id, side, price, qty, owner)

-----------------------------------------------------------------------------
(* The FIFO of a level as a sequence of slots, oldest first: what following *)
(* the next links from the head meets.                                      *)
Fifo(p) ==
    LET walk[n \in 0 .. Cardinality(Handles)] ==
          IF n = 0 THEN <<>>
          ELSE LET s == walk[n - 1]
                   h == IF s = <<>> THEN levels[p].head
                                    ELSE pool[s[Len(s)]].next
               IN  IF h = Null THEN s ELSE Append(s, h)
    IN  walk[Cardinality(Handles)]

RemainingOf(s, n) == MapThenSumSet(LAMBDA i : pool[s[i]].remaining, 1 .. n)

(* Position of the first order of this owner in a level, 0 if none. *)
FirstOwn(p, owner) ==
    LET own == {i \in 1 .. Len(Fifo(p)) : SelfTrade(owner, pool[Fifo(p)[i]].owner)}
    IN  IF own = {} THEN 0 ELSE CHOOSE i \in own : \A j \in own : i <= j

CountWholeLevel(p, owner) == levels[p].total    \* mutant: ignores the owner

(* What count_level adds for level p: the aggregate of the level for an    *)
(* anonymous order, else the orders up to the first one of the owner.      *)
count_level(p, owner) ==
    IF owner = 0 THEN levels[p].total
    ELSE RemainingOf(Fifo(p), IF FirstOwn(p, owner) = 0 THEN Len(Fifo(p))
                                                  ELSE FirstOwn(p, owner) - 1)

(* The read-only walk of Fok: level by level from the best price to the    *)
(* limit, through the first level that holds an order of the same owner,   *)
(* the quantity counted so far is at some level enough.                    *)
can_fill(c) ==
    LET best == IF c.side = "Buy" THEN best_ask ELSE best_bid
        walked(p) == {q \in Ticks : IF c.side = "Buy" THEN best <= q /\ q <= p
                                                      ELSE p <= q /\ q <= best}
    IN  /\ Crosses(c, best)
        /\ \E p \in {q \in Ticks : Crosses(c, q) /\ q \in walked(q)} :
             /\ \A q \in walked(p) \ {p} : FirstOwn(q, c.owner) = 0
             /\ MapThenSumSet(LAMBDA q : count_level(q, c.owner), walked(p)) % QMod
                  >= c.qty

-----------------------------------------------------------------------------
(* Calls *)

(* The caller gets its ExecResult. *)
Answer(c, r) ==
    /\ pc' = "done"
    /\ call' = c
    /\ res' = r
    /\ trade' = NoTrade

StartSweep(c) ==
    /\ pc' = "sweep"
    /\ call' = c
    /\ res' = EmptyResult
    /\ trade' = NoTrade

(* submit, up to the sweep: a Fok that cannot be filled is rejected.  The  *)
(* id of a new order is not the id of a resting one.                       *)
submit(id, side, type, price, qty, owner) ==
    LET c == SubmitCall("submit", id, side, type, price, qty, owner)
    IN  /\ pc = "idle"
        /\ id_index[id] = Null
        /\ IF type = "Fok" /\ ~can_fill(c)
             THEN Answer(c, [EmptyResult EXCEPT !.id = id])
             ELSE StartSweep(c)
        /\ UNCHANGED book

OppositeBest == IF call.side = "Buy" THEN best_ask ELSE best_bid

(* The order the sweep meets next: the head of the best opposite level. *)
MeetsNewest == levels[OppositeBest].tail        \* mutant: newest first

Meets == levels[OppositeBest].head

(* The loop of match goes on. *)
Matches == /\ call.remaining > 0
           /\ Crosses(call, OppositeBest)
           /\ ~SelfTrade(call.owner, pool[Meets].owner)

(* One iteration of match: trade with the head of the best opposite level  *)
(* and, if that fills the resting order, remove it.                        *)
match ==
    LET h == Meets
        o == pool[h]
        traded == Lesser(call.remaining, o.remaining)
        pool1 == [pool EXCEPT ![h].remaining = @ - traded]
        levels1 == [levels EXCEPT ![o.price].total = (@ - traded) % QMod]
    IN  /\ pc = "sweep"
        /\ Matches
        /\ call' = [call EXCEPT !.remaining = @ - traded, !.filled = @ + traded]
        /\ trade' = [resting_id |-> o.id, incoming_id |-> call.id,
                     price |-> o.price, quantity |-> traded]
        /\ \/ /\ o.remaining = traded
              /\ unlink_and_free(h, pool1, levels1)
              /\ id_index' = erase(o.id)
           \/ /\ o.remaining # traded
              /\ pool' = pool1
              /\ levels' = levels1
              /\ UNCHANGED <<free, id_index, best_bid, best_ask>>
        /\ UNCHANGED <<pc, res>>

(* submit, after the sweep: a Limit order rests what is left, unless that  *)
(* would cross the book.                                                   *)
RestsUntouched ==                               \* mutant: partly filled is dropped
    /\ call.remaining > 0
    /\ call.type = "Limit"
    /\ call.filled = 0
    /\ ~Crosses(call, OppositeBest)

Rests == /\ call.remaining > 0
         /\ call.type = "Limit"
         /\ ~Crosses(call, OppositeBest)

ReportQuantity ==                               \* mutant: resting is the whole order
    [id |-> call.id, accepted |-> TRUE, filled |-> call.filled,
     resting |-> IF Rests THEN call.qty ELSE 0,
     fully_filled |-> call.remaining = 0]

SubmitResult ==
    [id |-> call.id, accepted |-> TRUE, filled |-> call.filled,
     resting |-> IF Rests THEN call.remaining ELSE 0,
     fully_filled |-> call.remaining = 0]

finish_submit ==
    /\ pc = "sweep"
    /\ ~Matches
    /\ \/ Rests /\ rest_order(call.id, call.side, call.price, call.remaining,
                              call.owner)
       \/ ~Rests /\ UNCHANGED book
    /\ Answer(call, SubmitResult)

CancelCall(op, id) == [NoCall EXCEPT !.op = op, !.id = id]

cancel(id) ==
    /\ pc = "idle"
    /\ \/ /\ id_index[id] = Null
          /\ Answer(CancelCall("cancel", id), EmptyResult)
          /\ UNCHANGED book
       \/ /\ id_index[id] # Null
          /\ unlink_and_free(id_index[id], pool, levels)
          /\ id_index' = erase(id)
          /\ Answer(CancelCall("cancel", id), [EmptyResult EXCEPT !.accepted = TRUE])

(* modify: unknown id; zero quantity, which cancels; an edit in place; or  *)
(* cancel and resubmit as a Limit order.                                   *)
modify(id, new_price, new_qty) ==
    LET h == id_index[id]
        o == pool[h]
        c == SubmitCall("modify", id, o.side, "Limit", new_price, new_qty, o.owner)
        accepted == [EmptyResult EXCEPT !.id = id, !.accepted = TRUE]
    IN  /\ pc = "idle"
        /\ \/ /\ h = Null
              /\ Answer(CancelCall("modify", id), EmptyResult)
              /\ UNCHANGED book
           \/ /\ h # Null
              /\ new_qty = 0
              /\ unlink_and_free(h, pool, levels)
              /\ id_index' = erase(id)
              /\ Answer(CancelCall("modify", id), accepted)
           \/ /\ h # Null
              /\ new_qty # 0
              /\ new_price = o.price /\ new_qty <= o.remaining
              /\ pool' = [pool EXCEPT ![h].remaining = new_qty]
              /\ levels' = [levels EXCEPT ![o.price].total =
                               (@ - (o.remaining - new_qty)) % QMod]
              /\ UNCHANGED <<free, id_index, best_bid, best_ask>>
              /\ Answer(c, [accepted EXCEPT !.resting = new_qty])
           \/ /\ h # Null
              /\ new_qty # 0
              /\ new_price # o.price \/ new_qty > o.remaining
              /\ unlink_and_free(h, pool, levels)
              /\ id_index' = erase(id)
              /\ StartSweep(c)

(* The caller takes its result and is free to call again. *)
return ==
    /\ pc = "done"
    /\ pc' = "idle"
    /\ call' = NoCall
    /\ res' = EmptyResult
    /\ trade' = NoTrade
    /\ UNCHANGED book

Submit == \E id \in Ids, side \in Side, type \in OrderType, qty \in Quantities,
             owner \in Owners : \E price \in CallPrices(type) :
             submit(id, side, type, price, qty, owner)

Cancel == \E id \in Ids : cancel(id)

Modify == \E id \in Ids, price \in Ticks, qty \in Quantities :
             modify(id, price, qty)

Next == Submit \/ match \/ finish_submit \/ Cancel \/ Modify \/ return

Spec == Init /\ [][Next]_vars

-----------------------------------------------------------------------------
(* Properties *)

(* The intrusive links of unlink_and_free and rest_order: neighbours point *)
(* at each other, an order without a neighbour is the head or the tail of  *)
(* its level, and head and tail are live orders of that level.             *)
Linked ==
    /\ \A h \in Live :
         LET o == pool[h] IN
         /\ o.prev = Null => levels[o.price].head = h
         /\ o.next = Null => levels[o.price].tail = h
         /\ o.prev # Null => /\ o.prev \in Live
                             /\ pool[o.prev].next = h
                             /\ pool[o.prev].price = o.price
         /\ o.next # Null => /\ o.next \in Live
                             /\ pool[o.next].prev = h
                             /\ pool[o.next].price = o.price
    /\ \A p \in Ticks :
         /\ levels[p].head # Null => /\ levels[p].head \in Live
                                     /\ pool[levels[p].head].price = p
                                     /\ pool[levels[p].head].prev = Null
         /\ levels[p].tail # Null => /\ levels[p].tail \in Live
                                     /\ pool[levels[p].tail].price = p
                                     /\ pool[levels[p].tail].next = Null
         /\ levels[p].head = Null <=> levels[p].tail = Null

(* No set of live orders is closed under prev: the links of a level form   *)
(* no cycle, so that a level without a head has no orders.                 *)
Grounded ==
    \A S \in SUBSET Live : S # {} => \E h \in S : pool[h].prev \notin S

(* Every live order is reachable from the head of its level exactly once,  *)
(* and has quantity left: no slot leaks, none is linked twice.             *)
FifosHoldTheLiveOrders ==
    /\ \A p \in Ticks :
         LET here == {h \in Live : pool[h].price = p}
         IN  /\ {Fifo(p)[i] : i \in 1 .. Len(Fifo(p))} = here
             /\ Len(Fifo(p)) = Cardinality(here)
    /\ \A h \in Live : pool[h].remaining > 0

(* The id index and the live slots are in one-to-one correspondence: a     *)
(* cancel or modify reaches the order of that id and no recycled slot.     *)
IndexExact ==
    /\ \A h \in Live : pool[h].id \in Ids /\ id_index[pool[h].id] = h
    /\ \A i \in Ids : id_index[i] # Null =>
                         id_index[i] \in Live /\ pool[id_index[i]].id = i

(* The sweep of a new order: its id is not in the index, so that resting   *)
(* it makes one entry, and what was filled and what remains add up.        *)
SweepSound ==
    pc = "sweep" => /\ id_index[call.id] = Null
                    /\ call.filled + call.remaining = call.qty

OnSide(side) == {h \in Live : pool[h].side = side}

(* The cached best prices are the best prices of the live orders, and the  *)
(* book is not crossed; so a level never holds orders of both sides, which *)
(* the repricing scans and bid_size_at rely on.                            *)
BestPrices ==
    /\ \A h \in OnSide("Buy")  : pool[h].price <= best_bid
    /\ \A h \in OnSide("Sell") : best_ask # NoPrice /\ best_ask <= pool[h].price
    /\ best_bid # NoPrice => \E h \in OnSide("Buy")  : pool[h].price = best_bid
    /\ best_ask # NoPrice => \E h \in OnSide("Sell") : pool[h].price = best_ask
    /\ best_bid # NoPrice /\ best_ask # NoPrice => best_bid < best_ask

(* The inductive invariant of the book. *)
BookInv ==
    TypeOK /\ Linked /\ Grounded /\ IndexExact /\ SweepSound /\ BestPrices

(* The aggregate of a level, kept by four different updates, is the sum of *)
(* the remaining quantities of its orders (in the width of Quantity).      *)
LevelTotals ==
    \A p \in Ticks :
      levels[p].total =
        MapThenSumSet(LAMBDA h : pool[h].remaining,
                      {h \in Live : pool[h].price = p}) % QMod

(* Fill-or-kill: the walk of can_fill and the sweep agree, so an accepted  *)
(* Fok is filled entirely and a rejected one not at all.                   *)
FokAllOrNothing ==
    pc = "done" /\ call.type = "Fok" =>
        res.filled = IF res.accepted THEN call.qty ELSE 0

(* A Limit order (a modify resubmits one) whose remainder neither traded   *)
(* nor rests was stopped by an order of its own owner at the best opposite *)
(* price: self-trade prevention is the only reason to drop quantity.       *)
DroppedOnlyBySelfTrade ==
    pc = "done" /\ call.type = "Limit" /\ res.accepted
      /\ res.filled + res.resting < call.qty =>
        /\ Crosses(call, OppositeBest)
        /\ SelfTrade(call.owner, pool[Meets].owner)

RestsInBook(id, qty) == id_index[id] # Null /\ pool[id_index[id]].remaining = qty

(* ExecResult.resting is the quantity left resting in the book.            *)
RestingIsInBook ==
    pc = "done" /\ call.op # "cancel" =>
        IF res.resting = 0 THEN id_index[call.id] = Null
                           ELSE RestsInBook(call.id, res.resting)

(* A modify that reports a resting quantity has not lost the order: the    *)
(* slot it gave back is still there when the order is resubmitted.         *)
ModifyKeepsOrder ==
    pc = "done" /\ call.op = "modify" /\ res.resting > 0 =>
        RestsInBook(call.id, res.resting)

(* Time priority: a FIFO loses an order from its middle only when a client *)
(* cancels or modifies that order, loses its head when it is traded away   *)
(* at the best price, gains an order only at its tail, and is otherwise    *)
(* untouched (an edit in place keeps the position).                        *)
TimePriority ==
    [][\A p \in Ticks :
         LET old == Fifo(p)
             new == Fifo(p)'
             gone(i) == SubSeq(old, 1, i - 1) \o SubSeq(old, i + 1, Len(old))
         IN  \/ new = old
             \/ \E i \in 1 .. Len(old) :
                  /\ new = gone(i)
                  /\ \/ pc = "idle" /\ call'.id = pool[old[i]].id
                     \/ /\ pc = "sweep" /\ i = 1
                        /\ trade'.resting_id = pool[old[1]].id
                        /\ p = OppositeBest
             \/ \E h \in free : /\ pc = "sweep"
                                /\ new = Append(old, h)
                                /\ pool'[h].id = call.id]_vars
=============================================================================
