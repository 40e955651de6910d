-------------------------- MODULE PhotonBookProofs --------------------------
(***************************************************************************)
(* Proofs about PhotonBook: its events describe the book, and expiry is    *)
(* complete for GTD orders and never early.  The invariant of the core     *)
(* comes from OrderBookProofs; PhotonInv is the invariant of the rest.     *)
(***************************************************************************)
EXTENDS PhotonBook, TLAPS

P == INSTANCE OrderBookProofs

(* The slots are finite for OrderBookProofs, too. *)
LEMMA FiniteCore == P!IsFiniteSet(Handles)
BY HandlesAssumption DEF IsFiniteSet, P!IsFiniteSet

(* What the theorems of OrderBookProofs assume of the constants. *)
USE NullIdAssumption, TickRangeAssumption, QModAssumption, QuantitiesAssumption,
    OwnersAssumption, HandlesAssumption, FiniteCore

(* The core of PhotonBook is read twice here: as B, which PhotonBook uses, *)
(* and as P, about which OrderBookProofs has its theorems.  The lemmas up  *)
(* to SubmitCore show that the two are the same.                           *)
LEMMA SameInit ==
    ASSUME B!Init
    PROVE  P!Init
BY DEF B!Init, P!Init, B!DefaultOrder, P!DefaultOrder, B!Ticks, P!Ticks,
       B!NoPrice, P!NoPrice, B!NoCall, P!NoCall, B!EmptyResult, P!EmptyResult,
       B!NoTrade, P!NoTrade

(* The empty result, call and trade.                                       *)
LEMMA SameData == /\ B!EmptyResult = P!EmptyResult /\ B!NoCall = P!NoCall
                  /\ B!NoTrade = P!NoTrade
<1>1. B!EmptyResult = P!EmptyResult
  BY Zenon DEF B!EmptyResult, P!EmptyResult
<1>2. B!NoCall = P!NoCall /\ B!NoTrade = P!NoTrade
  BY DEF B!NoCall, P!NoCall, B!NoTrade, P!NoTrade, B!NoPrice, P!NoPrice
<1> QED
  BY <1>1, <1>2

(* unlink_and_free.                                                        *)
LEMMA SameUnlink ==
    ASSUME NEW h, NEW pl, NEW lv, B!unlink_and_free(h, pl, lv)
    PROVE  P!unlink_and_free(h, pl, lv)
BY DEF B!unlink_and_free, P!unlink_and_free, B!Spliced, P!Spliced, B!Relinked,
       P!Relinked, B!deallocate, P!deallocate, B!reprice_best_bid,
       P!reprice_best_bid, B!reprice_best_ask, P!reprice_best_ask, B!NonEmpty,
       P!NonEmpty, B!Ticks, P!Ticks, B!NoPrice, P!NoPrice, B!DefaultOrder,
       P!DefaultOrder, B!erase, P!erase

(* The condition of the loop of match.                                     *)
LEMMA SameMatches == B!Matches <=> P!Matches
BY DEF B!Matches, P!Matches, B!Crosses, P!Crosses, B!LimitPrice, P!LimitPrice,
       B!OppositeBest, P!OppositeBest, B!NoPrice, P!NoPrice, B!SelfTrade,
       P!SelfTrade, B!Meets, P!Meets

(* One trade of the sweep.                                                 *)
LEMMA SameMatch ==
    ASSUME B!match
    PROVE  P!match
BY SameMatches, SameUnlink DEF B!match, P!match, B!Meets, P!Meets,
       B!OppositeBest, P!OppositeBest, B!Lesser, P!Lesser, B!erase, P!erase

(* The end of submit.                                                      *)
LEMMA SameFinish ==
    ASSUME B!finish_submit
    PROVE  P!finish_submit
BY SameMatches DEF B!finish_submit, P!finish_submit, B!Rests, P!Rests,
       B!rest_order, P!rest_order, B!rest_in_slot, P!rest_in_slot, B!OldTail,
       P!OldTail, B!Answer, P!Answer, B!SubmitResult, P!SubmitResult,
       B!Crosses, P!Crosses, B!LimitPrice, P!LimitPrice, B!OppositeBest,
       P!OppositeBest, B!NoPrice, P!NoPrice, B!NoTrade, P!NoTrade, B!book,
       P!book

(* cancel.                                                                 *)
LEMMA SameCancel ==
    ASSUME NEW id, B!cancel(id)
    PROVE  P!cancel(id)
BY SameUnlink, SameData DEF B!cancel, P!cancel, B!CancelCall, P!CancelCall,
       B!Answer, P!Answer, B!erase, P!erase, B!book, P!book

(* modify.                                                                 *)
LEMMA SameModify ==
    ASSUME NEW id, NEW np, NEW nq, B!modify(id, np, nq)
    PROVE  P!modify(id, np, nq)
BY SameUnlink, SameData DEF B!modify, P!modify, B!CancelCall, P!CancelCall,
       B!Answer, P!Answer, B!erase, P!erase, B!book, P!book, B!StartSweep,
       P!StartSweep, B!SubmitCall, P!SubmitCall

(* The return of a call.                                                   *)
LEMMA SameReturn ==
    ASSUME B!return
    PROVE  P!return
BY SameData DEF B!return, P!return, B!book, P!book

(* submit up to the sweep keeps the invariant of the core, whatever        *)
(* can_fill decides.                                                       *)
LEMMA SubmitCore ==
    ASSUME P!BookInv, NEW id \in Ids, NEW side \in Side, NEW type \in OrderType,
           NEW qty \in Quantities, NEW owner \in Owners,
           NEW price \in CallPrices(type),
           B!submit(id, side, type, price, qty, owner)
    PROVE  P!BookInv'
<1> DEFINE c == P!SubmitCall("submit", id, side, type, price, qty, owner)
           no == [P!EmptyResult EXCEPT !.id = id]
<1>1. /\ side \in P!Side /\ type \in P!OrderType /\ price \in P!CallPrices(type)
      /\ c = B!SubmitCall("submit", id, side, type, price, qty, owner)
      /\ no = [B!EmptyResult EXCEPT !.id = id]
  BY SameData DEF Side, P!Side, OrderType, P!OrderType, CallPrices,
         P!CallPrices,
     Ticks, P!Ticks, NoPrice, P!NoPrice, B!SubmitCall, P!SubmitCall
<1>2. c \in P!Call /\ (c.type = "Limit" => c.price \in P!Ticks)
  BY <1>1, P!CallTypes, P!CallPriceTypes DEF P!SubmitCall
<1>3. c.id = id /\ c.filled + c.remaining = c.qty
  BY QuantitiesAssumption, QModAssumption DEF P!SubmitCall
<1>4. no \in P!ExecResult
  BY P!CallTypes DEF P!ExecResult
<1>5. /\ P!Structure' /\ P!IndexExact' /\ id_index' \in [Ids -> P!Link]
      /\ id_index' = id_index /\ id_index[id] = Null
  BY P!SameBook DEF B!submit, B!book, P!book
<1>6. P!Answer(c, no) \/ P!StartSweep(c)
  BY <1>1, SameData DEF B!submit, B!Answer, P!Answer, B!StartSweep,
         P!StartSweep
<1>7. P!ClientTypes' /\ P!SweepSound'
  BY <1>2, <1>3, <1>4, <1>5, <1>6, P!AnswerClient, P!SweepClient
<1> QED
  BY <1>5, <1>7, P!InvFromParts

(* The core starts in its invariant.                                       *)
LEMMA CoreInit == B!Init => P!BookInv
BY SameInit, P!InitBookInv

(* Every step of the core, as PhotonBook takes it, keeps the invariant.    *)
LEMMA CoreStep == P!BookInv /\ [B!Next]_(B!vars) => P!BookInv'
<1> SUFFICES ASSUME P!BookInv, [B!Next]_(B!vars) PROVE P!BookInv'
  OBVIOUS
<1>1. CASE B!Submit
  <2>1. PICK id \in Ids, side \in Side, type \in OrderType, qty \in Quantities,
             owner \in Owners : \E price \in CallPrices(type) :
               B!submit(id, side, type, price, qty, owner)
    BY <1>1 DEF B!Submit, Side, OrderType, B!Side, B!OrderType, CallPrices,
           B!CallPrices,
         Ticks, B!Ticks, NoPrice, B!NoPrice
  <2> QED
    BY <2>1, SubmitCore
<1>2. CASE B!match
  BY <1>2, SameMatch, P!MatchInv
<1>3. CASE B!finish_submit
  BY <1>3, SameFinish, P!FinishInv
<1>4. CASE B!Cancel
  BY <1>4, SameCancel, P!CancelInv DEF B!Cancel
<1>5. CASE B!Modify
  BY <1>5, SameModify, P!ModifyInv DEF B!Modify, B!Ticks, P!Ticks
<1>6. CASE B!return
  BY <1>6, SameReturn, P!ReturnInv
<1>7. CASE UNCHANGED B!vars
  BY <1>7, P!StutterInv DEF B!vars, P!vars
<1> QED
  BY <1>1, <1>2, <1>3, <1>4, <1>5, <1>6, <1>7 DEF B!Next

-----------------------------------------------------------------------------
(* What PhotonBook relies on in the core. *)

Open == Handles \ free

Core ==
    /\ free \in SUBSET Handles
    /\ id_index \in [Ids -> Handles \cup {Null}]
    /\ pool \in [Handles -> P!Order]
    /\ \A h \in Open : pool[h].id \in Ids /\ id_index[pool[h].id] = h
    /\ \A i \in Ids : id_index[i] # Null => id_index[i] \in Open /\ pool[id_index[i]].id = i
    /\ call \in P!Call
    /\ call.type = "Limit" => call.price \in Ticks
    /\ pc = "sweep" => call.id \in Ids /\ id_index[call.id] = Null

(* These facts are part of the invariant of the core.                      *)
LEMMA CoreHolds == P!BookInv => Core
BY DEF P!BookInv, P!TypeOK, P!IndexExact, P!SweepSound, P!Live, P!Link,
       P!Ticks, Ticks, Core, Open

(* The same after a step.                                                  *)
LEMMA CoreHoldsNext == P!BookInv' => Core'
BY CoreHolds DEF P!BookInv, P!TypeOK, P!IndexExact, P!SweepSound, P!Live,
       P!Link, P!Ticks, Ticks, Core, Open

(* A step that leaves the orders in the slots S as the consumer sees them. *)
Same(S) == \A g \in S : /\ pool'[g].id = pool[g].id
                        /\ pool'[g].side = pool[g].side
                        /\ pool'[g].price = pool[g].price
                        /\ pool'[g].remaining = pool[g].remaining

(* A step of the core that removes the open order in slot h. *)
Drops(h) == /\ h \in Open /\ Open' = Open \ {h}
            /\ id_index' = [id_index EXCEPT ![pool[h].id] = Null]
            /\ Same(Open \ {h})

(* A step that gives the open order in slot h the quantity q. *)
Edits(h, q) == /\ h \in Open /\ Open' = Open
               /\ id_index' = id_index
               /\ Same(Open \ {h})
               /\ pool'[h] = [pool[h] EXCEPT !.remaining = q]

(* A step that leaves the book alone. *)
Keeps == Open' = Open /\ id_index' = id_index /\ pool' = pool

(* A step that puts a new order in slot h. *)
Adds(h) == /\ h \in Handles \ Open /\ Open' = Open \cup {h}
           /\ id_index' = [id_index EXCEPT ![call.id] = h]
           /\ Same(Open)
           /\ pool'[h].id = call.id /\ pool'[h].side = call.side
           /\ pool'[h].price = call.price /\ pool'[h].remaining = call.remaining

(* unlink_and_free with the erased id drops one order, and no other order  *)
(* changes for a consumer; pl is the pool after a last fill.               *)
LEMMA UnlinkDrops ==
    ASSUME Core, NEW h \in Open, NEW q \in P!Quantity, NEW pl, NEW lv,
           pl = [pool EXCEPT ![h].remaining = q],
           B!unlink_and_free(h, pl, lv), id_index' = B!erase(pool[h].id)
    PROVE  Drops(h)
<1>1. h \in Handles /\ pl \in [Handles -> P!Order] /\ \A g \in Handles \ {h} : pl[g] = pool[g]
  BY DEF Core, Open, P!Order
<1>2. /\ free' = free \cup {h}
      /\ pool' = [g \in Handles |-> B!Relinked(g, h, pl[h], pl)]
  BY DEF B!unlink_and_free, B!deallocate
<1>3. Same(Open \ {h})
  BY <1>1, <1>2 DEF Same, Open, B!Relinked, P!Order
<1> QED
  BY <1>2, <1>3 DEF Drops, Open, B!erase

(* The same for the order an id names.                                     *)
LEMMA IdDrops ==
    ASSUME Core, NEW id \in Ids, id_index[id] # Null,
           B!unlink_and_free(id_index[id], pool, levels), id_index' = B!erase(id)
    PROVE  Drops(id_index[id]) /\ pool[id_index[id]].id = id
<1> DEFINE h == id_index[id]
<1>1. h \in Open /\ pool[h].id = id /\ pool[h].remaining \in P!Quantity
  BY DEF Core, Open, P!Order
<1>2. pool = [pool EXCEPT ![h].remaining = pool[h].remaining]
  BY <1>1 DEF Core, P!Order, Open
<1> QED
  BY <1>1, <1>2, UnlinkDrops

(* A trade takes its quantity from the order it meets, and drops that      *)
(* order when nothing is left.                                             *)
LEMMA MatchSteps ==
    ASSUME P!BookInv, B!match
    PROVE  \E h \in Open : LET t == Lesser(call.remaining, pool[h].remaining) IN
             /\ h = B!Meets
             /\ pc = "sweep" /\ pc' = "sweep"
             /\ call' = [call EXCEPT !.remaining = @ - t, !.filled = @ + t]
             /\ trade'.resting_id = pool[h].id /\ trade'.quantity = t
             /\ \/ pool[h].remaining = t /\ Drops(h)
                \/ pool[h].remaining # t /\ Edits(h, pool[h].remaining - t)
<1> DEFINE h == B!Meets
           t == Lesser(call.remaining, pool[h].remaining)
           pool1 == [pool EXCEPT ![h].remaining = @ - t]
<1>1. Core
  BY CoreHolds
<1>2. h = P!Meets /\ t = B!Lesser(call.remaining, pool[h].remaining)
  BY DEF B!Meets, P!Meets, B!OppositeBest, P!OppositeBest, Lesser, B!Lesser
<1>3. h \in Open
  BY <1>2, SameMatches, P!MeetsLive DEF B!match, P!Matches, P!Live, Open
<1>4. /\ pool[h].remaining - t \in P!Quantity
      /\ pool1 = [pool EXCEPT ![h].remaining = pool[h].remaining - t]
  BY <1>1, <1>3 DEF Core, Open, P!Order, P!Quantity, Lesser, P!Call
<1>5. /\ pc = "sweep" /\ pc' = "sweep"
      /\ call' = [call EXCEPT !.remaining = @ - t, !.filled = @ + t]
      /\ trade'.resting_id = pool[h].id /\ trade'.quantity = t
  BY <1>2 DEF B!match
<1>6. CASE /\ pool[h].remaining = t
           /\ id_index' = B!erase(pool[h].id)
           /\ B!unlink_and_free(h, pool1, [levels EXCEPT ![pool[h].price].total = (@ - t) % QMod])
  BY <1>1, <1>3, <1>4, <1>5, <1>6, UnlinkDrops
<1>7. CASE /\ pool[h].remaining # t
           /\ pool' = pool1
           /\ UNCHANGED <<free, id_index, best_bid, best_ask>>
  <2>1. Edits(h, pool[h].remaining - t)
    BY <1>1, <1>3, <1>4, <1>7 DEF Edits, Same, Open, Core
  <2> QED
    BY <1>3, <1>5, <1>7, <2>1
<1> QED
  BY <1>2, <1>6, <1>7 DEF B!match

(* The end of submit opens the order in a free slot, or leaves the book    *)
(* alone.                                                                  *)
LEMMA FinishSteps ==
    ASSUME P!BookInv, B!finish_submit
    PROVE  /\ pc = "sweep" /\ pc' = "done"
           /\ \/ ~B!Rests /\ Keeps
              \/ B!Rests /\ free = {} /\ Keeps
              \/ B!Rests /\ free # {} /\ Adds(id_index'[call.id])
<1>1. Core
  BY CoreHolds
<1>2. pc = "sweep" /\ pc' = "done"
  BY DEF B!finish_submit, B!Answer
<1>3. CASE UNCHANGED B!book /\ (~B!Rests \/ free = {})
  BY <1>2, <1>3 DEF B!book, Keeps, Open
<1>4. ASSUME B!Rests, NEW h \in free,
             B!rest_in_slot(h, call.id, call.side, call.price, call.remaining, call.owner)
      PROVE  Adds(h) /\ h = id_index'[call.id]
  <2>1. id_index' = [id_index EXCEPT ![call.id] = h] /\ call.id \in Ids
    BY <1>1, <1>2, <1>4 DEF B!rest_in_slot, Core
  <2>2. h \in Handles /\ h \notin Open /\ Open' = Open \cup {h}
    BY <1>1, <1>4 DEF B!rest_in_slot, Core, Open
  <2>3. /\ Same(Open)
        /\ pool'[h].id = call.id /\ pool'[h].side = call.side
        /\ pool'[h].price = call.price /\ pool'[h].remaining = call.remaining
    <3> DEFINE last == B!OldTail(levels[call.price], h)
               o == [remaining |-> call.remaining, prev |-> last, next |-> Null,
                     id |-> call.id, price |-> call.price, side |-> call.side,
                     owner |-> call.owner]
    <3> HIDE DEF last
    <3>1. pool' = [g \in Handles |-> CASE g = h    -> o
                                       [] g = last -> [pool[g] EXCEPT !.next = h]
                                       [] OTHER    -> pool[g]]
      BY <1>4 DEF B!rest_in_slot, last
    <3>2. last # h
      <4>1. call.price \in P!Ticks
        BY <1>1, <1>4 DEF Core, B!Rests, Ticks, P!Ticks
      <4> QED
        BY <1>4, <2>2, <4>1 DEF P!BookInv, P!Linked, P!Live, Open, B!OldTail,
               last
    <3>4. pool'[h] = o
      BY <2>2, <3>1, <3>2
    <3>3. ASSUME NEW g \in Open
          PROVE  pool'[g] = pool[g] \/ pool'[g] = [pool[g] EXCEPT !.next = h]
      BY <2>2, <3>1 DEF Open
    <3>5. ASSUME NEW g \in Open PROVE pool[g] \in P!Order
      BY <1>1 DEF Core, Open
    <3>6. Same(Open)
      BY <3>3, <3>5 DEF Same, P!Order
    <3> QED
      BY <3>4, <3>6
  <2> QED
    BY <1>1, <2>1, <2>2, <2>3 DEF Adds, Core
<1> QED
  BY <1>2, <1>3, <1>4 DEF B!finish_submit, B!rest_order

(* cancel drops the order of the id, if it is open.                        *)
LEMMA CancelSteps ==
    ASSUME P!BookInv, NEW id \in Ids, B!cancel(id)
    PROVE  /\ pc = "idle" /\ pc' = "done" 
           /\ \/ id_index[id] = Null /\ Keeps
              \/ /\ id_index[id] # Null /\ Drops(id_index[id])
                 /\ pool[id_index[id]].id = id
BY CoreHolds, IdDrops DEF B!cancel, B!Answer, B!book, Keeps, Open

(* modify drops, edits, or drops and resubmits the order of the id.        *)
LEMMA ModifySteps ==
    ASSUME P!BookInv, NEW id \in Ids, NEW np \in Ticks, NEW nq \in Quantities, B!modify(id, np, nq)
    PROVE  LET h == id_index[id] IN
           /\ pc = "idle"
           /\ \/ h = Null /\ pc' = "done" /\ Keeps
              \/ h # Null /\ nq = 0 /\ pc' = "done" /\ Drops(h) /\ pool[h].id = id
              \/ /\ h # Null /\ nq # 0 /\ pc' = "done" /\ np = pool[h].price
                 /\ Edits(h, nq) /\ pool[h].id = id
              \/ /\ h # Null /\ nq # 0 /\ pc' = "sweep" /\ Drops(h) /\ pool[h].id = id
                 /\ call'.id = id
<1> DEFINE h == id_index[id]
           o == pool[h]
           c == B!SubmitCall("modify", id, o.side, "Limit", np, nq, o.owner)
<1>1. Core /\ (h # Null => h \in Open /\ pool[h].id = id)
  BY CoreHolds DEF Core
<1>2. CASE h = Null /\ pc' = "done" /\ UNCHANGED B!book
  BY <1>2 DEF B!modify, B!book, Keeps, Open
<1>3. CASE /\ h # Null /\ B!unlink_and_free(h, pool, levels)
           /\ id_index' = B!erase(id)
           /\ \/ nq = 0 /\ pc' = "done"
              \/ nq # 0 /\ pc' = "sweep" /\ call' = c
  BY <1>1, <1>3, IdDrops DEF B!modify, B!SubmitCall
<1>4. CASE /\ h # Null /\ nq # 0 /\ np = o.price /\ pc' = "done"
           /\ pool' = [pool EXCEPT ![h].remaining = nq]
           /\ UNCHANGED <<free, id_index, best_bid, best_ask>>
  <2>1. Edits(h, nq)
    BY <1>1, <1>4 DEF Edits, Same, Open, Core
  <2> QED
    BY <1>1, <1>4, <2>1 DEF B!modify
<1> QED
  BY <1>2, <1>3, <1>4 DEF B!modify, B!Answer, B!StartSweep

-----------------------------------------------------------------------------
(* The inductive invariant of PhotonBook, on top of that of the core. *)

PhotonInv == TypeOK /\ EventsShowBook /\ GtdQueued /\ LivesAgree

(* An event other than a fill tells of the order it names.                 *)
LEMMA EmitNamed ==
    ASSUME NEW v, NEW type, type # "Fill", NEW side, NEW id, NEW counter,
           NEW price, NEW qty, NEW leaves
    PROVE  emit(v, Update(type, side, id, counter, price, qty, leaves)) =
             [i \in Ids |-> IF i = id THEN Shown(side, price, leaves) ELSE v[i]]
BY DEF emit, Update

(* After an event that says an order is gone nothing is known of it.       *)
LEMMA EmitGone ==
    ASSUME NEW v, NEW type, type # "Fill", NEW side, NEW id, NEW price, NEW qty
    PROVE  emit(v, Gone(type, side, id, price, qty)) =
             [i \in Ids |-> IF i = id THEN Unknown ELSE v[i]]
BY EmitNamed DEF Gone, Shown

(* A fill tells of the resting order and, if it is known, of the incoming  *)
(* one.                                                                    *)
LEMMA EmitFill ==
    ASSUME NEW v, NEW u, u.type = "Fill", u.counter_id # u.order_id
    PROVE  emit(v, u) =
             [i \in Ids |->
                IF i = u.counter_id
                  THEN Shown(v[i].side, v[i].price, v[i].leaves - u.quantity)
                ELSE IF i = u.order_id /\ v[i] # Unknown
                  THEN Shown(v[i].side, v[i].price, u.leaves_qty)
                ELSE v[i]]
BY DEF emit

(* What an event shows has its type.                                       *)
LEMMA ShownTypes ==
    /\ \A side \in Side, price \in Ticks, leaves \in Quantity :
         Shown(side, price, leaves) \in Known \cup {Unknown}
    /\ \A v \in Known \cup {Unknown}, leaves \in Quantity :
         v # Unknown => Shown(v.side, v.price, leaves) \in Known \cup {Unknown}
BY DEF Shown, Known

(* Every time in force has its type.                                       *)
LEMMA LifeTypes == NoLife \in Life /\ Lives \subseteq Life
BY LivesAssumption DEF NoLife, Life

(* Steps that open no order keep the expiries in step with the book. *)
LEMMA LivesStep ==
    ASSUME TypeOK, GtdQueued, LivesAgree, Core,
           \A g \in Open' : /\ g \in Open /\ pool'[g].id = pool[g].id
                            /\ tif'[g] = tif[g],
           \A i \in Ids : id_index'[i] # Null => id_index[i] # Null,
           \A i \in Ids : pc' = "sweep" /\ call'.id = i =>
             id_index[i] # Null \/ (pc = "sweep" /\ call.id = i),
           \A i \in Ids : id_index'[i] # Null \/ (pc' = "sweep" /\ call'.id = i) =>
             granted'[i] = granted[i],
           pc' = "sweep" => call'.id \in Ids /\ life' = granted[call'.id] /\ ~expiring',
           expiry_queue' \subseteq expiry_queue,
           \A e \in expiry_queue \ expiry_queue' : \A g \in Open' :
             pool[g].id # e.order_id,
           Core'
    PROVE  GtdQueued' /\ LivesAgree'
<1>1. GtdQueued'
  BY DEF GtdQueued, Open
<1>2. ASSUME NEW h \in Open' PROVE tif'[h] = granted'[pool'[h].id]
  BY <1>2 DEF LivesAgree, Core, Open
<1>3. pc' = "sweep" => life' = granted'[call'.id] /\ ~expiring'
  OBVIOUS
<1>4. ASSUME NEW e \in expiry_queue',
             id_index'[e.order_id] # Null \/ (pc' = "sweep" /\ call'.id = e.order_id)
      PROVE  /\ granted'[e.order_id].tif # "GTC"
             /\ granted'[e.order_id].expiry_ns = e.expiry_ns
  <2>1. e \in expiry_queue /\ e.order_id \in Ids
    BY DEF TypeOK, ExpiryEntry
  <2> QED
    BY <1>4, <2>1 DEF LivesAgree
<1> QED
  BY <1>1, <1>2, <1>3, <1>4 DEF LivesAgree, Open

(* A step that drops the order in slot h, and after which the consumer     *)
(* knows nothing else of the open orders, keeps the events in step.        *)
LEMMA ViewStep ==
    ASSUME EventsShowBook, Core,
           \A g \in Open' : /\ g \in Open
                            /\ view'[pool[g].id] = view[pool[g].id],
           Same(Open')
    PROVE  EventsShowBook'
BY DEF EventsShowBook, Same, Open

(* Initially there is no order, event or entry.                            *)
LEMMA InitPhoton == Init => PhotonInv
<1> SUFFICES ASSUME Init PROVE PhotonInv
  OBVIOUS
<1>1. TypeOK
  BY LifeTypes DEF Init, TypeOK
<1>2. free = Handles /\ pc = "idle" /\ expiry_queue = {}
  BY DEF Init, B!Init
<1> QED
  BY <1>1, <1>2 DEF PhotonInv, EventsShowBook, GtdQueued, LivesAgree

(* submit up to the sweep: nothing names the new id yet.                   *)
LEMMA SubmitPhoton ==
    ASSUME P!BookInv, P!BookInv', PhotonInv,
           NEW id \in Ids, NEW side \in Side, NEW type \in OrderType,
           NEW qty \in Quantities, NEW owner \in Owners,
           NEW price \in CallPrices(type), NEW l \in Lives \cup {NoLife},
           submit(id, side, type, price, qty, owner, l)
    PROVE  PhotonInv'
<1>1. Core /\ TypeOK /\ EventsShowBook /\ GtdQueued /\ LivesAgree
  BY CoreHolds DEF PhotonInv
<1>2. /\ id_index' = id_index /\ pool' = pool /\ free' = free /\ Open' = Open
      /\ id_index[id] = Null
      /\ pc' = "done" \/ (pc' = "sweep" /\ call'.id = id)
  BY DEF submit, B!submit, B!book, B!Answer, B!StartSweep, B!SubmitCall, Open
<1>3. view' = view
  <2>1. view = [i \in Ids |-> IF i = id THEN Unknown ELSE view[i]]
    BY <1>1 DEF submit, TypeOK
  <2>2. emit(view, Gone("Rejected", side, id, price, qty)) =
          [i \in Ids |-> IF i = id THEN Unknown ELSE view[i]]
    BY EmitGone
  <2>3. view' = view \/ view' = [i \in Ids |-> IF i = id THEN Unknown ELSE view[i]]
    BY <2>2 DEF submit
  <2> QED
    BY <2>1, <2>3
<1>4. /\ life' = IF pc' = "done" THEN NoLife ELSE l
      /\ granted' = [granted EXCEPT ![id] = l]
      /\ UNCHANGED <<tif, expiry_queue, expiring, clock, has_empty, endless>>
      /\ ~expiring
      /\ \A e \in expiry_queue : e.order_id # id
  BY DEF submit, Idle
<1>5. TypeOK'
  BY <1>1, <1>3, <1>4, LifeTypes DEF TypeOK
<1>6. EventsShowBook' /\ GtdQueued'
  BY <1>1, <1>2, <1>3, <1>4 DEF EventsShowBook, GtdQueued
<1>7. LivesAgree'
  <2>1. \A h \in Open : pool[h].id # id /\ pool[h].id \in Ids
    BY <1>1, <1>2 DEF Core, Open
  <2>2. \A i \in Ids \ {id} : granted'[i] = granted[i]
    BY <1>1, <1>4 DEF TypeOK
  <2>3. \A h \in Open' : tif'[h] = granted'[pool'[h].id]
    BY <1>1, <1>2, <1>4, <2>1, <2>2 DEF LivesAgree, Open
  <2>4. pc' = "sweep" => life' = granted'[call'.id] /\ ~expiring'
    BY <1>1, <1>2, <1>4 DEF TypeOK
  <2>5. ASSUME NEW e \in expiry_queue',
               id_index'[e.order_id] # Null \/ (pc' = "sweep" /\ call'.id = e.order_id)
        PROVE  /\ granted'[e.order_id].tif # "GTC"
               /\ granted'[e.order_id].expiry_ns = e.expiry_ns
    <3>1. e \in expiry_queue /\ e.order_id \in Ids \ {id}
      BY <1>1, <1>4 DEF TypeOK, ExpiryEntry
    <3> QED
      BY <1>1, <1>2, <2>2, <2>5, <3>1 DEF LivesAgree
  <2> QED
    BY <2>3, <2>4, <2>5 DEF LivesAgree, Open
<1> QED
  BY <1>5, <1>6, <1>7 DEF PhotonInv

(* One trade: the fill takes from the view what the trade takes from the   *)
(* book.                                                                   *)
LEMMA MatchPhoton ==
    ASSUME P!BookInv, P!BookInv', PhotonInv, match
    PROVE  PhotonInv'
<1>1. Core /\ Core' /\ TypeOK /\ EventsShowBook /\ GtdQueued /\ LivesAgree
  BY CoreHolds, CoreHoldsNext DEF PhotonInv
<1>2. PICK h \in Open : LET t == Lesser(call.remaining, pool[h].remaining) IN
             /\ pc = "sweep" /\ pc' = "sweep"
             /\ call' = [call EXCEPT !.remaining = @ - t, !.filled = @ + t]
             /\ trade'.resting_id = pool[h].id /\ trade'.quantity = t
             /\ \/ pool[h].remaining = t /\ Drops(h)
                \/ pool[h].remaining # t /\ Edits(h, pool[h].remaining - t)
  BY MatchSteps DEF match
<1> DEFINE t == Lesser(call.remaining, pool[h].remaining)
           o == pool[h]
<1>3. /\ o \in P!Order /\ o.id \in Ids /\ id_index[o.id] = h /\ h # Null
      /\ call.id \in Ids /\ id_index[call.id] = Null /\ o.id # call.id
      /\ call \in P!Call
  BY <1>1, <1>2 DEF Core, Open
<1>4. /\ o.remaining - t \in Quantity /\ call.remaining - t \in Quantity
      /\ o.side \in Side /\ o.price \in Ticks
  BY <1>3 DEF P!Order, P!Call, Lesser, Quantity, P!Quantity, Side, P!Side,
         Ticks, P!Ticks
<1>5. /\ call'.id = call.id /\ call'.remaining = call.remaining - t
      /\ call' \in P!Call
  BY <1>1, <1>2, <1>3 DEF P!Call, Core
<1>6. \A i \in Ids : view'[i] =
        IF i = o.id THEN Shown(view[i].side, view[i].price, view[i].leaves - t)
        ELSE IF i = call.id /\ view[i] # Unknown
               THEN Shown(view[i].side, view[i].price, call.remaining - t)
        ELSE view[i]
  BY <1>2, <1>3, <1>5, EmitFill DEF match, Fill, Update
<1>7. view[o.id] = Shown(o.side, o.price, o.remaining)
  BY <1>1, <1>2 DEF EventsShowBook, Open
<1>8. view'[o.id] \in Known \cup {Unknown}
      /\ (o.remaining # t => view'[o.id] = Shown(o.side, o.price, o.remaining - t))
  <2>1. view'[o.id] = Shown(view[o.id].side, view[o.id].price, view[o.id].leaves - t)
    BY <1>3, <1>6
  <2>2. CASE o.remaining = 0
    <3>1. t = 0
      BY <1>3, <2>2 DEF P!Call, P!Quantity, Lesser
    <3>2. view[o.id] = Unknown
      BY <1>7, <2>2 DEF Shown
    <3>3. view[o.id].leaves = 0
      BY <3>2 DEF Unknown
    <3> QED
      BY <2>1, <2>2, <3>1, <3>3 DEF Shown
  <2>3. CASE o.remaining # 0
    <3>1. view[o.id] = [side |-> o.side, price |-> o.price, leaves |-> o.remaining]
      BY <1>7, <2>3 DEF Shown
    <3>2. view'[o.id] = Shown(o.side, o.price, o.remaining - t)
      BY <2>1, <3>1
    <3> QED
      BY <1>4, <3>2, ShownTypes
  <2> QED
    BY <2>2, <2>3
<1>9. TypeOK'
  <2>1. \A i \in Ids : view'[i] \in Known \cup {Unknown}
    BY <1>1, <1>4, <1>6, <1>8, ShownTypes DEF TypeOK
  <2>2. view' \in [Ids -> Known \cup {Unknown}]
    BY <2>1 DEF match, emit
  <2> QED
    BY <1>1, <2>2, LifeTypes DEF TypeOK, match, KeepLives
<1>10. \A g \in Open \ {h} : view'[pool[g].id] = view[pool[g].id]
  BY <1>1, <1>3, <1>6 DEF Core, Open
<1>11. EventsShowBook'
  <2>1. CASE Drops(h)
    BY <1>1, <1>10, <2>1, ViewStep DEF Drops
  <2>2. CASE o.remaining # t /\ Edits(h, o.remaining - t)
    <3>1. ASSUME NEW g \in Open'
          PROVE  view'[pool'[g].id] = Shown(pool'[g].side, pool'[g].price, pool'[g].remaining)
      <4>1. CASE g = h
        BY <1>3, <1>8, <2>2, <4>1 DEF Edits, P!Order
      <4>2. CASE g # h
        BY <1>1, <1>10, <2>2, <4>2 DEF Edits, Same, EventsShowBook, Open
      <4> QED
        BY <4>1, <4>2
    <3> QED
      BY <3>1 DEF EventsShowBook, Open
  <2> QED
    BY <1>2, <2>1, <2>2
<1>12. \A g \in Open' : g \in Open /\ pool'[g].id = pool[g].id /\ tif'[g] = tif[g]
  <2>1. \A g \in Open' : g \in Open /\ pool'[g].id = pool[g].id
    BY <1>2, <1>3 DEF Drops, Edits, Same, P!Order
  <2> QED
    BY <2>1 DEF match, KeepLives, Open
<1>13. \A i \in Ids : id_index'[i] # Null => id_index[i] # Null
  BY <1>1, <1>2 DEF Drops, Edits, Core
<1>14. /\ life' = life /\ granted' = granted /\ expiry_queue' = expiry_queue
       /\ expiring' = expiring
  BY DEF match
<1>15. life' = granted[call'.id] /\ ~expiring'
  BY <1>1, <1>2, <1>5, <1>14 DEF LivesAgree
<1>16. GtdQueued' /\ LivesAgree'
  BY <1>1, <1>2, <1>3, <1>5, <1>12, <1>13, <1>14, <1>15, LivesStep
<1> QED
  BY <1>9, <1>11, <1>16 DEF PhotonInv

(* The view of a step that tells of one order, which is not open then. *)
LEMMA GoneView ==
    ASSUME TypeOK, Core, NEW id \in Ids,
           view' = [i \in Ids |-> IF i = id THEN Unknown ELSE view[i]],
           NEW h \in Open, pool[h].id = id
    PROVE  /\ view' \in [Ids -> Known \cup {Unknown}]
           /\ \A g \in Open \ {h} : view'[pool[g].id] = view[pool[g].id]
BY DEF TypeOK, Core, Open

(* What the consumer knows when an order leaves. *)
LEMMA LeavesView ==
    ASSUME NEW id \in Ids, id_index[id] # Null, NEW qty,
           Leaves(id, "Canceled", qty) \/ Leaves(id, "Expired", qty)
    PROVE  view' = [i \in Ids |-> IF i = id THEN Unknown ELSE view[i]]
<1> DEFINE o == pool[id_index[id]]
<1>1. ASSUME NEW type \in {"Canceled", "Expired"}
      PROVE  emit(view, Gone(type, o.side, id, o.price, qty)) =
               [i \in Ids |-> IF i = id THEN Unknown ELSE view[i]]
  BY DEF emit, Gone, Update, Shown
<1> QED
  BY <1>1 DEF Leaves

(* A step that drops the order id, as a cancel or an expiry does. *)
LEMMA DropPhoton ==
    ASSUME PhotonInv, Core, Core', NEW h \in Open, Drops(h),
           Leaves(pool[h].id, "Canceled", 0)
             \/ Leaves(pool[h].id, "Expired", pool[h].remaining),
           KeepLives, UNCHANGED <<life, expiring, clock, granted>>,
           has_empty' \in BOOLEAN, endless' \in BOOLEAN,
           pc' # "sweep",
           expiry_queue' \subseteq expiry_queue,
           \A e \in expiry_queue \ expiry_queue' : e.order_id = pool[h].id
    PROVE  PhotonInv'
<1> DEFINE id == pool[h].id
<1>1. TypeOK /\ EventsShowBook /\ GtdQueued /\ LivesAgree
  BY DEF PhotonInv
<1>2. id \in Ids /\ id_index[id] = h /\ h # Null
  BY DEF Core, Open
<1>3. view' = [i \in Ids |-> IF i = id THEN Unknown ELSE view[i]]
  BY <1>2, LeavesView
<1>4. /\ view' \in [Ids -> Known \cup {Unknown}]
      /\ \A g \in Open \ {h} : view'[pool[g].id] = view[pool[g].id]
  BY <1>1, <1>2, <1>3, GoneView
<1>5. TypeOK'
  BY <1>1, <1>4, LifeTypes DEF TypeOK, KeepLives
<1>6. EventsShowBook'
  BY <1>1, <1>4, ViewStep DEF Drops
<1>7. \A g \in Open' : /\ g \in Open /\ pool'[g].id = pool[g].id /\ tif'[g] = tif[g]
                       /\ pool[g].id # id
  <2>1. \A g \in Open' : g \in Open /\ pool'[g].id = pool[g].id /\ g # h
    BY DEF Drops, Same
  <2> QED
    BY <1>2, <2>1 DEF KeepLives, Open, Core
<1>8. \A i \in Ids : id_index'[i] # Null => id_index[i] # Null
  BY DEF Drops, Core
<1> QED
  BY <1>1, <1>5, <1>6, <1>7, <1>8, LivesStep DEF PhotonInv

(* A step that leaves the book and the heap alone and starts no sweep. *)
LEMMA KeepPhoton ==
    ASSUME PhotonInv, Core, Core', Keeps, pc' # "sweep",
           \A g \in Open : tif'[g] = tif[g], tif' \in [Handles -> Life],
           view' = view, life' \in Life, expiring' \in BOOLEAN,
           clock' \in Times \cup {0}, granted' \in [Ids -> Life],
           has_empty' \in BOOLEAN, endless' \in BOOLEAN,
           expiry_queue' \subseteq expiry_queue,
           \A e \in expiry_queue \ expiry_queue' : id_index[e.order_id] = Null,
           \A i \in Ids : id_index[i] # Null => granted'[i] = granted[i]
    PROVE  PhotonInv'
<1>1. TypeOK /\ EventsShowBook /\ GtdQueued /\ LivesAgree
  BY DEF PhotonInv
<1>2. TypeOK'
  BY <1>1 DEF TypeOK
<1>3. EventsShowBook'
  BY <1>1, ViewStep DEF Keeps, Same
<1>4. \A e \in expiry_queue \ expiry_queue' : \A g \in Open' : pool[g].id # e.order_id
  BY DEF Keeps, Core, Open
<1> QED
  BY <1>1, <1>2, <1>3, <1>4, LivesStep DEF PhotonInv, Keeps

(* cancel.                                                                 *)
LEMMA CancelPhoton ==
    ASSUME P!BookInv, P!BookInv', PhotonInv, NEW id \in Ids, cancel(id)
    PROVE  PhotonInv'
<1>1. Core /\ Core' /\ TypeOK
  BY CoreHolds, CoreHoldsNext DEF PhotonInv
<1>2. /\ pc' = "done"
      /\ \/ id_index[id] = Null /\ Keeps
         \/ /\ id_index[id] # Null /\ Drops(id_index[id])
            /\ pool[id_index[id]].id = id
  BY CancelSteps DEF cancel
<1>3. CASE id_index[id] = Null /\ Keeps
  <2>1. view' = view
    BY <1>3 DEF cancel, Leaves
  <2>2. (\A g \in Open : tif'[g] = tif[g]) /\ tif' \in [Handles -> Life]
    BY <1>1, <1>3, LifeTypes DEF cancel, KeepLives, Keeps, Open, TypeOK
  <2> QED
    BY <1>1, <1>2, <1>3, <2>1, <2>2, KeepPhoton DEF cancel, TypeOK
<1>4. CASE /\ id_index[id] # Null /\ Drops(id_index[id])
           /\ pool[id_index[id]].id = id
  BY <1>1, <1>2, <1>4, DropPhoton DEF cancel, Drops, TypeOK
<1> QED
  BY <1>2, <1>3, <1>4

(* One round of check_expiry: the entry it pops names no other open order. *)
LEMMA ExpirePhoton ==
    ASSUME P!BookInv, P!BookInv', PhotonInv, expire
    PROVE  PhotonInv'
<1>1. Core /\ Core' /\ TypeOK
  BY CoreHolds, CoreHoldsNext DEF PhotonInv
<1>2. PICK e \in Due :
         /\ expiry_queue' = Popped(e) /\ endless' = ~Answers(e.order_id)
         /\ \/ /\ id_index[e.order_id] = Null
               /\ UNCHANGED <<book, tif, view>>
            \/ /\ id_index[e.order_id] # Null
               /\ B!cancel(e.order_id)
               /\ Leaves(e.order_id, "Expired", pool[id_index[e.order_id]].remaining)
               /\ KeepLives
  BY DEF expire
<1>3. /\ e \in expiry_queue /\ e.order_id \in Ids
      /\ expiry_queue' = expiry_queue \ {e}
      /\ pc = "idle" /\ UNCHANGED <<life, expiring, clock, granted>>
      /\ has_empty' \in BOOLEAN /\ endless' \in BOOLEAN
  BY <1>1, <1>2 DEF expire, Due, Popped, TypeOK, ExpiryEntry
<1>4. CASE id_index[e.order_id] = Null /\ UNCHANGED <<book, tif, view>>
  <2>1. Keeps /\ pc' = "idle" /\ tif' = tif /\ view' = view
    BY <1>3, <1>4 DEF Keeps, Open, book
  <2> QED
    BY <1>1, <1>3, <1>4, <2>1, KeepPhoton DEF TypeOK
<1>5. CASE /\ id_index[e.order_id] # Null
           /\ B!cancel(e.order_id)
           /\ Leaves(e.order_id, "Expired", pool[id_index[e.order_id]].remaining)
           /\ KeepLives
  <2>1. /\ pc' = "done" /\ Drops(id_index[e.order_id])
        /\ pool[id_index[e.order_id]].id = e.order_id
    BY <1>3, <1>5, CancelSteps
  <2> QED
    BY <1>1, <1>3, <1>5, <2>1, DropPhoton DEF Drops
<1> QED
  BY <1>2, <1>4, <1>5

(* modify: an edit in place is shown by Replaced; a resubmission keeps the *)
(* time in force.                                                          *)
LEMMA ModifyPhoton ==
    ASSUME P!BookInv, P!BookInv', PhotonInv, NEW id \in Ids, NEW np \in Ticks,
           NEW nq \in Quantities, modify(id, np, nq)
    PROVE  PhotonInv'
<1> DEFINE h == id_index[id]
<1>1. Core /\ Core' /\ TypeOK /\ EventsShowBook /\ GtdQueued /\ LivesAgree
  BY CoreHolds, CoreHoldsNext DEF PhotonInv
<1>2. /\ pc = "idle"
      /\ \/ h = Null /\ pc' = "done" /\ Keeps
         \/ h # Null /\ nq = 0 /\ pc' = "done" /\ Drops(h) /\ pool[h].id = id
         \/ /\ h # Null /\ nq # 0 /\ pc' = "done" /\ np = pool[h].price
            /\ Edits(h, nq) /\ pool[h].id = id
         \/ /\ h # Null /\ nq # 0 /\ pc' = "sweep" /\ Drops(h) /\ pool[h].id = id
            /\ call'.id = id
  BY ModifySteps DEF modify
<1>3. /\ KeepLives /\ ~expiring
      /\ UNCHANGED <<expiry_queue, expiring, clock, granted, has_empty, endless>>
  BY DEF modify, Idle
<1>4. tif' \in [Handles -> Life]
  BY <1>1, <1>3, LifeTypes DEF KeepLives, TypeOK
<1>5. CASE h = Null /\ pc' = "done" /\ Keeps
  <2>1. view' = view /\ life' = life
    BY <1>5 DEF modify, Leaves
  <2>2. \A g \in Open : tif'[g] = tif[g]
    BY <1>3, <1>5 DEF KeepLives, Keeps, Open
  <2> QED
    BY <1>1, <1>3, <1>4, <1>5, <2>1, <2>2, KeepPhoton DEF TypeOK
<1>6. CASE h # Null /\ nq = 0 /\ pc' = "done" /\ Drops(h) /\ pool[h].id = id
  <2>1. Leaves(id, "Canceled", 0) /\ life' = life
    BY <1>6 DEF modify
  <2> QED
    BY <1>1, <1>3, <1>6, <2>1, DropPhoton DEF Drops, TypeOK
<1>7. CASE /\ h # Null /\ nq # 0 /\ pc' = "done" /\ np = pool[h].price
           /\ Edits(h, nq) /\ pool[h].id = id
  <2>1. /\ view' = [i \in Ids |-> IF i = id THEN Shown(pool[h].side, np, nq) ELSE view[i]]
        /\ life' = life
    <3>1. view' = emit(view, Update("Replaced", pool[h].side, id, NullId, np, nq, nq))
          /\ life' = life
      BY <1>7 DEF modify
    <3> QED
      BY <3>1 DEF emit, Update
  <2>2. pool[h] \in P!Order /\ h \in Open
    BY <1>1, <1>7 DEF Core, Open, Edits
  <2>3. Shown(pool[h].side, np, nq) \in Known \cup {Unknown}
    BY <2>2, ShownTypes DEF P!Order, Side, P!Side, Quantity
  <2>4. TypeOK'
    BY <1>1, <1>3, <1>4, <2>1, <2>3 DEF TypeOK
  <2>5. \A g \in Open' : /\ g \in Open /\ pool'[g].id = pool[g].id /\ tif'[g] = tif[g]
    BY <1>3, <1>7, <2>2 DEF Edits, Same, P!Order, KeepLives, Open
  <2>6. ASSUME NEW g \in Open'
        PROVE  view'[pool'[g].id] = Shown(pool'[g].side, pool'[g].price, pool'[g].remaining)
    <3>1. CASE g = h
      BY <1>7, <2>1, <2>2, <3>1 DEF Edits, P!Order
    <3>2. CASE g # h
      <4>1. pool[g].id # id /\ pool[g].id \in Ids /\ g \in Open
        BY <1>1, <2>5, <3>2 DEF Core
      <4> QED
        BY <1>1, <1>7, <2>1, <3>2, <4>1 DEF Edits, Same, EventsShowBook, Open
    <3> QED
      BY <3>1, <3>2
  <2>7. EventsShowBook'
    BY <2>6 DEF EventsShowBook, Open
  <2>8. id_index' = id_index
    BY <1>7 DEF Edits
  <2> QED
    BY <1>1, <1>3, <1>7, <2>4, <2>5, <2>7, <2>8, LivesStep DEF PhotonInv
<1>8. CASE /\ h # Null /\ nq # 0 /\ pc' = "sweep" /\ Drops(h) /\ pool[h].id = id
           /\ call'.id = id
  <2>1. view' = view /\ life' = tif[h]
    BY <1>8 DEF modify, KeptLife
  <2>2. h \in Handles /\ h \in Open
    BY <1>8 DEF Drops, Open
  <2>3. life' = granted[id] /\ life' \in Life
    BY <1>1, <1>8, <2>1, <2>2 DEF LivesAgree, TypeOK, Open
  <2>4. TypeOK'
    BY <1>1, <1>3, <1>4, <2>1, <2>3 DEF TypeOK
  <2>5. EventsShowBook'
    BY <1>1, <1>8, <2>1, ViewStep DEF Drops
  <2>6. \A g \in Open' : /\ g \in Open /\ pool'[g].id = pool[g].id /\ tif'[g] = tif[g]
    BY <1>3, <1>8 DEF Drops, Same, KeepLives, Open
  <2>7. \A i \in Ids : id_index'[i] # Null => id_index[i] # Null
    BY <1>1, <1>8 DEF Drops, Core
  <2> QED
    BY <1>1, <1>3, <1>8, <2>3, <2>4, <2>5, <2>6, <2>7, LivesStep DEF PhotonInv
<1> QED
  BY <1>2, <1>5, <1>6, <1>7, <1>8

(* An acknowledgement shows what is left of the order of the call.         *)
LEMMA EmitAck ==
    ASSUME NEW v
    PROVE  emit(v, Ack) = [i \in Ids |-> IF i = call.id
                                           THEN Shown(call.side, call.price, call.remaining)
                                           ELSE v[i]]
BY DEF emit, Ack, Update

(* The end of submit: an order that rests is shown and, if it ends,        *)
(* queued.                                                                 *)
LEMMA FinishPhoton ==
    ASSUME P!BookInv, P!BookInv', PhotonInv, finish_submit
    PROVE  PhotonInv'
<1>1. Core /\ Core' /\ TypeOK /\ EventsShowBook /\ GtdQueued /\ LivesAgree
  BY CoreHolds, CoreHoldsNext DEF PhotonInv
<1>2. /\ pc = "sweep" /\ pc' = "done"
      /\ \/ ~B!Rests /\ Keeps
         \/ B!Rests /\ free = {} /\ Keeps
         \/ B!Rests /\ free # {} /\ Adds(id_index'[call.id])
  BY FinishSteps DEF finish_submit
<1>3. /\ call.id \in Ids /\ id_index[call.id] = Null /\ call \in P!Call
      /\ \A g \in Open : pool[g].id # call.id /\ pool[g].id \in Ids
  BY <1>1, <1>2 DEF Core, Open
<1>4. /\ life' = NoLife /\ UNCHANGED <<expiring, clock, granted>> /\ life' \in Life
      /\ has_empty' \in BOOLEAN /\ endless' \in BOOLEAN
  BY <1>1, LifeTypes DEF finish_submit, TypeOK
<1>5. CASE ~B!Rests /\ Keeps
  <2>1. view' = view /\ tif' = tif /\ expiry_queue' = expiry_queue
    BY <1>5 DEF finish_submit
  <2> QED
    BY <1>1, <1>2, <1>4, <1>5, <2>1, KeepPhoton DEF TypeOK
<1>6. ASSUME B!Rests PROVE Shown(call.side, call.price, call.remaining) \in Known \cup {Unknown}
  <2>1. call.side \in Side /\ call.price \in Ticks /\ call.remaining \in Quantity
    BY <1>1, <1>3, <1>6 DEF B!Rests, Core, P!Call, Side, P!Side, Quantity,
           P!Quantity
  <2> QED
    BY <2>1, ShownTypes
<1> DEFINE acked == [i \in Ids |-> IF i = call.id
                                     THEN Shown(call.side, call.price, call.remaining)
                                     ELSE view[i]]
<1>7. emit(view, Ack) = acked
  BY EmitAck
<1>8. emit(emit(view, Gone("Rejected", call.side, call.id, call.price, call.remaining)), Ack)
        = acked
  <2> DEFINE v == [i \in Ids |-> IF i = call.id THEN Unknown ELSE view[i]]
  <2>1. emit(view, Gone("Rejected", call.side, call.id, call.price, call.remaining)) = v
    BY DEF emit, Gone, Update, Shown
  <2>2. emit(v, Ack) = [i \in Ids |-> IF i = call.id
                                        THEN Shown(call.side, call.price, call.remaining)
                                        ELSE v[i]]
    BY EmitAck
  <2> QED
    BY <2>1, <2>2
<1>9. \A g \in Open : acked[pool[g].id] = view[pool[g].id]
  BY <1>3
<1> HIDE DEF acked
<1>10. CASE B!Rests /\ free = {} /\ Keeps
  <2>1. view' = acked /\ tif' = tif /\ expiry_queue' = expiry_queue
    BY <1>8, <1>10 DEF finish_submit
  <2>2. TypeOK'
    BY <1>1, <1>4, <1>6, <1>10, <2>1 DEF TypeOK, acked
  <2>3. EventsShowBook'
    BY <1>1, <1>9, <1>10, <2>1, ViewStep DEF Keeps, Same
  <2> QED
    BY <1>1, <1>2, <1>4, <1>10, <2>1, <2>2, <2>3, LivesStep DEF Keeps,
           PhotonInv
<1>11. CASE B!Rests /\ free # {} /\ Adds(id_index'[call.id])
  <2> DEFINE h == id_index'[call.id]
  <2>1. /\ view' = acked /\ tif' = [tif EXCEPT ![h] = life]
        /\ expiry_queue' = expiry_queue \cup NewEntries
    BY <1>7, <1>11 DEF finish_submit
  <2>2. NewEntries \subseteq ExpiryEntry
    BY <1>1, <1>3, TimesAssumption DEF NewEntries, TypeOK, Life, ExpiryEntry
  <2>3. TypeOK'
    BY <1>1, <1>4, <1>6, <1>11, <2>1, <2>2 DEF TypeOK, acked
  <2>4. EventsShowBook'
    <3>1. ASSUME NEW g \in Open'
          PROVE  view'[pool'[g].id] = Shown(pool'[g].side, pool'[g].price, pool'[g].remaining)
      <4>1. CASE g = h
        BY <1>3, <1>11, <2>1, <4>1 DEF Adds, acked
      <4>2. CASE g \in Open
        BY <1>1, <1>9, <1>11, <2>1, <4>2 DEF Adds, Same, EventsShowBook, Open
      <4> QED
        BY <1>11, <4>1, <4>2 DEF Adds
    <3> QED
      BY <3>1 DEF EventsShowBook, Open
  <2>5. /\ \A g \in Open : tif'[g] = tif[g] /\ pool'[g].id = pool[g].id
        /\ tif'[h] = life /\ pool'[h].id = call.id
        /\ Open' = Open \cup {h} /\ h \in Handles \ Open
    BY <1>1, <1>11, <2>1 DEF Adds, Same, TypeOK, Open
  <2>6. life = granted[call.id]
    BY <1>1, <1>2 DEF LivesAgree
  <2>7. GtdQueued'
    <3>1. ASSUME NEW g \in Open', tif'[g].tif = "GTD", tif'[g].expiry_ns > 0
          PROVE  [expiry_ns |-> tif'[g].expiry_ns, order_id |-> pool'[g].id] \in expiry_queue'
      <4>1. CASE g = h
        BY <2>1, <2>5, <3>1, <4>1 DEF NewEntries
      <4>2. CASE g \in Open
        BY <1>1, <2>1, <2>5, <3>1, <4>2 DEF GtdQueued, Open
      <4> QED
        BY <2>5, <4>1, <4>2
    <3> QED
      BY <3>1 DEF GtdQueued, Open
  <2>8. \A g \in Open' : tif'[g] = granted'[pool'[g].id]
    BY <1>1, <1>4, <2>5, <2>6 DEF LivesAgree, Open
  <2>9. ASSUME NEW e \in expiry_queue', id_index'[e.order_id] # Null
        PROVE  /\ granted'[e.order_id].tif # "GTC"
               /\ granted'[e.order_id].expiry_ns = e.expiry_ns
    <3>1. CASE e \in expiry_queue
      <4>1. e.order_id \in Ids
        BY <1>1, <3>1 DEF TypeOK, ExpiryEntry
      <4>2. id_index[e.order_id] # Null \/ e.order_id = call.id
        BY <1>1, <1>11, <2>9, <4>1 DEF Adds, Core
      <4> QED
        BY <1>1, <1>2, <1>4, <3>1, <4>1, <4>2 DEF LivesAgree
    <3>2. CASE e \in NewEntries
      <4>1. /\ life.tif = "GTD" /\ e.order_id = call.id /\ e.expiry_ns = life.expiry_ns
        BY <3>2 DEF NewEntries
      <4> QED
        BY <1>4, <2>6, <4>1
    <3> QED
      BY <2>1, <3>1, <3>2
  <2>10. LivesAgree'
    BY <1>2, <2>8, <2>9 DEF LivesAgree, Open
  <2> QED
    BY <2>3, <2>4, <2>7, <2>10 DEF PhotonInv
<1> QED
  BY <1>2, <1>5, <1>10, <1>11

(* The return of a call.                                                   *)
LEMMA ReturnPhoton ==
    ASSUME P!BookInv, P!BookInv', PhotonInv, return
    PROVE  PhotonInv'
<1>1. Core /\ Core' /\ TypeOK
  BY CoreHolds, CoreHoldsNext DEF PhotonInv
<1>2. Keeps /\ pc' = "idle"
  BY DEF return, B!return, B!book, Keeps, Open
<1>3. /\ granted' \in [Ids -> Life]
      /\ \A i \in Ids : id_index[i] # Null => granted'[i] = granted[i]
      /\ UNCHANGED <<tif, life, expiry_queue, expiring, clock, view, has_empty, endless>>
  BY <1>1, LifeTypes DEF return, TypeOK
<1> QED
  BY <1>1, <1>2, <1>3, KeepPhoton DEF TypeOK

(* The start and the end of check_expiry, and a search that does not end.  *)
LEMMA CheckPhoton ==
    ASSUME P!BookInv, P!BookInv', PhotonInv,
           CheckExpiry \/ expiry_checked \/ SearchForever
    PROVE  PhotonInv'
<1>1. Core /\ Core' /\ TypeOK
  BY CoreHolds, CoreHoldsNext DEF PhotonInv
<1>2. Keeps /\ pc' = "idle"
  BY DEF CheckExpiry, check_expiry, expiry_checked, SearchForever,
         search_forever, book, Keeps, Open
<1>3. UNCHANGED <<tif, life, expiry_queue, view, granted>>
  BY DEF CheckExpiry, check_expiry, expiry_checked, SearchForever, search_forever
<1>4. /\ expiring' \in BOOLEAN /\ clock' \in Times \cup {0}
      /\ has_empty' \in BOOLEAN /\ endless' \in BOOLEAN
  BY <1>1 DEF CheckExpiry, check_expiry, expiry_checked, SearchForever,
         search_forever, TypeOK
<1> QED
  BY <1>1, <1>2, <1>3, <1>4, KeepPhoton DEF TypeOK

(* A step that changes nothing.                                            *)
LEMMA StutterPhoton ==
    ASSUME PhotonInv, UNCHANGED vars
    PROVE  PhotonInv'
BY DEF vars, PhotonInv, TypeOK, EventsShowBook, GtdQueued, LivesAgree

(* Every step of PhotonBook is a step of the core or leaves it alone.      *)
LEMMA StepImplements == TypeOK /\ [Next]_vars => [B!Next]_(B!vars)
<1> SUFFICES ASSUME TypeOK, [Next]_vars PROVE [B!Next]_(B!vars)
  OBVIOUS
<1>1. CASE Submit
  <2>1. PICK id \in Ids, side \in Side, type \in OrderType, qty \in Quantities,
             owner \in Owners : \E price \in CallPrices(type) :
               B!submit(id, side, type, price, qty, owner)
    BY <1>1 DEF Submit, submit
  <2>2. B!Submit
    BY <2>1 DEF B!Submit, Side, OrderType, B!Side, B!OrderType, CallPrices,
           B!CallPrices,
                Ticks, B!Ticks, NoPrice, B!NoPrice
  <2> QED
    BY <2>2 DEF B!Next
<1>2. CASE match \/ finish_submit \/ return
  BY <1>2 DEF match, finish_submit, return, B!Next
<1>3. CASE Cancel
  BY <1>3 DEF Cancel, cancel, B!Cancel, B!Next
<1>4. CASE Modify
  BY <1>4 DEF Modify, modify, B!Modify, B!Next, Ticks, B!Ticks
<1>5. CASE CheckExpiry \/ expiry_checked \/ SearchForever
  BY <1>5 DEF CheckExpiry, check_expiry, expiry_checked, SearchForever,
         search_forever, book, B!vars
<1>6. CASE expire
  <2>1. PICK e \in Due : UNCHANGED book \/ B!cancel(e.order_id)
    BY <1>6 DEF expire
  <2>2. e.order_id \in Ids
    BY <2>1 DEF Due, TypeOK, ExpiryEntry
  <2> QED
    BY <2>1, <2>2 DEF book, B!vars, B!Cancel, B!Next
<1>7. CASE UNCHANGED vars \/ go_round
  BY <1>7 DEF vars, go_round, B!vars
<1> QED
  BY <1>1, <1>2, <1>3, <1>4, <1>5, <1>6, <1>7 DEF Next

(* The core and what PhotonBook adds to it stay sound together: the book   *)
(* is well formed, the events describe it and the heap covers it.          *)
THEOREM PhotonSafety == Spec => [](P!BookInv /\ PhotonInv)
<1>1. Init => P!BookInv /\ PhotonInv
  BY CoreInit, InitPhoton DEF Init
<1>2. P!BookInv /\ PhotonInv /\ [Next]_vars => (P!BookInv /\ PhotonInv)'
  <2> SUFFICES ASSUME P!BookInv, PhotonInv, [Next]_vars PROVE P!BookInv' /\ PhotonInv'
    OBVIOUS
  <2>1. P!BookInv'
    BY StepImplements, CoreStep DEF PhotonInv
  <2>2. CASE Submit
    <3>1. PICK id \in Ids, side \in Side, type \in OrderType, qty \in Quantities,
               owner \in Owners : \E price \in CallPrices(type), l \in Lives \cup {NoLife} :
                 submit(id, side, type, price, qty, owner, l)
      BY <2>2 DEF Submit
    <3> QED
      BY <2>1, <3>1, SubmitPhoton
  <2>3. CASE match
    BY <2>1, <2>3, MatchPhoton
  <2>4. CASE finish_submit
    BY <2>1, <2>4, FinishPhoton
  <2>5. CASE Cancel
    BY <2>1, <2>5, CancelPhoton DEF Cancel
  <2>6. CASE Modify
    BY <2>1, <2>6, ModifyPhoton DEF Modify
  <2>7. CASE return
    BY <2>1, <2>7, ReturnPhoton
  <2>8. CASE CheckExpiry \/ expiry_checked \/ SearchForever
    BY <2>1, <2>8, CheckPhoton
  <2>9. CASE expire
    BY <2>1, <2>9, ExpirePhoton
  <2>10. CASE UNCHANGED vars \/ go_round
    BY <2>1, <2>10, StutterPhoton DEF go_round
  <2> QED
    BY <2>2, <2>3, <2>4, <2>5, <2>6, <2>7, <2>8, <2>9, <2>10 DEF Next
<1> QED
  BY <1>1, <1>2, PTL DEF Spec

(* Every variable PhotonBook adds keeps its type.                          *)
THEOREM PhotonTypes == Spec => []TypeOK
BY PhotonSafety, PTL DEF PhotonInv

(* The event stream describes every open order, inside a sweep too.        *)
THEOREM EventsSound == Spec => []EventsShowBook
BY PhotonSafety, PTL DEF PhotonInv

(* Every open GTD order has its entry in the expiry heap, the book carries *)
(* the time in force that was asked for, and entries of the heap for an    *)
(* open order have the end that was asked for it.                          *)
THEOREM ExpirySafety == Spec => []ExpiryInv
BY PhotonSafety, PTL DEF PhotonInv, ExpiryInv

(* Instants are numbers.                                                   *)
LEMMA TimesNat == \A t \in Times \cup {0} : t \in Nat
BY TimesAssumption

(* When check_expiry returns no overdue GTD order is open.                 *)
THEOREM ExpiryComplete == Spec => NoneOverdue
<1> DEFINE A == expiring /\ ~expiring' =>
                  \A h \in Handles \ free :
                    LET l == granted[pool[h].id]
                    IN  l.tif = "GTD" /\ l.expiry_ns > 0 => l.expiry_ns > clock
<1>1. P!BookInv /\ PhotonInv /\ [Next]_vars => A
  <2> SUFFICES ASSUME P!BookInv, PhotonInv, [Next]_vars, expiring, ~expiring',
                      NEW h \in Open, granted[pool[h].id].tif = "GTD",
                      granted[pool[h].id].expiry_ns > 0
               PROVE  granted[pool[h].id].expiry_ns > clock
    BY DEF Open
  <2>1. expiry_checked
    <3>1. CASE UNCHANGED vars \/ go_round
      BY <3>1 DEF vars, go_round
    <3>2. CASE Submit \/ Cancel \/ Modify
      <4>1. CASE Submit
        BY <4>1 DEF Submit, submit
      <4>2. CASE Cancel
        BY <4>2 DEF Cancel, cancel
      <4>3. CASE Modify
        BY <4>3 DEF Modify, modify
      <4> QED
        BY <3>2, <4>1, <4>2, <4>3
    <3>3. CASE match \/ finish_submit \/ return
      BY <3>3 DEF match, finish_submit, return
    <3>4. CASE CheckExpiry \/ expire \/ SearchForever
      BY <3>4 DEF CheckExpiry, check_expiry, expire, SearchForever, search_forever
    <3> QED
      BY <3>1, <3>2, <3>3, <3>4 DEF Next
  <2>2. tif[h] = granted[pool[h].id] /\ tif[h] \in Life /\ clock \in Times \cup {0}
    BY DEF PhotonInv, LivesAgree, TypeOK, Open
  <2>3. [expiry_ns |-> tif[h].expiry_ns, order_id |-> pool[h].id] \in expiry_queue
    BY <2>2 DEF PhotonInv, GtdQueued, Open
  <2>4. ~(tif[h].expiry_ns <= clock)
    BY <2>1, <2>3 DEF expiry_checked, Due
  <2>5. tif[h].expiry_ns \in Times \cup {0}
    BY <2>2 DEF Life
  <2>6. tif[h].expiry_ns \in Nat /\ clock \in Nat
    BY <2>2, <2>5, TimesNat
  <2> QED
    BY <2>2, <2>4, <2>6
<1> QED
  BY <1>1, PhotonSafety, PTL DEF Spec, NoneOverdue

(* check_expiry removes only orders whose client asked for an end that has *)
(* come.                                                                   *)
THEOREM ExpirySound == Spec => ExpiresOnlyDue
<1> DEFINE A == \A i \in Ids : expiring /\ id_index[i] # Null /\ id_index'[i] = Null =>
                  LET l == granted[i]
                  IN  l.tif # "GTC" /\ 0 < l.expiry_ns /\ l.expiry_ns <= clock
<1>1. P!BookInv /\ PhotonInv /\ [Next]_vars => A
  <2> SUFFICES ASSUME P!BookInv, PhotonInv, [Next]_vars, NEW i \in Ids, expiring,
                      id_index[i] # Null, id_index'[i] = Null
               PROVE  /\ granted[i].tif # "GTC" /\ 0 < granted[i].expiry_ns
                      /\ granted[i].expiry_ns <= clock
    OBVIOUS
  <2>1. pc # "sweep"
    BY DEF PhotonInv, LivesAgree
  <2>2. expire
    <3>1. ~Submit /\ ~Cancel /\ ~Modify
      BY DEF Submit, submit, Cancel, cancel, Modify, modify, Idle
    <3>2. ~match /\ ~finish_submit
      BY <2>1 DEF match, finish_submit, B!match, B!finish_submit
    <3>3. ~return /\ ~CheckExpiry /\ ~expiry_checked /\ ~UNCHANGED vars
      BY DEF return, B!return, B!book, CheckExpiry, check_expiry,
             expiry_checked, book, vars
    <3>4. ~SearchForever /\ ~go_round
      BY <3>3 DEF SearchForever, search_forever, Idle, go_round
    <3> QED
      BY <3>1, <3>2, <3>3, <3>4 DEF Next
  <2>3. PICK e \in Due : UNCHANGED book \/ B!cancel(e.order_id)
    BY <2>2 DEF expire
  <2>4. /\ e \in expiry_queue /\ e.order_id \in Ids
        /\ 0 < e.expiry_ns /\ e.expiry_ns <= clock
    <3>1. e \in ExpiryEntry /\ e \in expiry_queue /\ e.expiry_ns <= clock
      BY DEF Due, PhotonInv, TypeOK
    <3>2. e.expiry_ns \in Nat \ {0} /\ e.order_id \in Ids
      BY <3>1, TimesAssumption DEF ExpiryEntry
    <3> QED
      BY <3>1, <3>2
  <2>5. i = e.order_id
    <3>1. Core /\ id_index' # id_index
      BY CoreHolds
    <3>2. Drops(id_index[e.order_id]) /\ pool[id_index[e.order_id]].id = e.order_id
      BY <2>3, <2>4, <3>1, CancelSteps DEF book, Keeps
    <3> QED
      BY <2>4, <3>1, <3>2 DEF Drops, Core
  <2>6. granted[i].tif # "GTC" /\ granted[i].expiry_ns = e.expiry_ns
    BY <2>4, <2>5 DEF PhotonInv, LivesAgree
  <2> QED
    BY <2>4, <2>6
<1> QED
  BY <1>1, PhotonSafety, PTL DEF Spec, ExpiresOnlyDue

-----------------------------------------------------------------------------
(* Orders that end without an event. *)

(* In a sweep the consumer knows the incoming order only if a modify       *)
(* resubmitted it, and as long as something of it is left.                 *)
Resubmits ==
    pc = "sweep" /\ view[call.id] # Unknown =>
      call.op = "modify" /\ call.type = "Limit" /\ call.remaining > 0

(* A trade leaves no phantom: the order it drops is unknown after the      *)
(* fill.                                                                   *)
LEMMA MatchViews ==
    ASSUME P!BookInv, PhotonInv, match
    PROVE  /\ pc = "sweep" /\ pc' = "sweep" /\ call.id \in Ids
           /\ call'.id = call.id /\ call'.op = call.op /\ call'.type = call.type
           /\ view'[call.id] # Unknown => view[call.id] # Unknown /\ call'.remaining > 0
           /\ \A i \in Ids \ {call.id} :
                view'[i] # Unknown /\ id_index'[i] = Null =>
                  view[i] # Unknown /\ id_index[i] = Null
<1>1. Core /\ EventsShowBook
  BY CoreHolds DEF PhotonInv
<1>2. PICK h \in Open : LET t == Lesser(call.remaining, pool[h].remaining) IN
             /\ pc = "sweep" /\ pc' = "sweep"
             /\ call' = [call EXCEPT !.remaining = @ - t, !.filled = @ + t]
             /\ trade'.resting_id = pool[h].id /\ trade'.quantity = t
             /\ \/ pool[h].remaining = t /\ Drops(h)
                \/ pool[h].remaining # t /\ Edits(h, pool[h].remaining - t)
  BY MatchSteps DEF match
<1> DEFINE t == Lesser(call.remaining, pool[h].remaining)
           o == pool[h]
<1>3. /\ o \in P!Order /\ o.id \in Ids /\ id_index[o.id] = h /\ h # Null
      /\ call.id \in Ids /\ id_index[call.id] = Null /\ o.id # call.id
      /\ call \in P!Call
  BY <1>1, <1>2 DEF Core, Open
<1>4. /\ call'.id = call.id /\ call'.remaining = call.remaining - t
      /\ call'.op = call.op /\ call'.type = call.type
      /\ call.remaining - t \in Nat
  BY <1>2, <1>3 DEF P!Call, P!Order, P!Quantity, Lesser
<1>5. \A i \in Ids : view'[i] =
        IF i = o.id THEN Shown(view[i].side, view[i].price, view[i].leaves - t)
        ELSE IF i = call.id /\ view[i] # Unknown
               THEN Shown(view[i].side, view[i].price, call.remaining - t)
        ELSE view[i]
  BY <1>2, <1>3, <1>4, EmitFill DEF match, Fill, Update
<1>6. view'[call.id] # Unknown => view[call.id] # Unknown /\ call'.remaining > 0
  <2>1. \/ view'[call.id] = view[call.id] /\ view[call.id] = Unknown
        \/ /\ view[call.id] # Unknown
           /\ view'[call.id] = Shown(view[call.id].side, view[call.id].price, call.remaining - t)
    BY <1>3, <1>5
  <2>2. call.remaining - t = 0 => view'[call.id] = Unknown
    BY <2>1 DEF Shown
  <2> QED
    BY <1>4, <2>1, <2>2
<1>7. o.remaining = t => view'[o.id] = Unknown
  <2> SUFFICES ASSUME o.remaining = t PROVE view'[o.id] = Unknown
    OBVIOUS
  <2>1. view[o.id] = Shown(o.side, o.price, t)
    BY <1>1, <1>2 DEF EventsShowBook, Open
  <2>2. view[o.id].leaves = t
    BY <2>1 DEF Shown, Unknown
  <2>3. view'[o.id] = Shown(view[o.id].side, view[o.id].price, view[o.id].leaves - t)
    BY <1>3, <1>5
  <2>4. t \in Nat
    BY <1>3 DEF P!Order, P!Quantity
  <2> QED
    BY <2>2, <2>3, <2>4 DEF Shown
<1>8. ASSUME NEW i \in Ids \ {call.id}, view'[i] # Unknown, id_index'[i] = Null
      PROVE  view[i] # Unknown /\ id_index[i] = Null
  <2>1. CASE i = o.id
    <3>1. o.remaining # t
      BY <1>7, <1>8, <2>1
    <3> QED
      BY <1>2, <1>3, <1>8, <2>1, <3>1 DEF Edits
  <2>2. CASE i # o.id
    BY <1>1, <1>2, <1>3, <1>5, <1>8, <2>2 DEF Drops, Edits, Core
  <2> QED
    BY <2>1, <2>2
<1> QED
  BY <1>2, <1>3, <1>4, <1>6, <1>8

(* submit up to the sweep shows nothing new.                               *)
LEMMA SubmitViews ==
    ASSUME TypeOK, NEW id \in Ids, NEW side, NEW type, NEW price, NEW qty, NEW owner,
           NEW l, submit(id, side, type, price, qty, owner, l)
    PROVE  /\ view' = view /\ id_index' = id_index /\ pc = "idle"
           /\ view[id] = Unknown /\ (pc' = "sweep" => call'.id = id)
<1>1. view[id] = Unknown
  BY DEF submit
<1>2. view = [i \in Ids |-> IF i = id THEN Unknown ELSE view[i]]
  BY <1>1 DEF TypeOK
<1>3. emit(view, Gone("Rejected", side, id, price, qty)) =
        [i \in Ids |-> IF i = id THEN Unknown ELSE view[i]]
  BY DEF emit, Gone, Update, Shown
<1>4. view' = view \/ view' = [i \in Ids |-> IF i = id THEN Unknown ELSE view[i]]
  BY <1>3 DEF submit
<1>5. id_index' = id_index /\ pc = "idle" /\ (pc' = "sweep" => call'.id = id)
  BY DEF submit, B!submit, B!book, B!Answer, B!StartSweep, B!SubmitCall
<1> QED
  BY <1>1, <1>2, <1>4, <1>5

(* The orders the consumer still counts with after a cancel or an expiry.  *)
LEMMA DropViews ==
    ASSUME TypeOK, Core, NEW h \in Open, Drops(h),
           Leaves(pool[h].id, "Canceled", 0)
             \/ Leaves(pool[h].id, "Expired", pool[h].remaining)
    PROVE  \A i \in Ids : view'[i] # Unknown /\ id_index'[i] = Null =>
                            view[i] # Unknown /\ id_index[i] = Null
<1>1. pool[h].id \in Ids /\ id_index[pool[h].id] = h /\ h # Null
  BY DEF Core, Open
<1>2. view' = [i \in Ids |-> IF i = pool[h].id THEN Unknown ELSE view[i]]
  BY <1>1, LeavesView
<1> QED
  BY <1>1, <1>2 DEF Drops, Core

(* modify leaves no phantom but the order it resubmits.                    *)
LEMMA ModifyViews ==
    ASSUME P!BookInv, PhotonInv, NEW id \in Ids, NEW np \in Ticks, NEW nq \in Quantities,
           modify(id, np, nq)
    PROVE  /\ pc = "idle"
           /\ pc' = "sweep" => /\ call'.op = "modify" /\ call'.type = "Limit"
                               /\ call'.remaining > 0
           /\ \A i \in Ids : view'[i] # Unknown /\ id_index'[i] = Null
                               /\ ~(pc' = "sweep" /\ call'.id = i) =>
                             view[i] # Unknown /\ id_index[i] = Null
<1> DEFINE h == id_index[id]
<1>1. Core /\ TypeOK
  BY CoreHolds DEF PhotonInv
<1>2. /\ pc = "idle"
      /\ \/ h = Null /\ pc' = "done" /\ Keeps
         \/ h # Null /\ nq = 0 /\ pc' = "done" /\ Drops(h) /\ pool[h].id = id
         \/ /\ h # Null /\ nq # 0 /\ pc' = "done" /\ np = pool[h].price
            /\ Edits(h, nq) /\ pool[h].id = id
         \/ /\ h # Null /\ nq # 0 /\ pc' = "sweep" /\ Drops(h) /\ pool[h].id = id
            /\ call'.id = id
  BY ModifySteps DEF modify
<1>3. CASE h = Null /\ pc' = "done" /\ Keeps
  BY <1>2, <1>3 DEF modify, Leaves, Keeps
<1>4. CASE h # Null /\ nq = 0 /\ pc' = "done" /\ Drops(h) /\ pool[h].id = id
  <2>1. Leaves(id, "Canceled", 0) /\ h \in Open
    BY <1>4 DEF modify, Drops
  <2> QED
    BY <1>1, <1>2, <1>4, <2>1, DropViews
<1>5. CASE /\ h # Null /\ nq # 0 /\ pc' = "done" /\ np = pool[h].price
           /\ Edits(h, nq) /\ pool[h].id = id
  <2>1. view' = [i \in Ids |-> IF i = id THEN Shown(pool[h].side, np, nq) ELSE view[i]]
    <3>1. view' = emit(view, Update("Replaced", pool[h].side, id, NullId, np, nq, nq))
      BY <1>5 DEF modify
    <3> QED
      BY <3>1 DEF emit, Update
  <2> QED
    BY <1>2, <1>5, <2>1 DEF Edits
<1>6. CASE /\ h # Null /\ nq # 0 /\ pc' = "sweep" /\ Drops(h) /\ pool[h].id = id
           /\ call'.id = id
  <2>1. view' = view
    BY <1>6 DEF modify
  <2>2. call' = B!SubmitCall("modify", id, pool[h].side, "Limit", np, nq, pool[h].owner)
    BY <1>6 DEF modify, B!modify, B!Answer, B!StartSweep
  <2>3. nq > 0
    BY <1>6
  <2> QED
    BY <1>1, <1>2, <1>6, <2>1, <2>2, <2>3 DEF Drops, Core, B!SubmitCall
<1> QED
  BY <1>2, <1>3, <1>4, <1>5, <1>6

(* No sweep is under way initially.                                        *)
LEMMA ResubmitsInit == Init => Resubmits
BY DEF Init, B!Init, Resubmits

(* Every step keeps what is known of the incoming order.                   *)
LEMMA ResubmitsStep ==
    P!BookInv /\ PhotonInv /\ Resubmits /\ [Next]_vars => Resubmits'
<1> SUFFICES ASSUME P!BookInv, PhotonInv, Resubmits, [Next]_vars,
                    pc' = "sweep", view'[call'.id] # Unknown
             PROVE  call'.op = "modify" /\ call'.type = "Limit" /\ call'.remaining > 0
  BY DEF Resubmits
<1>1. TypeOK
  BY DEF PhotonInv
<1>2. CASE Submit
  <2>1. PICK id \in Ids, side \in Side, type \in OrderType, qty \in Quantities,
             owner \in Owners : \E price \in CallPrices(type), l \in Lives \cup {NoLife} :
               submit(id, side, type, price, qty, owner, l)
    BY <1>2 DEF Submit
  <2> QED
    BY <1>1, <2>1, SubmitViews
<1>3. CASE match
  BY <1>3, MatchViews DEF Resubmits
<1>4. CASE Modify
  BY <1>4, ModifyViews DEF Modify
<1>5. CASE finish_submit \/ Cancel \/ return
  <2>1. pc' # "sweep"
    BY <1>5 DEF finish_submit, B!finish_submit, Cancel, cancel, B!cancel,
           B!Answer,
                return, B!return
  <2> QED
    BY <2>1
<1>6. CASE CheckExpiry \/ expiry_checked \/ SearchForever
  BY <1>6 DEF CheckExpiry, check_expiry, expiry_checked, SearchForever,
         search_forever, book
<1>7. CASE expire
  BY <1>7 DEF expire, B!cancel, B!Answer, book
<1>8. CASE UNCHANGED vars \/ go_round
  BY <1>8 DEF vars, go_round, Resubmits
<1> QED
  BY <1>2, <1>3, <1>4, <1>5, <1>6, <1>7, <1>8 DEF Next

(* The two cases in which the events go on to show an order the book does  *)
(* not have: it found no slot, or self-trade prevention ended a modify.    *)
THEOREM PhantomsOnly == Spec => PhantomsExplained
<1> DEFINE Cause(i) == /\ pc = "sweep" /\ call.id = i
                       /\ \/ free = {}
                          \/ call.op = "modify" /\ SelfTrade(call.owner, pool[B!Meets].owner)
           A == \A i \in Ids : Phantom(i)' /\ ~Phantom(i) => Cause(i)
<1>1. P!BookInv /\ PhotonInv /\ Resubmits /\ [Next]_vars => A
  <2> SUFFICES ASSUME P!BookInv, PhotonInv, Resubmits, [Next]_vars, NEW i \in Ids,
                      view'[i] # Unknown, id_index'[i] = Null,
                      ~(pc' = "sweep" /\ call'.id = i),
                      ~(/\ view[i] # Unknown /\ id_index[i] = Null
                        /\ ~(pc = "sweep" /\ call.id = i))
               PROVE  Cause(i)
    BY DEF Phantom
  <2>1. Core /\ TypeOK
    BY CoreHolds DEF PhotonInv
  <2>2. CASE Submit
    <3>1. PICK id \in Ids, side \in Side, type \in OrderType, qty \in Quantities,
               owner \in Owners : \E price \in CallPrices(type), l \in Lives \cup {NoLife} :
                 submit(id, side, type, price, qty, owner, l)
      BY <2>2 DEF Submit
    <3> QED
      BY <2>1, <3>1, SubmitViews
  <2>3. CASE match
    BY <2>3, MatchViews
  <2>4. CASE Modify
    BY <2>4, ModifyViews DEF Modify
  <2>5. CASE Cancel
    <3>1. PICK id \in Ids : B!cancel(id) /\ Leaves(id, "Canceled", 0)
      BY <2>5 DEF Cancel, cancel
    <3>2. /\ pc = "idle"
          /\ \/ id_index[id] = Null /\ Keeps
             \/ id_index[id] # Null /\ Drops(id_index[id]) /\ pool[id_index[id]].id = id
      BY <3>1, CancelSteps
    <3>3. CASE id_index[id] = Null /\ Keeps
      BY <3>1, <3>2, <3>3 DEF Leaves, Keeps
    <3>4. CASE id_index[id] # Null /\ Drops(id_index[id]) /\ pool[id_index[id]].id = id
      BY <2>1, <3>1, <3>2, <3>4, DropViews DEF Drops
    <3> QED
      BY <3>2, <3>3, <3>4
  <2>6. CASE expire
    <3>1. PICK e \in Due :
            \/ UNCHANGED <<book, view>>
            \/ /\ id_index[e.order_id] # Null /\ B!cancel(e.order_id)
               /\ Leaves(e.order_id, "Expired", pool[id_index[e.order_id]].remaining)
      BY <2>6 DEF expire
    <3>2. pc = "idle" /\ e.order_id \in Ids
      BY <2>1, <2>6 DEF expire, Due, TypeOK, ExpiryEntry
    <3>3. CASE UNCHANGED <<book, view>>
      BY <3>2, <3>3 DEF book
    <3>4. CASE /\ id_index[e.order_id] # Null /\ B!cancel(e.order_id)
               /\ Leaves(e.order_id, "Expired", pool[id_index[e.order_id]].remaining)
      <4>1. Drops(id_index[e.order_id]) /\ pool[id_index[e.order_id]].id = e.order_id
        BY <3>2, <3>4, CancelSteps
      <4> QED
        BY <2>1, <3>2, <3>4, <4>1, DropViews DEF Drops
    <3> QED
      BY <3>1, <3>3, <3>4
  <2>7. CASE \/ return \/ CheckExpiry \/ expiry_checked \/ SearchForever
             \/ go_round \/ UNCHANGED vars
    BY <2>7 DEF return, B!return, B!book, CheckExpiry, check_expiry,
           expiry_checked, SearchForever, search_forever, go_round, book, vars
  <2>8. CASE finish_submit
    <3>1. /\ pc = "sweep" /\ pc' = "done"
          /\ \/ ~B!Rests /\ Keeps
             \/ B!Rests /\ free = {} /\ Keeps
             \/ B!Rests /\ free # {} /\ Adds(id_index'[call.id])
      BY <2>8, FinishSteps DEF finish_submit
    <3>2. call.id \in Ids
      BY <2>1, <3>1 DEF Core
    <3>3. \A j \in Ids \ {call.id} : view'[j] = view[j] /\ id_index'[j] = id_index[j]
      <4>1. \A j \in Ids \ {call.id} : id_index'[j] = id_index[j]
        BY <2>1, <3>1 DEF Keeps, Adds, Core
      <4>2. \A j \in Ids \ {call.id} : view'[j] = view[j]
        BY <2>8 DEF finish_submit, emit, Ack, Gone, Update
      <4> QED
        BY <4>1, <4>2
    <3>4. i = call.id
      BY <3>1, <3>3
    <3>5. ~Adds(id_index'[call.id])
      BY <3>4 DEF Adds
    <3>6. CASE ~B!Rests
      <4>1. view' = view
        BY <2>8, <3>6 DEF finish_submit
      <4>2. call.op = "modify" /\ call.type = "Limit" /\ call.remaining > 0
        BY <3>1, <3>4, <4>1 DEF Resubmits
      <4>3. B!Crosses(call, B!OppositeBest)
        BY <3>6, <4>2 DEF B!Rests
      <4>4. SelfTrade(call.owner, pool[B!Meets].owner)
        BY <2>8, <4>2, <4>3 DEF finish_submit, B!finish_submit, B!Matches,
               SelfTrade, B!SelfTrade
      <4> QED
        BY <3>1, <3>4, <4>2, <4>4
    <3> QED
      BY <3>1, <3>4, <3>5, <3>6
  <2> QED
    BY <2>2, <2>3, <2>4, <2>5, <2>6, <2>7, <2>8 DEF Next
<1> QED
  BY <1>1, ResubmitsInit, ResubmitsStep, PhotonSafety, PTL DEF Spec,
         PhantomsExplained
=============================================================================
