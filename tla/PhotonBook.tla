----------------------------- MODULE PhotonBook -----------------------------
(***************************************************************************)
(* lob::PhotonBook (include/lob/photon_book.hpp): the matching core of     *)
(* OrderBook, whose functions it repeats over a FIFO pool and a FlatMap,   *)
(* with a time in force per order, an expiry heap and a lifecycle event    *)
(* for what happens to an order.  The core is used as B, an instance of    *)
(* OrderBook on the same variables.  Pool shows that the slots are what B  *)
(* takes them for, and FlatMap that the index is, but for one thing: when  *)
(* no slot of the map is empty any more, a search for an id that is not    *)
(* in it never ends.  has_empty and endless stand for that; how many       *)
(* insertions it takes is left to FlatMap.                                 *)
(*                                                                         *)
(* The heap is the set of its entries: two equal entries are popped one    *)
(* after the other and the second finds nothing.  Entries that expire at   *)
(* the same time are popped in any order.  What goes through the Sink is   *)
(* modelled by what a consumer knows from it: view is the book that the    *)
(* events so far describe.  seq_ only numbers the events.                  *)
(***************************************************************************)
EXTENDS LobTypes, FiniteSets

CONSTANTS Handles, Null, \* the slots of the pool, kNullHandle
          Times,         \* the instants expiries and checks are taken from
          Lives          \* the times in force the clients ask for

VARIABLES levels, pool, free, id_index, best_bid, best_ask, \* as in OrderBook
          pc, call, res, trade,
          tif,           \* tif and expiry_ns of the order in each slot
          life,          \* those arguments of the submit in progress
          expiry_queue,  \* expiry_queue_
          expiring,      \* check_expiry is running
          clock,         \* current_time_ns of the last check_expiry
          view,          \* the orders a consumer of the events knows of
          granted,       \* the time in force each open order was submitted with
          has_empty,     \* a slot of the FlatMap has never been used
          endless        \* a search of the FlatMap goes round for ever

B == INSTANCE OrderBook

book == <<levels, pool, free, id_index, best_bid, best_ask, pc, call, res, trade>>
vars == <<levels, pool, free, id_index, best_bid, best_ask, pc, call, res, trade,
          tif, life, expiry_queue, expiring, clock, view, granted, has_empty, endless>>

Life == [tif : {"GTC", "DAY", "GTD"}, expiry_ns : Times \cup {0}]

NoLife == [tif |-> "GTC", expiry_ns |-> 0]

ASSUME HandlesAssumption == Null \notin Handles /\ IsFiniteSet(Handles)
ASSUME TimesAssumption == Times \subseteq Nat \ {0}
ASSUME LivesAssumption == Lives \subseteq Life

ExpiryEntry == [expiry_ns : Times, order_id : Ids]

Known == [side : Side, price : Ticks, leaves : Quantity]

Unknown == [side |-> "Buy", price |-> NoPrice, leaves |-> 0]

TypeOK ==
    /\ tif \in [Handles -> Life]
    /\ life \in Life
    /\ expiry_queue \in SUBSET ExpiryEntry
    /\ expiring \in BOOLEAN
    /\ clock \in Times \cup {0}
    /\ view \in [Ids -> Known \cup {Unknown}]
    /\ granted \in [Ids -> Life]
    /\ has_empty \in BOOLEAN
    /\ endless \in BOOLEAN

Init ==
    /\ B!Init
    /\ tif = [h \in Handles |-> NoLife]
    /\ life = NoLife
    /\ expiry_queue = {}
    /\ expiring = FALSE
    /\ clock = 0
    /\ view = [i \in Ids |-> Unknown]
    /\ granted = [i \in Ids |-> NoLife]
    /\ has_empty = TRUE
    /\ endless = FALSE

-----------------------------------------------------------------------------
(* Events *)

Update(type, side, id, counter, price, qty, leaves) ==
    [type |-> type, side |-> side, order_id |-> id, counter_id |-> counter,
     price |-> price, quantity |-> qty, leaves_qty |-> leaves]

Shown(side, price, leaves) ==
    IF leaves = 0 THEN Unknown
    ELSE [side |-> side, price |-> price, leaves |-> leaves]

(* Send an update through the Sink: what a consumer with view v knows then *)
(* of each order.  A fill takes quantity from the resting order, the       *)
(* counter_id, and leaves leaves_qty of the incoming one, which is known   *)
(* already if a modify resubmitted it.                                     *)
emit(v, u) ==
    [i \in Ids |->
       CASE u.type = "Fill" /\ i = u.counter_id ->
              Shown(v[i].side, v[i].price, v[i].leaves - u.quantity)
         [] u.type = "Fill" /\ i = u.order_id /\ v[i] # Unknown ->
              Shown(v[i].side, v[i].price, u.leaves_qty)
         [] u.type # "Fill" /\ i = u.order_id ->
              Shown(u.side, u.price, u.leaves_qty)
         [] OTHER -> v[i]]

(* The update of a fill; trade and call are those after the fill. *)
FillTotal ==                                    \* mutant: cumulative quantity
    Update("Fill", call'.side, call'.id, trade'.resting_id, trade'.price,
           call'.filled, call'.remaining)

Fill ==
    Update("Fill", call'.side, call'.id, trade'.resting_id, trade'.price,
           trade'.quantity, call'.remaining)

(* The order with this id was removed, or refused. *)
GoneUnnamed(type, side, id, price, qty) ==      \* mutant: arguments swapped
    Update(type, side, NullId, id, price, qty, 0)

Gone(type, side, id, price, qty) ==
    Update(type, side, id, NullId, price, qty, 0)

(* A freed slot forgets its time in force; rest_order sets every field. *)
KeepLives == tif' = [h \in Handles |-> IF h \in free' THEN NoLife ELSE tif[h]]

-----------------------------------------------------------------------------
(* Calls *)

Idle == ~expiring /\ ~endless

(* find comes to an answer: the id is there, or an empty slot ends the     *)
(* search.                                                                 *)
Answers(id) == id_index[id] # Null \/ has_empty

(* submit, up to the sweep.  An OrderId is given out once (types.hpp:30):  *)
(* no open order has it, no expiry entry and no consumer still names it.   *)
submit(id, side, type, price, qty, owner, l) ==
    /\ Idle
    /\ view[id] = Unknown /\ \A e \in expiry_queue : e.order_id # id
    /\ B!submit(id, side, type, price, qty, owner)
    /\ view' = IF pc' = "done" THEN emit(view, Gone("Rejected", side, id, price, qty))
                               ELSE view
    /\ life' = IF pc' = "done" THEN NoLife ELSE l
    /\ granted' = [granted EXCEPT ![id] = l]
    /\ UNCHANGED <<tif, expiry_queue, expiring, clock, has_empty, endless>>

match ==
    /\ B!match
    /\ view' = emit(view, Fill)
    /\ KeepLives
    /\ UNCHANGED <<life, expiry_queue, expiring, clock, granted, has_empty, endless>>

(* rest_order keeps the time in force of the order it rested, and queues   *)
(* an entry for a GTD order with an expiry.                                *)
QueueZero ==                                    \* mutant: expiry not tested
    IF life.tif = "GTD"
      THEN {[expiry_ns |-> life.expiry_ns, order_id |-> call.id]} ELSE {}

QueueFuture ==                                  \* mutant: past expiry not queued
    IF life.tif = "GTD" /\ life.expiry_ns > clock
      THEN {[expiry_ns |-> life.expiry_ns, order_id |-> call.id]} ELSE {}

NewEntries ==
    IF life.tif = "GTD" /\ life.expiry_ns > 0
      THEN {[expiry_ns |-> life.expiry_ns, order_id |-> call.id]} ELSE {}

Ack == Update("Ack", call.side, call.id, NullId, call.price, call.remaining,
              call.remaining)

(* The end of submit.  With an exhausted pool rest_order rejects the order *)
(* and submit acknowledges it all the same.  The id of an order that rests *)
(* goes into a slot an erased key has left, or into an empty one, which    *)
(* may be the last.                                                        *)
finish_submit ==
    /\ B!finish_submit
    /\ \/ /\ ~B!Rests
          /\ UNCHANGED <<view, tif, expiry_queue, has_empty>>
       \/ /\ B!Rests /\ free = {}
          /\ view' = emit(emit(view, Gone("Rejected", call.side, call.id,
                                          call.price, call.remaining)), Ack)
          /\ UNCHANGED <<tif, expiry_queue, has_empty>>
       \/ /\ B!Rests /\ free # {}
          /\ view' = emit(view, Ack)
          /\ tif' = [tif EXCEPT ![id_index'[call.id]] = life]
          /\ expiry_queue' = expiry_queue \cup NewEntries
          /\ has_empty' \in {has_empty, FALSE}
    /\ life' = NoLife
    /\ UNCHANGED <<expiring, clock, granted, endless>>

(* An order leaves the book with an event of this type. *)
Leaves(id, type, qty) ==
    LET o == pool[id_index[id]]
    IN  view' = IF id_index[id] = Null THEN view
                ELSE emit(view, Gone(type, o.side, id, o.price, qty))

cancel(id) ==
    /\ Idle /\ Answers(id)
    /\ B!cancel(id)
    /\ Leaves(id, "Canceled", 0)
    /\ KeepLives
    /\ UNCHANGED <<life, expiry_queue, expiring, clock, granted, has_empty, endless>>

(* The time in force a resubmitting modify passes on. *)
DefaultLife(h) == NoLife                        \* mutant: argument left out

KeptLife(h) == tif[h]

modify(id, new_price, new_qty) ==
    LET h == id_index[id]
        o == pool[h]
    IN  /\ Idle /\ Answers(id)
        /\ B!modify(id, new_price, new_qty)
        /\ \/ /\ pc' = "sweep"
              /\ life' = KeptLife(h)
              /\ UNCHANGED view
           \/ /\ pc' = "done" /\ new_qty = 0
              /\ Leaves(id, "Canceled", 0)
              /\ UNCHANGED life
           \/ /\ pc' = "done" /\ new_qty # 0
              /\ view' = IF h = Null THEN view
                         ELSE emit(view, Update("Replaced", o.side, id, NullId,
                                                new_price, new_qty, new_qty))
              /\ UNCHANGED life
        /\ KeepLives
        /\ UNCHANGED <<expiry_queue, expiring, clock, granted, has_empty, endless>>

(* A cancel or a modify of an order that is not open, in an index without  *)
(* an empty slot: its first step, the search, does not end.                *)
search_forever(id) ==
    /\ Idle /\ pc = "idle"
    /\ ~Answers(id)
    /\ endless' = TRUE
    /\ UNCHANGED <<book, tif, life, expiry_queue, expiring, clock, view, granted, has_empty>>

(* The main loop calls check_expiry with a clock that does not run back. *)
check_expiry(current_time_ns) ==
    /\ Idle /\ pc = "idle"
    /\ current_time_ns >= clock
    /\ expiring' = TRUE
    /\ clock' = current_time_ns
    /\ UNCHANGED <<book, tif, life, expiry_queue, view, granted, has_empty, endless>>

(* Entries whose time has come. *)
DueEarly == {e \in expiry_queue : e.expiry_ns <= clock + 1} \* mutant: off by one

Due == {e \in expiry_queue : e.expiry_ns <= clock}

(* The heap without its top. *)
Unpopped(e) ==                                  \* mutant: popped only with its order
    IF id_index[e.order_id] = Null THEN expiry_queue ELSE expiry_queue \ {e}

Popped(e) == expiry_queue \ {e}

(* One round of the loop of check_expiry: the order that the top entry     *)
(* names leaves the book as by a cancel, if it is still open.              *)
expire ==
    /\ expiring /\ ~endless /\ pc = "idle"
    /\ \E e \in Due :
         /\ \A f \in Due : e.expiry_ns <= f.expiry_ns
         /\ expiry_queue' = Popped(e)
         /\ endless' = ~Answers(e.order_id)
         /\ \/ /\ id_index[e.order_id] = Null
               /\ UNCHANGED <<book, tif, view>>
            \/ /\ id_index[e.order_id] # Null
               /\ B!cancel(e.order_id)
               /\ Leaves(e.order_id, "Expired", pool[id_index[e.order_id]].remaining)
               /\ KeepLives
    /\ UNCHANGED <<life, expiring, clock, granted, has_empty>>

expiry_checked ==
    /\ expiring /\ ~endless /\ pc = "idle"
    /\ Due = {}
    /\ expiring' = FALSE
    /\ UNCHANGED <<book, tif, life, expiry_queue, clock, view, granted, has_empty, endless>>

(* The caller, or the loop of check_expiry, goes on. *)
return ==
    /\ B!return
    /\ granted' = [i \in Ids |-> IF id_index[i] = Null THEN NoLife ELSE granted[i]]
    /\ UNCHANGED <<tif, life, expiry_queue, expiring, clock, view, has_empty, endless>>

(* A search that does not end goes on and on. *)
go_round == endless /\ UNCHANGED vars

Submit == \E id \in Ids, side \in Side, type \in OrderType, qty \in Quantities,
             owner \in Owners : \E price \in CallPrices(type),
                                   l \in IF type = "Limit" THEN Lives ELSE {NoLife} :
             submit(id, side, type, price, qty, owner, l)

Cancel == \E id \in Ids : cancel(id)

Modify == \E id \in Ids, price \in Ticks, qty \in Quantities :
             modify(id, price, qty)

SearchForever == \E id \in Ids : search_forever(id)

CheckExpiry == \E t \in Times : check_expiry(t)

Next == Submit \/ match \/ finish_submit \/ Cancel \/ Modify \/ return
          \/ CheckExpiry \/ expire \/ expiry_checked \/ SearchForever \/ go_round

Spec == Init /\ [][Next]_vars

(* The thread that made a call, or a check, goes on running it. *)
Fairness == /\ WF_vars(match) /\ WF_vars(finish_submit) /\ WF_vars(return)
            /\ WF_vars(expire) /\ WF_vars(expiry_checked)

FairSpec == Spec /\ Fairness

-----------------------------------------------------------------------------
(* Properties *)

(* The event stream tells of every open order, with the side, price and    *)
(* quantity it has at that moment, inside a sweep as between calls.        *)
EventsShowBook ==
    \A h \in Handles \ free :
      view[pool[h].id] = Shown(pool[h].side, pool[h].price, pool[h].remaining)

(* An order that the events show and the book does not have. *)
Phantom(i) == /\ view[i] # Unknown /\ id_index[i] = Null
              /\ ~(pc = "sweep" /\ call.id = i)

(* An order ends without its event, so that a consumer goes on to count    *)
(* with it, in two cases only: it was acknowledged although it found no    *)
(* slot, or a modify took it out and self-trade prevention stopped it.     *)
PhantomsExplained ==
    [][\A i \in Ids : Phantom(i)' /\ ~Phantom(i) =>
         /\ pc = "sweep" /\ call.id = i
         /\ \/ free = {}
            \/ call.op = "modify" /\ SelfTrade(call.owner, pool[B!Meets].owner)]_vars

(* Every open GTD order has its entry in the heap, whatever modifies and   *)
(* partial fills it went through.                                          *)
GtdQueued ==
    \A h \in Handles \ free :
      tif[h].tif = "GTD" /\ tif[h].expiry_ns > 0 =>
        [expiry_ns |-> tif[h].expiry_ns, order_id |-> pool[h].id] \in expiry_queue

(* The book carries the time in force the client asked for, and an entry   *)
(* of the heap that names an open order, or one a modify is resubmitting,  *)
(* has the end that was asked for it.                                      *)
LivesAgree ==
    /\ \A h \in Handles \ free : tif[h] = granted[pool[h].id]
    /\ pc = "sweep" => life = granted[call.id] /\ ~expiring
    /\ \A e \in expiry_queue :
         id_index[e.order_id] # Null \/ (pc = "sweep" /\ call.id = e.order_id) =>
           /\ granted[e.order_id].tif # "GTC"
           /\ granted[e.order_id].expiry_ns = e.expiry_ns

(* What the expiries rest on, whatever modifies, fills and checks came     *)
(* before: the heap has the end of every open GTD order, and no end of an  *)
(* open order that was not asked for it.                                   *)
ExpiryInv == GtdQueued /\ LivesAgree

(* When check_expiry returns, no GTD order is open whose client asked for  *)
(* an end at or before that time.  Nothing is said of DAY orders.          *)
NoneOverdue ==
    [][expiring /\ ~expiring' =>
         \A h \in Handles \ free :
           LET l == granted[pool[h].id]
           IN  l.tif = "GTD" /\ l.expiry_ns > 0 => l.expiry_ns > clock]_vars

(* check_expiry never ends an order before its time: it removes only       *)
(* orders whose client asked for an end, and only when that has come,      *)
(* whatever modifies, fills and stale entries came before.  Whether a DAY  *)
(* order may be among them is left open.                                   *)
ExpiresOnlyDue ==
    [][\A i \in Ids : expiring /\ id_index[i] # Null /\ id_index'[i] = Null =>
         LET l == granted[i]
         IN  l.tif # "GTC" /\ 0 < l.expiry_ns /\ l.expiry_ns <= clock]_vars

(* Every sweep ends and every check_expiry comes to the end of the due     *)
(* entries, stale ones and those of expired orders included, unless a      *)
(* search for an id that is not open meets an index without an empty slot. *)
CallsReturn == (pc # "idle" \/ expiring) ~> (pc = "idle" /\ ~expiring) \/ endless
=============================================================================
