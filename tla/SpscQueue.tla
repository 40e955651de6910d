------------------------------ MODULE SpscQueue ------------------------------
(***************************************************************************)
(* lob::SPSCQueue (include/lob/spsc_queue.hpp): a ring of Capacity slots   *)
(* and two atomic indexes, one producer thread and one consumer thread.    *)
(*                                                                         *)
(* Every access to shared memory is a step of its own.  The indexes are    *)
(* loaded with acquire and stored with release: a load may return an old   *)
(* value, but never one older than an earlier load of the same thread      *)
(* returned, and loading an index makes the slot accesses before its store *)
(* visible.  seen_head and seen_tail are those lower bounds.  The loads of *)
(* a thread's own index are relaxed and return what it stored last.        *)
(***************************************************************************)
EXTENDS Integers, Sequences

CONSTANTS Capacity, Items,
          NoItem  \* what an unwritten slot or output holds

ASSUME CapacityAssumption == Capacity \in Nat /\ Capacity > 1
ASSUME NoItemAssumption   == NoItem \notin Items

VARIABLES
    head, tail,           \* head_, tail_: the values stored last
    buffer,               \* buffer_
    seen_head,            \* the head_ the producer loaded last
    seen_tail,            \* the tail_ the consumer loaded last
    ppc, pitem,           \* the producer's place in try_push, its argument
    cpc, citem,           \* the consumer's place in try_pop, its copy
    out                   \* the item its last successful try_pop returned

pvars == <<tail, seen_head, ppc, pitem>>
cvars == <<head, seen_tail, cpc, citem, out>>
vars  == <<head, tail, buffer, seen_head, seen_tail, ppc, pitem, cpc, citem, out>>

Index == 0 .. (Capacity - 1)

(* (i + 1) & kMask *)
SuccUnmasked(i) == i + 1                        \* mutant: index not masked

Succ(i) == IF i = Capacity - 1 THEN 0 ELSE i + 1

(* (j - i) & kMask: how far j is ahead of i on the ring. *)
Dist(i, j) == IF i <= j THEN j - i ELSE j - i + Capacity

TypeOK ==
    /\ head \in Index /\ tail \in Index
    /\ seen_head \in Index /\ seen_tail \in Index
    /\ buffer \in [Index -> Items \cup {NoItem}]
    /\ ppc \in {"idle", "load", "write", "store"}
    /\ cpc \in {"idle", "load", "read", "store"}
    /\ pitem \in Items \cup {NoItem}
    /\ (ppc # "idle" => pitem \in Items)
    /\ citem \in Items \cup {NoItem}
    /\ out \in Items \cup {NoItem}

Init ==
    /\ head = 0 /\ tail = 0
    /\ buffer = [i \in Index |-> NoItem]
    /\ seen_head = 0 /\ seen_tail = 0
    /\ ppc = "idle" /\ pitem = NoItem
    /\ cpc = "idle" /\ citem = NoItem
    /\ out = NoItem

(* The values a load may return: from the one seen last to the newest. *)
Visible(seen, newest) == {i \in Index : Dist(seen, i) <= Dist(seen, newest)}

-----------------------------------------------------------------------------
(* try_push *)

try_push(x) ==
    /\ ppc = "idle"
    /\ ppc' = "load"
    /\ pitem' = x
    /\ UNCHANGED <<tail, seen_head, buffer, cvars>>

NeverFull(h) == FALSE                            \* mutant: the full test dropped

Full(h) == Succ(tail) = h

(* Load head_; a full ring refuses the item. *)
push_load ==
    /\ ppc = "load"
    /\ \E h \in Visible(seen_head, head) :
         /\ seen_head' = h
         /\ \/ /\ Full(h)
               /\ ppc' = "idle"
               /\ pitem' = NoItem
            \/ /\ ~Full(h)
               /\ ppc' = "write"
               /\ UNCHANGED pitem
    /\ UNCHANGED <<tail, buffer, cvars>>

push_write ==
    /\ ppc = "write"
    /\ buffer' = [buffer EXCEPT ![tail] = pitem]
    /\ ppc' = "store"
    /\ UNCHANGED <<tail, seen_head, pitem, cvars>>

push_store ==
    /\ ppc = "store"
    /\ tail' = Succ(tail)
    /\ ppc' = "idle"
    /\ pitem' = NoItem
    /\ UNCHANGED <<seen_head, buffer, cvars>>

-----------------------------------------------------------------------------
(* try_pop *)

try_pop ==
    /\ cpc = "idle"
    /\ cpc' = "load"
    /\ UNCHANGED <<head, seen_tail, citem, out, buffer, pvars>>

EmptyIfNewest(t) == head = tail                 \* mutant: tests the index it did not load

Empty(t) == head = t

(* Load tail_; an empty ring returns nothing. *)
pop_load ==
    /\ cpc = "load"
    /\ \E t \in Visible(seen_tail, tail) :
         /\ seen_tail' = t
         /\ cpc' = IF Empty(t) THEN "idle" ELSE "read"
    /\ UNCHANGED <<head, citem, out, buffer, pvars>>

read_ahead ==                                   \* mutant: reads the slot after head_
    /\ cpc = "read"
    /\ citem' = buffer[Succ(head)]
    /\ cpc' = "store"
    /\ UNCHANGED <<head, seen_tail, out, buffer, pvars>>

pop_read ==
    /\ cpc = "read"
    /\ citem' = buffer[head]
    /\ cpc' = "store"
    /\ UNCHANGED <<head, seen_tail, out, buffer, pvars>>

pop_store ==
    /\ cpc = "store"
    /\ head' = Succ(head)
    /\ out' = citem
    /\ citem' = NoItem
    /\ cpc' = "idle"
    /\ UNCHANGED <<seen_tail, buffer, pvars>>

Producer == (\E x \in Items : try_push(x)) \/ push_load \/ push_write \/ push_store

Consumer == try_pop \/ pop_load \/ pop_read \/ pop_store

Next == Producer \/ Consumer

Spec == Init /\ [][Next]_vars

-----------------------------------------------------------------------------
(* Properties *)

(* Around the ring the indexes keep their order, and the producer's view   *)
(* of the head is never lapped:                                            *)
(*     seen_head  <=  head  <=  seen_tail  <=  tail  <  seen_head + Capacity *)
(* so a stale index makes a thread cautious and never wrong.               *)
RingOrder ==
    Dist(seen_head, head) + Dist(head, seen_tail) + Dist(seen_tail, tail)
      <= Capacity - 1

(* The slot the producer is about to write, or has written and not yet     *)
(* published, is not one the consumer may read, even with the oldest index *)
(* either side may hold: no data race on buffer_.                          *)
NoSlotRace ==
    /\ ppc \in {"write", "store"} => Dist(seen_head, tail) < Capacity - 1
    /\ cpc \in {"read", "store"} => Dist(head, seen_tail) > 0
    /\ ~(ppc = "write" /\ cpc = "read" /\ head = tail)

(* What the two threads hold between two of their steps: an item written   *)
(* and not published is still in its slot, an item read and not released   *)
(* is still the oldest one.                                                *)
InFlight ==
    /\ ppc = "store" => buffer[tail] = pitem
    /\ cpc = "store" => citem = buffer[head]

(* The inductive invariant. *)
Inv == TypeOK /\ RingOrder /\ NoSlotRace /\ InFlight

(* The items from head to tail, oldest first. *)
At(i) == IF head + i - 1 < Capacity THEN head + i - 1 ELSE head + i - 1 - Capacity

Contents == [i \in 1 .. Dist(head, tail) |-> buffer[At(i)]]

(* The queue is a bounded FIFO of Capacity - 1 items: a push takes effect  *)
(* when tail_ is stored, a pop when head_ is.                              *)
Fifo == INSTANCE BoundedFifo WITH q <- Contents, Bound <- Capacity - 1

ImplementsFifo == Fifo!Spec
=============================================================================
