-------------------------- MODULE SpscQueueProofs --------------------------
(***************************************************************************)
(* For every capacity and every set of items, SpscQueue keeps its indexes  *)
(* in order, never races on a slot, and implements BoundedFifo.            *)
(***************************************************************************)
EXTENDS SpscQueue, SequenceTheorems, TLAPS

(* The ring has no position outside Index, and a step moves one position.  *)
LEMMA SuccIndex ==
    ASSUME NEW i \in Index
    PROVE  Succ(i) \in Index
BY CapacityAssumption DEF Succ, Index

(* The distance of two positions of the ring is below Capacity.            *)
LEMMA DistRange ==
    ASSUME NEW i \in Index, NEW j \in Index
    PROVE  Dist(i, j) \in 0 .. (Capacity - 1)
BY CapacityAssumption DEF Dist, Index

(* The initial state of the queue satisfies the inductive invariant.       *)
LEMMA InitInv == Init => Inv
<1> SUFFICES ASSUME Init PROVE Inv
  OBVIOUS
<1>1. TypeOK
  BY CapacityAssumption DEF Init, TypeOK, Index
<1>2. RingOrder /\ NoSlotRace /\ InFlight
  BY CapacityAssumption DEF Init, RingOrder, NoSlotRace, InFlight, Dist
<1> QED
  BY <1>1, <1>2 DEF Inv

(* Every step of either thread preserves the inductive invariant.          *)
LEMMA NextInv == Inv /\ [Next]_vars => Inv'
<1> SUFFICES ASSUME Inv, [Next]_vars PROVE Inv'
  OBVIOUS
<1> USE CapacityAssumption, NoItemAssumption
<1>1. ASSUME NEW x \in Items, try_push(x) PROVE Inv'
  BY <1>1 DEF try_push, Inv, TypeOK, RingOrder, NoSlotRace, InFlight, Dist, Index, cvars
<1>2. CASE push_load
  <2>1. PICK h \in Visible(seen_head, head) :
          /\ seen_head' = h
          /\ \/ Full(h) /\ ppc' = "idle" /\ pitem' = NoItem
             \/ ~Full(h) /\ ppc' = "write" /\ UNCHANGED pitem
    BY <1>2 DEF push_load
  <2>2. UNCHANGED <<head, tail, buffer, seen_tail, cpc, citem, out>>
    BY <1>2 DEF push_load, cvars
  <2>3. TypeOK'
    BY <1>2, <2>1, <2>2 DEF push_load, Inv, TypeOK, Visible
  <2>4. h \in Index /\ Dist(h, head) <= Dist(seen_head, head)
    BY <2>1 DEF Inv, TypeOK, Visible, Dist, Index
  <2>5. RingOrder'
    BY <2>1, <2>2, <2>4 DEF Inv, TypeOK, RingOrder, Dist, Index
  <2>6. NoSlotRace' /\ InFlight'
    BY <2>1, <2>2, <2>4, <2>5
       DEF Inv, TypeOK, RingOrder, NoSlotRace, InFlight, Dist, Index, Full, Succ
  <2> QED
    BY <2>3, <2>5, <2>6 DEF Inv
<1>3. CASE push_write
  <2>1. TypeOK' /\ RingOrder' /\ (ppc = "write" /\ ppc' = "store")
    BY <1>3 DEF push_write, Inv, TypeOK, RingOrder, Dist, Index, cvars
  <2>2. NoSlotRace'
    BY <1>3 DEF push_write, Inv, TypeOK, NoSlotRace, Dist, Index, cvars
  <2>3. cpc = "store" => head # tail
    BY <1>3 DEF push_write, Inv, TypeOK, RingOrder, NoSlotRace, Dist, Index
  <2>4. InFlight'
    BY <1>3, <2>3 DEF push_write, Inv, TypeOK, InFlight, Index, cvars
  <2> QED
    BY <2>1, <2>2, <2>4 DEF Inv
<1>4. CASE push_store
  BY <1>4 DEF push_store, Inv, TypeOK, RingOrder, NoSlotRace, InFlight, Dist,
              Index, Succ, cvars
<1>5. CASE try_pop
  BY <1>5 DEF try_pop, Inv, TypeOK, RingOrder, NoSlotRace, InFlight, Dist, Index, pvars
<1>6. CASE pop_load
  <2>1. PICK t \in Visible(seen_tail, tail) :
          /\ seen_tail' = t
          /\ cpc' = IF Empty(t) THEN "idle" ELSE "read"
    BY <1>6 DEF pop_load
  <2>2. UNCHANGED <<head, tail, buffer, seen_head, ppc, pitem, citem, out>>
    BY <1>6 DEF pop_load, pvars
  <2>3. TypeOK'
    BY <2>1, <2>2 DEF Inv, TypeOK, Visible
  <2>4. t \in Index /\ Dist(seen_tail, t) <= Dist(seen_tail, tail)
    BY <2>1 DEF Visible
  <2>5. RingOrder'
    BY <2>1, <2>2, <2>4 DEF Inv, TypeOK, RingOrder, Dist, Index
  <2>6. NoSlotRace' /\ InFlight'
    BY <2>1, <2>2, <2>4, <2>5
       DEF Inv, TypeOK, RingOrder, NoSlotRace, InFlight, Dist, Index, Empty
  <2> QED
    BY <2>3, <2>5, <2>6 DEF Inv
<1>7. CASE pop_read
  BY <1>7 DEF pop_read, Inv, TypeOK, RingOrder, NoSlotRace, InFlight, Dist, Index, pvars
<1>8. CASE pop_store
  BY <1>8 DEF pop_store, Inv, TypeOK, RingOrder, NoSlotRace, InFlight, Dist,
              Index, Succ, pvars
<1>9. CASE UNCHANGED vars
  BY <1>9 DEF vars, Inv, TypeOK, RingOrder, NoSlotRace, InFlight, Dist, Index
<1> QED
  BY <1>1, <1>2, <1>3, <1>4, <1>5, <1>6, <1>7, <1>8, <1>9
     DEF Next, Producer, Consumer

(* The inductive invariant holds in every reachable state.                 *)
THEOREM Safety == Spec => []Inv
BY InitInv, NextInv, PTL DEF Spec

(* Indexes, cached copies and slots keep their types at every step of both *)
(* threads.                                                                *)
THEOREM TypeCorrect == Spec => []TypeOK
BY Safety, PTL DEF Inv

(* The indexes keep their order around the ring, whatever stale values the *)
(* two threads load.                                                       *)
THEOREM RingOrdered == Spec => []RingOrder
BY Safety, PTL DEF Inv

(* The two threads never touch the same slot of buffer_ at the same time.  *)
THEOREM RaceFree == Spec => []NoSlotRace
BY Safety, PTL DEF Inv

-----------------------------------------------------------------------------
(* Contents is a sequence whose length is the distance of the indexes.     *)
LEMMA ContentsSeq ==
    ASSUME TypeOK
    PROVE  /\ Contents \in Seq(Items \cup {NoItem})
           /\ Len(Contents) = Dist(head, tail)
           /\ \A i \in 1 .. Dist(head, tail) : At(i) \in Index
<1>1. Dist(head, tail) \in Nat
  BY DistRange, CapacityAssumption DEF TypeOK
<1>2. \A i \in 1 .. Dist(head, tail) : At(i) \in Index
  BY CapacityAssumption DEF TypeOK, At, Index, Dist
<1>3. \A i \in 1 .. Dist(head, tail) : buffer[At(i)] \in Items \cup {NoItem}
  BY <1>2 DEF TypeOK
<1> QED
  BY <1>1, <1>2, <1>3 DEF Contents

(* Storing tail_ appends the item the producer wrote.                      *)
LEMMA StoreAppends ==
    ASSUME Inv, push_store
    PROVE  Fifo!Push(pitem) /\ pitem \in Items
<1> USE CapacityAssumption
<1>1. /\ tail' = Succ(tail) /\ head' = head /\ buffer' = buffer /\ out' = out
      /\ ppc = "store"
  BY DEF push_store, cvars
<1>2. pitem = buffer[tail] /\ pitem \in Items
  BY <1>1 DEF Inv, InFlight, TypeOK
<1> DEFINE n == Dist(head, tail)
<1>3. n \in Nat /\ n < Capacity - 1
  BY <1>1 DEF Inv, TypeOK, RingOrder, NoSlotRace, Dist, Index
<1>4. Dist(head, tail)' = n + 1
  BY <1>1, <1>3 DEF Inv, TypeOK, Dist, Succ, Index
<1>5. At(n + 1) = tail
  BY <1>3 DEF Inv, TypeOK, Dist, At, Index
<1>6. Contents' = [i \in 1 .. (n + 1) |-> buffer[At(i)]]
  BY <1>1, <1>4 DEF Contents, At
<1>7. Contents \in Seq(Items \cup {NoItem}) /\ Len(Contents) = n
  BY ContentsSeq DEF Inv
<1> DEFINE T == [i \in 1 .. (n + 1) |-> buffer[At(i)]]
<1>8. T = Append(Contents, pitem)
  <2> DEFINE S == Items \cup {NoItem}
  <2>1. /\ Append(Contents, pitem) \in Seq(S)
        /\ Len(Append(Contents, pitem)) = n + 1
        /\ \A i \in 1 .. n : Append(Contents, pitem)[i] = Contents[i]
        /\ Append(Contents, pitem)[n + 1] = pitem
    BY <1>2, <1>7, AppendProperties
  <2>2. \A i \in 1 .. (n + 1) : buffer[At(i)] \in S
    BY <1>2, <1>3, <1>5, ContentsSeq DEF Inv, TypeOK
  <2>3. \A i \in 1 .. n : Contents[i] = buffer[At(i)]
    BY DEF Contents
  <2> HIDE DEF n
  <2>4. T \in Seq(S) /\ Len(T) = n + 1
    BY <1>3, <2>2
  <2>5. \A i \in 1 .. (n + 1) : T[i] = Append(Contents, pitem)[i]
    BY <1>2, <1>3, <1>5, <2>1, <2>3
  <2> QED
    BY <2>1, <2>4, <2>5, SeqEqual
<1> QED
  BY <1>1, <1>2, <1>3, <1>6, <1>7, <1>8 DEF Fifo!Push

(* Storing head_ removes the oldest item, the one the consumer returns.    *)
LEMMA StoreRemoves ==
    ASSUME Inv, pop_store
    PROVE  Fifo!Pop
<1> USE CapacityAssumption
<1>1. /\ head' = Succ(head) /\ tail' = tail /\ buffer' = buffer /\ out' = citem
      /\ cpc = "store"
  BY DEF pop_store, pvars
<1> DEFINE n == Dist(head, tail)
<1>2. n \in Nat /\ n > 0
  BY <1>1 DEF Inv, TypeOK, RingOrder, NoSlotRace, Dist, Index
<1>3. Dist(head, tail)' = n - 1
  BY <1>1, <1>2 DEF Inv, TypeOK, Dist, Succ, Index
<1>4. At(1) = head /\ \A i \in 1 .. (n - 1) : At(i)' = At(i + 1)
  BY <1>1, <1>2 DEF Inv, TypeOK, Dist, At, Index, Succ
<1>5. Contents' = [i \in 1 .. (n - 1) |-> buffer[At(i + 1)]]
  BY <1>1, <1>3, <1>4 DEF Contents
<1>6. Contents \in Seq(Items \cup {NoItem}) /\ Len(Contents) = n
  BY ContentsSeq DEF Inv
<1>7. Contents = [i \in 1 .. n |-> buffer[At(i)]]
  BY DEF Contents
<1> HIDE DEF n
<1>8. Contents # <<>> /\ Head(Contents) = buffer[head]
  <2>1. Contents # <<>>
    BY <1>2, <1>6
  <2>2. Contents[1] = buffer[At(1)]
    BY <1>2, <1>7
  <2>3. Head(Contents) = Contents[1]
    BY <1>2, <1>6
  <2> QED
    BY <1>4, <2>1, <2>2, <2>3
<1> DEFINE S == Items \cup {NoItem}
<1> DEFINE T == [i \in 1 .. (n - 1) |-> buffer[At(i + 1)]]
<1>9. /\ Tail(Contents) \in Seq(S)
      /\ Len(Tail(Contents)) = n - 1
      /\ \A i \in 1 .. (n - 1) : Tail(Contents)[i] = Contents[i + 1]
  BY <1>6, <1>8, HeadTailProperties
<1>10. Tail(Contents) = Contents'
  <2>1. \A i \in 1 .. n : Contents[i] \in S
    BY <1>6
  <2>2. \A i \in 1 .. (n - 1) : buffer[At(i + 1)] = Contents[i + 1] /\ Contents[i + 1] \in S
    BY <1>2, <1>7, <2>1
  <2>3. T \in Seq(S) /\ Len(T) = n - 1
    BY <1>2, <2>2
  <2>4. \A i \in 1 .. (n - 1) : T[i] = Tail(Contents)[i]
    BY <1>9, <2>2
  <2> QED
    BY <1>5, <1>9, <2>3, <2>4, SeqEqual
<1>11. citem = buffer[head]
  BY <1>1 DEF Inv, InFlight
<1> QED
  BY <1>1, <1>8, <1>10, <1>11 DEF Fifo!Pop

(* Writing the slot at tail_ changes no item that is in the queue.         *)
LEMMA WriteInvisible ==
    ASSUME Inv, push_write
    PROVE  Contents' = Contents
<1> USE CapacityAssumption
<1>1. /\ head' = head /\ tail' = tail
      /\ buffer' = [buffer EXCEPT ![tail] = pitem]
  BY DEF push_write, cvars
<1>2. \A i \in 1 .. Dist(head, tail) : At(i) \in Index /\ At(i) # tail
  BY DEF Inv, TypeOK, At, Dist, Index
<1>3. \A i \in 1 .. Dist(head, tail) : buffer'[At(i)] = buffer[At(i)]
  BY <1>1, <1>2 DEF Inv, TypeOK
<1> QED
  BY <1>1, <1>3 DEF Contents, At, Dist

(* Every behaviour of the two threads is a behaviour of the bounded FIFO:  *)
(* nothing is lost, duplicated or reordered.                               *)
THEOREM Refinement == Spec => ImplementsFifo
<1>1. Init => Fifo!Init
  <2> SUFFICES ASSUME Init PROVE Fifo!Init
    OBVIOUS
  <2>1. Dist(head, tail) = 0 /\ TypeOK
    BY InitInv DEF Init, Dist, Inv
  <2>2. Contents = <<>>
    BY <2>1, ContentsSeq
  <2> QED
    BY <2>2 DEF Fifo!Init, Init
<1>2. Inv /\ [Next]_vars => [Fifo!Next]_<<Contents, out>>
  <2> SUFFICES ASSUME Inv, [Next]_vars
               PROVE  Fifo!Next \/ UNCHANGED <<Contents, out>>
    BY DEF Fifo!Next
  <2>1. ASSUME NEW x \in Items, try_push(x) PROVE UNCHANGED <<Contents, out>>
    BY <2>1 DEF try_push, cvars, Contents, At, Dist
  <2>2. CASE push_load
    BY <2>2 DEF push_load, cvars, Contents, At, Dist
  <2>3. CASE push_write
    BY <2>3, WriteInvisible DEF push_write, cvars
  <2>4. CASE push_store
    BY <2>4, StoreAppends DEF Fifo!Next
  <2>5. CASE try_pop
    BY <2>5 DEF try_pop, pvars, Contents, At, Dist
  <2>6. CASE pop_load
    BY <2>6 DEF pop_load, pvars, Contents, At, Dist
  <2>7. CASE pop_read
    BY <2>7 DEF pop_read, pvars, Contents, At, Dist
  <2>8. CASE pop_store
    BY <2>8, StoreRemoves DEF Fifo!Next
  <2>9. CASE UNCHANGED vars
    BY <2>9 DEF vars, Contents, At, Dist
  <2> QED
    BY <2>1, <2>2, <2>3, <2>4, <2>5, <2>6, <2>7, <2>8, <2>9
       DEF Next, Producer, Consumer
<1> QED
  BY <1>1, <1>2, Safety, PTL DEF Spec, Fifo!Spec, ImplementsFifo
=============================================================================
