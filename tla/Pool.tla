-------------------------------- MODULE Pool --------------------------------
(***************************************************************************)
(* lob::Pool (include/lob/pool.hpp): the free list is threaded through the *)
(* free slots, in the same bytes (a union) that hold the object of a slot  *)
(* in use.  What those bytes read as once the user has written an object   *)
(* is Object.  The user deallocates only slots it has allocated.           *)
(***************************************************************************)
EXTENDS Integers, Sequences, FiniteSets

CONSTANTS Capacity, Object

ASSUME CapacityAssumption == Capacity \in Nat

kInvalid == -1
Handle   == 0 .. (Capacity - 1)

VARIABLES
    policy,               \* FreeListPolicy, chosen when the template is used
    next_free,            \* nodes_[h] read as next_free
    free_head, free_tail, \* free_tail is used by Fifo only
    in_use,               \* in_use_
    held,                 \* the slots the user holds
    got                   \* what the last allocate returned

vars == <<policy, next_free, free_head, free_tail, in_use, held, got>>

TypeOK ==
    /\ policy \in {"Lifo", "Fifo"}
    /\ next_free \in [Handle -> Handle \cup {kInvalid, Object}]
    /\ free_head \in Handle \cup {kInvalid}
    /\ free_tail \in Handle \cup {kInvalid}
    /\ in_use \in 0 .. Capacity
    /\ held \in SUBSET Handle
    /\ got \in Handle \cup {kInvalid}

(* The constructor threads the list through all slots in order. *)
Init ==
    /\ policy \in {"Lifo", "Fifo"}
    /\ next_free = [h \in Handle |-> IF h = Capacity - 1 THEN kInvalid ELSE h + 1]
    /\ free_head = IF Capacity > 0 THEN 0 ELSE kInvalid
    /\ free_tail = IF Capacity > 0 /\ policy = "Fifo" THEN Capacity - 1 ELSE kInvalid
    /\ in_use = 0
    /\ held = {}
    /\ got = kInvalid

(* The tail after the head slot left the list. *)
KeepTail(head) == free_tail                     \* mutant: tail of an empty list kept

TailAfter(head) ==
    IF policy = "Fifo" /\ head = kInvalid THEN kInvalid ELSE free_tail

allocate ==
    \/ /\ free_head = kInvalid
       /\ got' = kInvalid
       /\ UNCHANGED <<policy, next_free, free_head, free_tail, in_use, held>>
    \/ /\ free_head # kInvalid
       /\ got' = free_head
       /\ free_head' = next_free[free_head]
       /\ free_tail' = TailAfter(free_head')
       /\ in_use' = in_use + 1
       /\ held' = held \cup {free_head}
       /\ UNCHANGED <<policy, next_free>>

(* The user writes an object into a slot it holds. *)
write(h) ==
    /\ h \in held
    /\ next_free' = [next_free EXCEPT ![h] = Object]
    /\ UNCHANGED <<policy, free_head, free_tail, in_use, held, got>>

(* Where deallocate puts slot h. *)
PushFront(h) ==
    /\ next_free' = [next_free EXCEPT ![h] = free_head]
    /\ free_head' = h
    /\ UNCHANGED free_tail

PushBack(h) ==
    /\ \/ /\ free_tail # kInvalid
          /\ next_free' = [next_free EXCEPT ![h] = kInvalid, ![free_tail] = h]
          /\ UNCHANGED free_head
       \/ /\ free_tail = kInvalid
          /\ next_free' = [next_free EXCEPT ![h] = kInvalid]
          /\ free_head' = h
    /\ free_tail' = h

PushBackDangling(h) ==                          \* mutant: the new tail keeps its old bytes
    /\ \/ /\ free_tail # kInvalid
          /\ next_free' = [next_free EXCEPT ![free_tail] = h]
          /\ UNCHANGED free_head
       \/ /\ free_tail = kInvalid
          /\ free_head' = h
          /\ UNCHANGED next_free
    /\ free_tail' = h

EnlistDangling(h) ==                            \* mutant: Fifo without the end mark
    IF policy = "Fifo" THEN PushBackDangling(h) ELSE PushFront(h)

EnlistFront(h) == PushFront(h)                  \* mutant: policy ignored

Enlist(h) == IF policy = "Fifo" THEN PushBack(h) ELSE PushFront(h)

deallocate(h) ==
    /\ h \in held
    /\ Enlist(h)
    /\ in_use' = in_use - 1
    /\ held' = held \ {h}
    /\ UNCHANGED <<policy, got>>

Next == allocate \/ (\E h \in Handle : write(h) \/ deallocate(h))

Spec == Init /\ [][Next]_vars

-----------------------------------------------------------------------------
(* The free list, head first: what allocate would hand out in which order. *)
FreeList ==
    LET walk[n \in 0 .. Capacity] ==
          IF n = 0 THEN <<>>
          ELSE LET s == walk[n - 1]
                   h == IF s = <<>> THEN free_head ELSE next_free[s[Len(s)]]
               IN  IF h \in Handle THEN Append(s, h) ELSE s
    IN  walk[Capacity]

FreeSet == {FreeList[i] : i \in 1 .. Len(FreeList)}

(* The list and the user's slots share no slot and lose none, although     *)
(* both use the same bytes; the list ends properly (never in an object),   *)
(* its tail is its last slot, and in_use counts the slots held.            *)
ListSound ==
    /\ FreeSet \cap held = {} /\ FreeSet \cup held = Handle
    /\ Len(FreeList) = Cardinality(FreeSet)
    /\ FreeList # <<>> => next_free[FreeList[Len(FreeList)]] = kInvalid
    /\ policy = "Fifo" =>
         free_tail = IF FreeList = <<>> THEN kInvalid ELSE FreeList[Len(FreeList)]
    /\ in_use = Cardinality(held)

(* The pool is sound: links, head and tail are handles or kInvalid, never  *)
(* the bytes of an object, and the list is as ListSound says.              *)
PoolInv == TypeOK /\ ListSound

(* Lifo reuses the slot freed last, Fifo the slot that has been free       *)
(* longest; nothing else reorders the list.                                *)
ReuseOrder ==
    [][LET old == FreeList
           new == FreeList'
       IN  \/ new = old
           \/ old # <<>> /\ got' = old[1] /\ new = Tail(old)
           \/ \E h \in held : IF policy = "Fifo" THEN new = Append(old, h)
                                                 ELSE new = <<h>> \o old]_vars

(* The pool implements the set of free slots OrderBook works with.         *)
Slots == INSTANCE SlotPool WITH Slots <- Handle, None <- kInvalid,
                                free <- Handle \ held

ImplementsSlotPool == Slots!Spec
=============================================================================
