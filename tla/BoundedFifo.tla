----------------------------- MODULE BoundedFifo -----------------------------
(***************************************************************************)
(* What a single-producer single-consumer queue promises: a FIFO of at     *)
(* most Bound items that loses, duplicates and reorders nothing.  A push   *)
(* or a pop may be refused at any time, which changes nothing.             *)
(***************************************************************************)
EXTENDS Integers, Sequences

CONSTANTS Items, NoItem, Bound

VARIABLES q,   \* the items pushed and not yet popped, oldest first
          out  \* the item the last successful pop returned

Init == q = <<>> /\ out = NoItem

Push(x) == /\ Len(q) < Bound
           /\ q' = Append(q, x)
           /\ UNCHANGED out

Pop == /\ q # <<>>
       /\ out' = Head(q)
       /\ q' = Tail(q)

Next == (\E x \in Items : Push(x)) \/ Pop

Spec == Init /\ [][Next]_<<q, out>>
=============================================================================
