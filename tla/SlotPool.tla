------------------------------ MODULE SlotPool ------------------------------
(***************************************************************************)
(* What a fixed-capacity pool promises its user, and what OrderBook uses   *)
(* of it: a set of free slots; allocate hands out one of them, or none     *)
(* when there is none; deallocate takes a slot back.                       *)
(***************************************************************************)
CONSTANTS Slots, None

VARIABLES free, got  \* got: what the last allocate returned

Init == free = Slots /\ got = None

Allocate ==
    \/ free = {} /\ got' = None /\ UNCHANGED free
    \/ \E h \in free : free' = free \ {h} /\ got' = h

Deallocate == /\ \E h \in Slots \ free : free' = free \cup {h}
              /\ UNCHANGED got

Next == Allocate \/ Deallocate

Spec == Init /\ [][Next]_<<free, got>>
=============================================================================
