---------------------------- MODULE MCSpscQueue ----------------------------
(* SpscQueue for TLC: items are interchangeable. *)
EXTENDS SpscQueue, TLC

Symmetry == Permutations(Items)
=============================================================================
