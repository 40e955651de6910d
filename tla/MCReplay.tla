------------------------------ MODULE MCReplay ------------------------------
(* Replay for TLC: references, slots and symbols are interchangeable. *)
EXTENDS Replay, TLC

Symmetry == Permutations(Refs) \cup Permutations(Handles)
              \cup Permutations(Symbols)
=============================================================================
