----------------------- MODULE MCOrderBookRefinement -----------------------
(* OrderBookRefinement for TLC: identifiers and slots are interchangeable. *)
EXTENDS OrderBookRefinement, TLC

Symmetry == Permutations(Ids) \cup Permutations(Handles)
=============================================================================
