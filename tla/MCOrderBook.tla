---------------------------- MODULE MCOrderBook ----------------------------
(* OrderBook for TLC: identifiers and slots are interchangeable. *)
EXTENDS OrderBook, TLC

Symmetry == Permutations(Ids) \cup Permutations(Handles)
=============================================================================
