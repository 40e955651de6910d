------------------------------ MODULE MCFlatMap ------------------------------
EXTENDS FlatMap

(* Every hash function, up to the names of the keys. *)
MCHomes == {h \in [Keys -> Slots] : \A x, y \in Keys : x <= y => h[x] <= h[y]}
=============================================================================
