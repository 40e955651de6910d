---------------------------- MODULE MCPhotonBook ----------------------------
EXTENDS PhotonBook, TLC

(* GTC and DAY orders that carry an end, and GTD orders without an end and *)
(* with one.                                                               *)
MCLives == [tif : {"GTC", "DAY"}, expiry_ns : {1}] \cup [tif : {"GTD"}, expiry_ns : 0 .. 2]

(* For liveness: one instant is enough for entries that are due and stale. *)
MCLivesOnce == {[tif |-> "GTD", expiry_ns |-> 1]}

Symmetry == Permutations(Ids) \cup Permutations(Handles)
=============================================================================
