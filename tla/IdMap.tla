-------------------------------- MODULE IdMap --------------------------------
(***************************************************************************)
(* What an id -> handle map promises the book that uses it, and what the   *)
(* id_index of OrderBook is.  ret is the last operation with its answer.   *)
(***************************************************************************)
CONSTANTS Keys, Values, None

VARIABLES m, ret

Answer(op, k, r) == [op |-> op, key |-> k, found |-> r]

Init == m = [k \in Keys |-> None] /\ ret = Answer("none", None, None)

Find(k) == ret' = Answer("find", k, m[k]) /\ UNCHANGED m

Insert(k, v) == /\ m' = [m EXCEPT ![k] = v]
                /\ ret' = Answer("insert", k, None)

Erase(k) == /\ m' = [m EXCEPT ![k] = None]
            /\ ret' = Answer("erase", k, m[k])

Next == \E k \in Keys : Find(k) \/ Erase(k) \/ \E v \in Values : Insert(k, v)

Spec == Init /\ [][Next]_<<m, ret>>
=============================================================================
