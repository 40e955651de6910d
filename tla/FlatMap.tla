------------------------------- MODULE FlatMap -------------------------------
(***************************************************************************)
(* lob::FlatMap (include/lob/flat_map.hpp): open addressing with linear    *)
(* probing and tombstones, as PhotonBook uses it for its id index.  Every  *)
(* probe is a step.  index_of is one of the functions in Homes, chosen at  *)
(* the start.                                                              *)
(* The value of a slot without a key is read by nobody and stands as None. *)
(*                                                                         *)
(* The user inserts a key only while it is absent (an order rests under an *)
(* id that is not in the book) and keeps at most Expected keys, which is   *)
(* the number of slots in its pool and the expected_count of the map.      *)
(***************************************************************************)
EXTENDS Integers, FiniteSets

CONSTANTS Keys, Values, None,
          Cap, Expected,
          Homes \* the hash functions considered

kEmpty     == 0
kTombstone == -1
Slots      == 0 .. (Cap - 1)

ASSUME KeysAssumption  == Keys \subseteq Nat \ {0}
ASSUME NoneAssumption  == None \notin Values \cup Keys
ASSUME CapAssumption   == Cap \in Nat /\ Expected \in Nat \ {0} /\ 2 * Expected <= Cap
ASSUME HomesAssumption == Homes \subseteq [Keys -> Slots]

VARIABLES
    home,       \* index_of
    key, value, \* slots_
    count,      \* count_
    pc, op, k, v, \* the call in progress and its arguments
    i,          \* the slot it probes
    ret         \* the last call that returned, with its answer

table == <<key, value, count>>
vars  == <<home, key, value, count, pc, op, k, v, i, ret>>

Ret(o, x, r) == [op |-> o, key |-> x, found |-> r]

TypeOK ==
    /\ home \in Homes
    /\ key \in [Slots -> Keys \cup {kEmpty, kTombstone}]
    /\ value \in [Slots -> Values \cup {None}]
    /\ count \in 0 .. Expected
    /\ pc \in {"idle", "probe"}
    /\ op \in {"none", "find", "insert", "erase"}
    /\ k \in Keys \cup {None} /\ v \in Values \cup {None}
    /\ (pc = "probe" => k \in Keys /\ op # "none")
    /\ i \in Slots

Init ==
    /\ home \in Homes
    /\ key = [s \in Slots |-> kEmpty]
    /\ value = [s \in Slots |-> None]
    /\ count = 0
    /\ pc = "idle" /\ op = "none" /\ k = None /\ v = None /\ i = 0
    /\ ret = Ret("none", None, None)

-----------------------------------------------------------------------------
Present(x) == \E s \in Slots : key[s] = x

(* A call starts to probe at the home slot of its key. *)
Start(o, x, y) ==
    /\ pc = "idle"
    /\ pc' = "probe"
    /\ op' = o /\ k' = x /\ v' = y
    /\ i' = home[x]
    /\ UNCHANGED <<home, table, ret>>

find(x) == Start("find", x, None)

insert(x, y) == ~Present(x) /\ count < Expected /\ Start("insert", x, y)

erase(x) == Start("erase", x, None)

Return(r) ==
    /\ pc' = "idle" /\ op' = "none" /\ k' = None /\ v' = None /\ i' = 0
    /\ ret' = Ret(op, k, r)
    /\ UNCHANGED home

(* What erase leaves in the slot. *)
LeavesGap == kEmpty                             \* mutant: the slot becomes empty

Marker == kTombstone

Uncounted == count - 1

(* The slot holds the key.  Only find and erase meet it: a key that is     *)
(* inserted is absent, so the overwriting branch of insert is not taken.   *)
probe_hit ==
    /\ pc = "probe" /\ key[i] = k
    /\ \/ op = "find"   /\ UNCHANGED table
       \/ /\ op = "erase"
          /\ key' = [key EXCEPT ![i] = Marker]
          /\ value' = [value EXCEPT ![i] = None]
          /\ count' = Uncounted
    /\ Return(value[i])

(* An absent key: find and erase stop at an empty slot, insert takes the   *)
(* first slot that is empty or a tombstone.                                *)
EndsAtAnyMarker(s) == key[s] \in {kEmpty, kTombstone} \* mutant: tombstone ends a search

Ends(s) == key[s] = kEmpty \/ (op = "insert" /\ key[s] = kTombstone)

probe_end ==
    /\ pc = "probe" /\ Ends(i)
    /\ IF op = "insert"
         THEN /\ key' = [key EXCEPT ![i] = k]
              /\ value' = [value EXCEPT ![i] = v]
              /\ count' = count + 1
         ELSE UNCHANGED table
    /\ Return(None)

(* (i + 1) & mask_ *)
StopAtLast(s) == IF s = Cap - 1 THEN s ELSE s + 1 \* mutant: no wrap-around

NextSlot(s) == IF s = Cap - 1 THEN 0 ELSE s + 1

probe_next ==
    /\ pc = "probe" /\ key[i] # k /\ ~Ends(i)
    /\ i' = NextSlot(i)
    /\ UNCHANGED <<home, table, pc, op, k, v, ret>>

Call == \E x \in Keys : find(x) \/ erase(x) \/ \E y \in Values : insert(x, y)

Probe == probe_hit \/ probe_end \/ probe_next

Next == Call \/ Probe

Spec == Init /\ [][Next]_vars

(* A call in progress runs; nothing is assumed of the user. *)
FairSpec == Spec /\ WF_vars(Probe)

-----------------------------------------------------------------------------
(* Properties *)

(* The slots a search for a key in slot s passes before it. *)
Before(x, s) == {t \in Slots : IF home[x] <= s THEN home[x] <= t /\ t < s
                                               ELSE home[x] <= t \/ t < s}

(* Erasing and reusing slots never breaks a probe chain: every stored key  *)
(* is reached from its home slot before any empty slot, and stored once.   *)
ChainsUnbroken ==
    \A s \in Slots : key[s] \in Keys =>
        /\ \A t \in Before(key[s], s) : key[t] # kEmpty
        /\ \A t \in Slots : key[t] = key[s] => t = s

(* count_, which size() returns, is the number of keys in the table.       *)
CountExact == count = Cardinality({s \in Slots : key[s] \in Keys})

(* The table is sound: types, in particular a masked index, chains that    *)
(* erase and reuse leave whole, and a count that size() can return.        *)
TableInv == TypeOK /\ ChainsUnbroken /\ CountExact

(* The table read as a map. *)
View == [x \in Keys |-> IF Present(x) THEN value[CHOOSE s \in Slots : key[s] = x]
                                      ELSE None]

Map == INSTANCE IdMap WITH m <- View

(* Whatever collides, the table answers as a map does.                     *)
ImplementsMap == Map!Spec

HasEmpty == \E s \in Slots : key[s] = kEmpty

(* As long as one slot has never been used, every call returns.            *)
ReturnsWithEmpty == pc = "probe" /\ HasEmpty ~> pc = "idle"

(* A search for an absent key comes back with nothing, as the tests        *)
(* FindMissing and EraseNonexistent expect.                                *)
MissingReturns == \A x \in Keys :
    pc = "probe" /\ k = x /\ ~Present(x) ~> pc = "idle"
=============================================================================
