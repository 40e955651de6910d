--------------------------- MODULE FlatMapProofs ---------------------------
(***************************************************************************)
(* For every capacity, hash function and set of keys, the table of FlatMap *)
(* keeps its probe chains whole and answers as the map of IdMap.           *)
(***************************************************************************)
EXTENDS FlatMap, FiniteSetTheorems, TLAPS

-----------------------------------------------------------------------------
(* The inductive invariant. *)

(* What the call in progress has learnt: it has passed no empty slot and   *)
(* not its key, and a key being inserted is still absent.                  *)
Probing ==
    pc = "probe" =>
        /\ \A t \in Before(k, i) : key[t] # kEmpty /\ key[t] # k
        /\ op = "insert" => ~Present(k) /\ count < Expected /\ v \in Values

FlatMapInv == TypeOK /\ ChainsUnbroken /\ CountExact /\ Probing

-----------------------------------------------------------------------------
(* Slots in the order of a probe. *)

(* The two reserved keys are no keys of a client.                          *)
LEMMA Markers == kEmpty \notin Keys /\ kTombstone \notin Keys /\ kEmpty # kTombstone
BY KeysAssumption DEF kEmpty, kTombstone

(* The home of a key is a slot of the table.                               *)
LEMMA HomeIsSlot == ASSUME TypeOK, NEW x \in Keys PROVE home[x] \in Slots
BY HomesAssumption DEF TypeOK

(* Of two slots, one is met before the other from any home slot.           *)
LEMMA BeforeTotal ==
    ASSUME TypeOK, NEW x \in Keys, NEW s \in Slots, NEW t \in Slots
    PROVE  s = t \/ s \in Before(x, t) \/ t \in Before(x, s)
<1>1. home[x] \in Slots
  BY HomeIsSlot
<1>2. Slots \subseteq Int
  BY CapAssumption DEF Slots
<1> QED
  BY <1>1, <1>2 DEF Before

(* The next probe has passed one slot more, or starts again at home.       *)
LEMMA BeforeNext ==
    ASSUME TypeOK, NEW x \in Keys, NEW s \in Slots
    PROVE  /\ NextSlot(s) \in Slots
           /\ Before(x, NextSlot(s)) \subseteq Before(x, s) \cup {s}
<1>1. home[x] \in Slots
  BY HomeIsSlot
<1> QED
  BY <1>1, CapAssumption DEF Before, NextSlot, Slots

(* No slot lies before the home of a key.                                  *)
LEMMA BeforeHome ==
    ASSUME TypeOK, NEW x \in Keys
    PROVE  Before(x, home[x]) = {}
<1>1. home[x] \in Slots
  BY HomeIsSlot
<1> QED
  BY <1>1, CapAssumption DEF Before, Slots

(* A search that meets an empty slot can give up: its key is not stored.   *)
LEMMA EndMeansAbsent ==
    ASSUME FlatMapInv, pc = "probe", Ends(i)
    PROVE  ~Present(k)
<1>1. k \in Keys /\ i \in Slots /\ op # "none"
  BY DEF FlatMapInv, TypeOK
<1>2. CASE op = "insert"
  BY <1>2 DEF FlatMapInv, Probing
<1>3. CASE op # "insert"
  <2>1. key[i] = kEmpty
    BY <1>3 DEF Ends
  <2> SUFFICES ASSUME NEW s \in Slots, key[s] = k PROVE FALSE
    BY DEF Present
  <2>2. s # i
    BY <1>1, <2>1, Markers
  <2>3. s \notin Before(k, i)
    BY DEF FlatMapInv, Probing
  <2>4. i \notin Before(k, s)
    BY <1>1, <2>1 DEF FlatMapInv, ChainsUnbroken
  <2> QED
    BY <1>1, <2>2, <2>3, <2>4, BeforeTotal DEF FlatMapInv
<1> QED
  BY <1>2, <1>3

-----------------------------------------------------------------------------
(* The keys that are stored, and their number. *)

Stored == {s \in Slots : key[s] \in Keys}

(* The stored keys are finitely many.                                      *)
LEMMA StoredFinite == IsFiniteSet(Stored) /\ Cardinality(Stored) \in Nat
<1>1. IsFiniteSet(Slots)
  BY FS_Interval, CapAssumption DEF Slots
<1>2. Stored \in SUBSET Slots
  BY DEF Stored
<1> QED
  BY <1>1, <1>2, FS_Subset, FS_CardinalityType

-----------------------------------------------------------------------------
(* The steps. *)

(* An empty table is sound.                                                *)
LEMMA InitInv == Init => FlatMapInv
<1> SUFFICES ASSUME Init PROVE FlatMapInv
  OBVIOUS
<1>1. TypeOK
  BY CapAssumption DEF Init, TypeOK, Slots
<1>2. ChainsUnbroken
  BY Markers DEF Init, ChainsUnbroken
<1>3. Stored = {}
  BY Markers DEF Init, Stored
<1>4. CountExact
  BY <1>3, FS_EmptySet DEF Init, CountExact, Stored
<1> QED
  BY <1>1, <1>2, <1>4 DEF Init, FlatMapInv, Probing

(* A call starts with nothing passed.                                      *)
LEMMA CallInv == FlatMapInv /\ Call => FlatMapInv'
<1> SUFFICES ASSUME FlatMapInv, Call PROVE FlatMapInv'
  OBVIOUS
<1>1. PICK x \in Keys, o \in {"find", "insert", "erase"}, y \in Values \cup {None} :
        /\ Start(o, x, y)
        /\ o = "insert" => ~Present(x) /\ count < Expected /\ y \in Values
  BY DEF Call, find, erase, insert
<1>2. /\ pc' = "probe" /\ op' = o /\ k' = x /\ v' = y /\ i' = home[x]
      /\ home' = home /\ key' = key /\ value' = value /\ count' = count
  BY <1>1 DEF Start, table
<1>3. TypeOK'
  BY <1>2, HomeIsSlot DEF FlatMapInv, TypeOK
<1>4. ChainsUnbroken' /\ CountExact'
  BY <1>2 DEF FlatMapInv, ChainsUnbroken, CountExact, Before
<1>5. Probing'
  <2>1. Before(k, i)' = Before(x, home[x])
    BY <1>2 DEF Before
  <2>2. Before(k, i)' = {}
    BY <2>1, BeforeHome DEF FlatMapInv
  <2>3. o = "insert" => ~Present(k)' /\ count' < Expected /\ v' \in Values
    BY <1>1, <1>2 DEF Present
  <2> QED
    BY <1>2, <2>2, <2>3 DEF Probing
<1> QED
  BY <1>3, <1>4, <1>5 DEF FlatMapInv

(* One more step of a probe.                                               *)
LEMMA ProbeNextInv == FlatMapInv /\ probe_next => FlatMapInv'
<1> SUFFICES ASSUME FlatMapInv, probe_next PROVE FlatMapInv'
  OBVIOUS
<1>1. /\ pc = "probe" /\ key[i] # k /\ ~Ends(i) /\ i' = NextSlot(i)
      /\ UNCHANGED <<home, key, value, count, pc, op, k, v>>
      /\ k \in Keys /\ i \in Slots
  BY DEF probe_next, table, FlatMapInv, TypeOK
<1>2. NextSlot(i) \in Slots /\ Before(k, NextSlot(i)) \subseteq Before(k, i) \cup {i}
  BY <1>1, BeforeNext DEF FlatMapInv
<1>3. TypeOK'
  BY <1>1, <1>2 DEF FlatMapInv, TypeOK
<1>4. ChainsUnbroken' /\ CountExact'
  BY <1>1 DEF FlatMapInv, ChainsUnbroken, CountExact, Before
<1>5. Probing'
  <2>1. Before(k, i)' = Before(k, NextSlot(i))
    BY <1>1 DEF Before
  <2>2. \A t \in Before(k, i)' : key[t] # kEmpty /\ key[t] # k
    BY <1>1, <1>2, <2>1 DEF FlatMapInv, Probing, Ends
  <2> QED
    BY <1>1, <2>2 DEF FlatMapInv, Probing, Present
<1> QED
  BY <1>3, <1>4, <1>5 DEF FlatMapInv

(* A slot whose key is replaced by a marker other than kEmpty.             *)
LEMMA ProbeHitInv == FlatMapInv /\ probe_hit => FlatMapInv'
<1> SUFFICES ASSUME FlatMapInv, probe_hit PROVE FlatMapInv'
  OBVIOUS
<1>1. /\ pc = "probe" /\ key[i] = k /\ k \in Keys /\ i \in Slots
      /\ pc' = "idle" /\ op' = "none" /\ k' = None /\ v' = None /\ i' = 0
      /\ home' = home /\ 0 \in Slots
  BY CapAssumption DEF probe_hit, Return, FlatMapInv, TypeOK, Slots
<1>2. Probing'
  BY <1>1 DEF Probing
<1>3. CASE UNCHANGED table
  <2>1. TypeOK'
    BY <1>1, <1>3 DEF FlatMapInv, TypeOK, table
  <2>2. ChainsUnbroken' /\ CountExact'
    BY <1>1, <1>3 DEF FlatMapInv, ChainsUnbroken, CountExact, Before, table
  <2> QED
    BY <1>2, <2>1, <2>2 DEF FlatMapInv
<1>4. CASE /\ key' = [key EXCEPT ![i] = kTombstone]
           /\ value' = [value EXCEPT ![i] = None]
           /\ count' = count - 1
  <2>1. key \in [Slots -> Keys \cup {kEmpty, kTombstone}] /\ count \in 0 .. Expected
    BY DEF FlatMapInv, TypeOK
  <2>2. /\ key'[i] = kTombstone
        /\ \A s \in Slots : s # i => key'[s] = key[s]
    BY <1>1, <1>4, <2>1
  <2>3. ChainsUnbroken'
    <3> SUFFICES ASSUME NEW s \in Slots, key'[s] \in Keys
                 PROVE  /\ \A t \in Before(key'[s], s) : key'[t] # kEmpty
                        /\ \A t \in Slots : key'[t] = key'[s] => t = s
      BY <1>1 DEF ChainsUnbroken, Before
    <3>1. s # i /\ key'[s] = key[s]
      BY <2>2, Markers
    <3>2. /\ \A t \in Before(key[s], s) : key[t] # kEmpty
          /\ \A t \in Slots : key[t] = key[s] => t = s
      BY <3>1 DEF FlatMapInv, ChainsUnbroken
    <3>3. Before(key[s], s) \subseteq Slots
      BY DEF Before
    <3> QED
      BY <2>2, <3>1, <3>2, <3>3, Markers
  <2>4. Stored' = Stored \ {i} /\ i \in Stored
    BY <1>1, <2>2, Markers DEF Stored
  <2>5. count' = Cardinality(Stored') /\ count > 0
    <3>1. count = Cardinality(Stored)
      BY DEF FlatMapInv, CountExact, Stored
    <3>2. Cardinality(Stored \ {i}) = Cardinality(Stored) - 1
      BY <2>4, StoredFinite, FS_RemoveElement
    <3>3. Cardinality(Stored) # 0
      BY <2>4, StoredFinite, FS_EmptySet
    <3> QED
      BY <1>4, <2>1, <2>4, <3>1, <3>2, <3>3
  <2>6. CountExact'
    BY <2>5 DEF CountExact, Stored
  <2>7. TypeOK'
    <3>1. key' \in [Slots -> Keys \cup {kEmpty, kTombstone}]
      BY <1>4, <2>1
    <3>2. value' \in [Slots -> Values \cup {None}]
      BY <1>4 DEF FlatMapInv, TypeOK
    <3>3. count' \in 0 .. Expected
      BY <1>4, <2>1, <2>5, CapAssumption
    <3> QED
      BY <1>1, <3>1, <3>2, <3>3 DEF FlatMapInv, TypeOK
  <2> QED
    BY <1>2, <2>3, <2>6, <2>7 DEF FlatMapInv
<1> QED
  BY <1>3, <1>4 DEF probe_hit, Marker, Uncounted

(* An insert puts its key where the probe ends.                            *)
LEMMA ProbeEndInv == FlatMapInv /\ probe_end => FlatMapInv'
<1> SUFFICES ASSUME FlatMapInv, probe_end PROVE FlatMapInv'
  OBVIOUS
<1>1. /\ pc = "probe" /\ Ends(i) /\ k \in Keys /\ i \in Slots
      /\ pc' = "idle" /\ op' = "none" /\ k' = None /\ v' = None /\ i' = 0
      /\ home' = home /\ 0 \in Slots
  BY CapAssumption DEF probe_end, Return, FlatMapInv, TypeOK, Slots
<1>2. Probing'
  BY <1>1 DEF Probing
<1>3. CASE op # "insert"
  <2>1. UNCHANGED <<key, value, count>>
    BY <1>3 DEF probe_end, table
  <2>2. TypeOK'
    BY <1>1, <2>1 DEF FlatMapInv, TypeOK
  <2>3. ChainsUnbroken' /\ CountExact'
    BY <1>1, <2>1 DEF FlatMapInv, ChainsUnbroken, CountExact, Before
  <2> QED
    BY <1>2, <2>2, <2>3 DEF FlatMapInv
<1>4. CASE op = "insert"
  <2>1. /\ key' = [key EXCEPT ![i] = k]
        /\ value' = [value EXCEPT ![i] = v]
        /\ count' = count + 1
    BY <1>4 DEF probe_end
  <2>2. /\ key \in [Slots -> Keys \cup {kEmpty, kTombstone}]
        /\ count \in 0 .. Expected
        /\ count < Expected /\ v \in Values /\ ~Present(k)
        /\ \A t \in Before(k, i) : key[t] # kEmpty
    BY <1>1, <1>4 DEF FlatMapInv, TypeOK, Probing
  <2>3. /\ key'[i] = k
        /\ \A s \in Slots : s # i => key'[s] = key[s]
        /\ key[i] \notin Keys
    BY <1>1, <2>1, <2>2, Markers DEF Ends
  <2>4. \A s \in Slots : key[s] # kEmpty => key'[s] # kEmpty
    BY <1>1, <2>3, Markers
  <2>5. ChainsUnbroken'
    <3> SUFFICES ASSUME NEW s \in Slots, key'[s] \in Keys
                 PROVE  /\ \A t \in Before(key'[s], s) : key'[t] # kEmpty
                        /\ \A t \in Slots : key'[t] = key'[s] => t = s
      BY <1>1 DEF ChainsUnbroken, Before
    <3>1. \A x : Before(x, s) \subseteq Slots
      BY DEF Before
    <3>2. CASE s = i
      <4>1. \A t \in Slots : key[t] # k
        BY <2>2 DEF Present
      <4> QED
        BY <2>2, <2>3, <2>4, <3>1, <3>2, <4>1
    <3>3. CASE s # i
      <4>1. key'[s] = key[s]
        BY <2>3, <3>3
      <4>2. /\ \A t \in Before(key[s], s) : key[t] # kEmpty
            /\ \A t \in Slots : key[t] = key[s] => t = s
        BY <4>1 DEF FlatMapInv, ChainsUnbroken
      <4>3. key[s] # k
        BY <2>2 DEF Present
      <4> QED
        BY <2>3, <2>4, <3>1, <4>1, <4>2, <4>3
    <3> QED
      BY <3>2, <3>3
  <2>6. Stored' = Stored \cup {i} /\ i \notin Stored
    BY <1>1, <2>3 DEF Stored
  <2>7. CountExact'
    <3>1. count = Cardinality(Stored)
      BY DEF FlatMapInv, CountExact, Stored
    <3>2. Cardinality(Stored \cup {i}) = Cardinality(Stored) + 1
      BY <2>6, StoredFinite, FS_AddElement
    <3>3. count' = Cardinality(Stored')
      BY <2>1, <2>6, <3>1, <3>2
    <3> QED
      BY <3>3 DEF CountExact, Stored
  <2>8. TypeOK'
    <3>1. key' \in [Slots -> Keys \cup {kEmpty, kTombstone}]
      BY <1>1, <2>1, <2>2
    <3>2. value' \in [Slots -> Values \cup {None}]
      BY <2>1, <2>2 DEF FlatMapInv, TypeOK
    <3>3. count' \in 0 .. Expected
      BY <2>1, <2>2, CapAssumption
    <3> QED
      BY <1>1, <3>1, <3>2, <3>3 DEF FlatMapInv, TypeOK
  <2> QED
    BY <1>2, <2>5, <2>7, <2>8 DEF FlatMapInv
<1> QED
  BY <1>3, <1>4

(* Every step keeps the table sound.                                       *)
LEMMA NextInv == FlatMapInv /\ [Next]_vars => FlatMapInv'
<1>1. FlatMapInv /\ UNCHANGED vars => FlatMapInv'
  BY DEF vars, FlatMapInv, TypeOK, ChainsUnbroken, CountExact, Probing, Present, Before
<1> QED
  BY <1>1, CallInv, ProbeNextInv, ProbeHitInv, ProbeEndInv DEF Next, Probe

(* The table and the call that probes it stay consistent.                  *)
THEOREM FlatMapSafety == Spec => []FlatMapInv
BY InitInv, NextInv, PTL DEF Spec

(* Erasing with tombstones and reusing them never breaks a probe chain or  *)
(* stores a key twice, and count_ is the number of stored keys (TableInv). *)
THEOREM TableSound == Spec => []TableInv
<1>1. FlatMapInv => TableInv
  BY DEF FlatMapInv, TableInv
<1> QED
  BY <1>1, FlatMapSafety, PTL

-----------------------------------------------------------------------------
(* The refinement. *)

(* What View says of a key that is stored, and of one that is not.         *)
LEMMA ViewIs ==
    ChainsUnbroken =>
      \A x \in Keys :
        /\ \A s \in Slots : key[s] = x => View[x] = value[s]
        /\ ~Present(x) => View[x] = None
<1> SUFFICES ASSUME ChainsUnbroken, NEW x \in Keys
             PROVE  /\ \A s \in Slots : key[s] = x => View[x] = value[s]
                    /\ ~Present(x) => View[x] = None
  OBVIOUS
<1>1. ASSUME NEW s \in Slots, key[s] = x
      PROVE  View[x] = value[s]
  <2>1. \A t \in Slots : key[t] = x <=> t = s
    BY <1>1 DEF ChainsUnbroken
  <2>2. (CHOOSE t \in Slots : key[t] = x) = s
    BY <1>1, <2>1
  <2> QED
    BY <1>1, <2>2 DEF View, Present
<1>2. ~Present(x) => View[x] = None
  BY DEF View
<1> QED
  BY <1>1, <1>2

(* Every answer of the table is the answer of a map, and only a completed  *)
(* insert or erase changes the map: FlatMap implements IdMap.              *)
THEOREM Implements == Spec => ImplementsMap
<1>1. Init => Map!Init
  <2> SUFFICES ASSUME Init PROVE Map!Init
    OBVIOUS
  <2>1. \A x \in Keys : ~Present(x)
    BY Markers DEF Init, Present
  <2>2. View = [x \in Keys |-> None]
    BY <2>1 DEF View
  <2> QED
    BY <2>2 DEF Init, Map!Init, Ret, Map!Answer
<1>2. FlatMapInv /\ FlatMapInv' /\ [Next]_vars => [Map!Next]_<<View, ret>>
  <2> SUFFICES ASSUME FlatMapInv, FlatMapInv', [Next]_vars
               PROVE  Map!Next \/ UNCHANGED <<View, ret>>
    OBVIOUS
  <2>1. \A x \in Keys :
          /\ \A s \in Slots : key[s] = x => View[x] = value[s]
          /\ ~Present(x) => View[x] = None
    BY ViewIs DEF FlatMapInv
  <2>2. \A x \in Keys :
          /\ \A s \in Slots : key'[s] = x => View'[x] = value'[s]
          /\ (\A s \in Slots : key'[s] # x) => View'[x] = None
    <3>1. (ChainsUnbroken =>
             \A x \in Keys :
               /\ \A s \in Slots : key[s] = x => View[x] = value[s]
               /\ ~Present(x) => View[x] = None)'
      BY ViewIs, PTL
    <3> QED
      BY <3>1 DEF FlatMapInv, Present
  <2>3. View = [x \in Keys |-> View[x]] /\ View' = [x \in Keys |-> View'[x]]
    BY DEF View
  <2>4. UNCHANGED <<key, value>> => UNCHANGED View
    BY DEF View, Present
  <2>5. CASE Call
    BY <2>4, <2>5 DEF Call, find, insert, erase, Start, table
  <2>6. CASE probe_next
    BY <2>4, <2>6 DEF probe_next, table
  <2>7. CASE probe_hit
    <3>1. k \in Keys /\ i \in Slots /\ View[k] = value[i]
          /\ ret' = Ret(op, k, View[k])
      BY <2>1, <2>7 DEF probe_hit, FlatMapInv, TypeOK, Return
    <3>2. CASE op = "find" /\ UNCHANGED table
      <4>1. Map!Find(k)
        BY <2>4, <3>1, <3>2 DEF Map!Find, Map!Answer, Ret, table
      <4> QED
        BY <3>1, <4>1 DEF Map!Next
    <3>3. CASE /\ op = "erase"
               /\ key' = [key EXCEPT ![i] = kTombstone]
               /\ value' = [value EXCEPT ![i] = None]
      <4>1. \A s \in Slots : s # i => key'[s] = key[s] /\ value'[s] = value[s]
        BY <3>3 DEF FlatMapInv, TypeOK
      <4>2. key'[i] = kTombstone /\ key[i] = k
        BY <2>7, <3>1, <3>3 DEF FlatMapInv, TypeOK, probe_hit
      <4>3. ASSUME NEW x \in Keys, x # k
            PROVE  View'[x] = View[x]
        <5>1. CASE Present(x)
          <6>1. PICK s \in Slots : key[s] = x
            BY <5>1 DEF Present
          <6> QED
            BY <2>1, <2>2, <4>1, <4>2, <4>3, <6>1
        <5>2. CASE ~Present(x)
          <6>1. \A s \in Slots : key'[s] # x
            BY <4>1, <4>2, <5>2, Markers DEF Present
          <6> QED
            BY <2>1, <2>2, <5>2, <6>1
        <5> QED
          BY <5>1, <5>2
      <4>4. View'[k] = None
        <5>1. \A s \in Slots : key'[s] # k
          <6> SUFFICES ASSUME NEW s \in Slots, key'[s] = k PROVE FALSE
            OBVIOUS
          <6>1. s # i
            BY <3>1, <4>2, Markers
          <6> QED
            BY <3>1, <4>1, <4>2, <6>1 DEF FlatMapInv, ChainsUnbroken
        <5> QED
          BY <2>2, <3>1, <5>1
      <4>5. View' = [View EXCEPT ![k] = None]
        BY <2>3, <4>3, <4>4
      <4>6. Map!Erase(k)
        BY <3>1, <3>3, <4>5 DEF Map!Erase, Map!Answer, Ret
      <4> QED
        BY <3>1, <4>6 DEF Map!Next
    <3> QED
      BY <2>7, <3>2, <3>3 DEF probe_hit, Marker
  <2>8. CASE probe_end
    <3>1. /\ k \in Keys /\ i \in Slots /\ ~Present(k) /\ View[k] = None
          /\ ret' = Ret(op, k, None) /\ Ends(i)
      BY <2>1, <2>8, EndMeansAbsent DEF probe_end, FlatMapInv, TypeOK, Return
    <3>2. CASE op = "insert"
      <4>1. /\ key' = [key EXCEPT ![i] = k] /\ value' = [value EXCEPT ![i] = v]
            /\ v \in Values
        BY <2>8, <3>2 DEF probe_end, FlatMapInv, Probing
      <4>2. /\ key'[i] = k /\ value'[i] = v /\ key[i] \notin Keys
            /\ \A s \in Slots : s # i => key'[s] = key[s] /\ value'[s] = value[s]
        BY <3>1, <4>1, Markers DEF FlatMapInv, TypeOK, Ends
      <4>3. View'[k] = v
        BY <2>2, <3>1, <4>2
      <4>4. ASSUME NEW x \in Keys, x # k
            PROVE  View'[x] = View[x]
        <5>1. CASE Present(x)
          <6>1. PICK s \in Slots : key[s] = x
            BY <5>1 DEF Present
          <6> QED
            BY <2>1, <2>2, <4>2, <6>1
        <5>2. CASE ~Present(x)
          <6>1. \A s \in Slots : key'[s] # x
            BY <4>2, <4>4, <5>2 DEF Present
          <6> QED
            BY <2>1, <2>2, <5>2, <6>1
        <5> QED
          BY <5>1, <5>2
      <4>5. View' = [View EXCEPT ![k] = v]
        BY <2>3, <4>3, <4>4
      <4>6. Map!Insert(k, v)
        BY <3>1, <3>2, <4>5 DEF Map!Insert, Map!Answer, Ret
      <4> QED
        BY <3>1, <4>1, <4>6 DEF Map!Next
    <3>3. CASE op \in {"find", "erase"}
      <4>1. UNCHANGED View
        BY <2>4, <2>8, <3>3 DEF probe_end, table
      <4>2. View' = [View EXCEPT ![k] = None]
        BY <2>3, <3>1, <4>1
      <4>3. CASE op = "find"
        <5>1. Map!Find(k)
          BY <3>1, <4>1, <4>3 DEF Map!Find, Map!Answer, Ret
        <5> QED
          BY <3>1, <5>1 DEF Map!Next
      <4>4. CASE op = "erase"
        <5>1. Map!Erase(k)
          BY <3>1, <4>2, <4>4 DEF Map!Erase, Map!Answer, Ret
        <5> QED
          BY <3>1, <5>1 DEF Map!Next
      <4> QED
        BY <3>3, <4>3, <4>4
    <3> QED
      BY <2>8, <3>2, <3>3 DEF FlatMapInv, TypeOK, probe_end
  <2>9. CASE UNCHANGED vars
    BY <2>4, <2>9 DEF vars
  <2> QED
    BY <2>5, <2>6, <2>7, <2>8, <2>9 DEF Next, Probe
<1> QED
  BY <1>1, <1>2, FlatMapSafety, PTL DEF Spec, ImplementsMap, Map!Spec

=============================================================================
