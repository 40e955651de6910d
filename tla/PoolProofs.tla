----------------------------- MODULE PoolProofs -----------------------------
(***************************************************************************)
(* For every capacity and both policies, the free list that Pool threads   *)
(* through the free slots is whole, hands the slots out in the order its   *)
(* policy says, and implements the set of free slots of SlotPool.          *)
(***************************************************************************)
EXTENDS Pool, SequenceTheorems, FiniteSetTheorems, TLAPS

-----------------------------------------------------------------------------
(* The inductive invariant. *)

(* s is the free list: linked from head to tail, each slot once, exactly   *)
(* the slots the user does not hold.                                       *)
IsList(s) ==
    /\ s \in Seq(Handle)
    /\ \A i, j \in 1 .. Len(s) : s[i] = s[j] => i = j
    /\ \A h \in Handle : h \notin held <=> \E i \in 1 .. Len(s) : s[i] = h
    /\ free_head = IF s = <<>> THEN kInvalid ELSE s[1]
    /\ \A i \in 1 .. Len(s) :
         next_free[s[i]] = IF i = Len(s) THEN kInvalid ELSE s[i + 1]
    /\ policy = "Fifo" => free_tail = IF s = <<>> THEN kInvalid ELSE s[Len(s)]

ListInv == TypeOK /\ in_use = Cardinality(held) /\ \E s : IsList(s)

-----------------------------------------------------------------------------
(* The walk of FreeList finds the list. *)

(* A non-empty set of naturals has a least element.                        *)
LEMMA LeastExists ==
    ASSUME NEW S \in SUBSET Nat, S # {}
    PROVE  \E n \in S : \A m \in S : n <= m
<1>1. PICK n \in S : \A m \in S : ~(<<m, n>> \in OpToRel(<, Nat))
  BY WFMin, NatLessThanWellFounded
<1>2. \A m \in S : ~(m < n)
  BY <1>1 DEF OpToRel
<1> QED
  BY <1>2

(* A sequence without repetition has as many elements as positions.        *)
LEMMA DistinctCardinality ==
    ASSUME NEW S, NEW s \in Seq(S), \A i, j \in 1 .. Len(s) : s[i] = s[j] => i = j
    PROVE  /\ IsFiniteSet({s[i] : i \in 1 .. Len(s)})
           /\ Cardinality({s[i] : i \in 1 .. Len(s)}) = Len(s)
<1> DEFINE T == {s[i] : i \in 1 .. Len(s)}
<1>1. Len(s) \in Nat /\ s \in [1 .. Len(s) -> S] /\ DOMAIN s = 1 .. Len(s)
  BY LenProperties
<1>2. s \in Bijection(1 .. Len(s), T)
  <2>1. s \in [1 .. Len(s) -> T]
    BY <1>1
  <2>2. \A y \in T : \E i \in 1 .. Len(s) : s[i] = y
    OBVIOUS
  <2> QED
    BY <2>1, <2>2 DEF Bijection, Injection, Surjection, IsInjective
<1>3. IsFiniteSet(1 .. Len(s)) /\ Cardinality(1 .. Len(s)) = Len(s)
  BY <1>1, FS_Interval
<1>4. ExistsBijection(1 .. Len(s), T)
  BY <1>2 DEF ExistsBijection
<1> QED
  BY <1>3, <1>4, FS_Bijection

(* The slots are finite, so are those of the list, and their numbers add   *)
(* up.                                                                     *)
LEMMA HandlesFinite == IsFiniteSet(Handle) /\ Cardinality(Handle) = Capacity
BY FS_Interval, CapacityAssumption DEF Handle

(* A free list is no longer than the pool.                                 *)
LEMMA ListLength ==
    ASSUME NEW s, IsList(s)
    PROVE  /\ Len(s) \in 0 .. Capacity
           /\ Cardinality({s[i] : i \in 1 .. Len(s)}) = Len(s)
<1> DEFINE T == {s[i] : i \in 1 .. Len(s)}
<1>1. s \in Seq(Handle) /\ Len(s) \in Nat
  BY LenProperties DEF IsList
<1>2. T \subseteq Handle
  BY <1>1, ElementOfSeq
<1>3. Cardinality(T) = Len(s)
  BY DistinctCardinality DEF IsList
<1>4. Cardinality(T) <= Capacity
  BY <1>2, HandlesFinite, FS_Subset
<1> HIDE DEF T
<1>5. Len(s) \in 0 .. Capacity
  BY <1>1, <1>3, <1>4, CapacityAssumption
<1> QED
  BY <1>3, <1>5 DEF T

(* The recursion of FreeList: one more slot, until the list ends.          *)
Walked(s) == LET h == IF s = <<>> THEN free_head ELSE next_free[s[Len(s)]]
             IN  IF h \in Handle THEN Append(s, h) ELSE s

Walks(f) == f = [n \in 0 .. Capacity |-> IF n = 0 THEN <<>> ELSE Walked(f[n - 1])]

(* FreeList is a solution of that recursion.                               *)
LEMMA FreeListDef == FreeList = (CHOOSE f : Walks(f))[Capacity]
BY DEF FreeList, Walks, Walked

(* The first n slots of the list, or all of them.                          *)
Front(s, n) == IF n <= Len(s) THEN SubSeq(s, 1, n) ELSE s

(* One step of the walk takes a front of the list to the next one.         *)
LEMMA WalkedFront ==
    ASSUME NEW s, IsList(s), NEW n \in Nat
    PROVE  Walked(Front(s, n)) = Front(s, n + 1)
<1>1. s \in Seq(Handle) /\ Len(s) \in Nat
  BY LenProperties DEF IsList
<1>2. \A i \in 1 .. Len(s) : s[i] \in Handle
  BY <1>1, ElementOfSeq
<1>3. kInvalid \notin Handle
  BY DEF kInvalid, Handle
<1>4. CASE n >= Len(s)
  <2>1. Front(s, n) = s /\ Front(s, n + 1) = s
    BY <1>1, <1>4, SubSeqFull DEF Front
  <2>2. CASE s = <<>>
    BY <1>3, <2>1, <2>2 DEF Walked, IsList
  <2>3. CASE s # <<>>
    <3>1. Len(s) \in 1 .. Len(s)
      BY <1>1, <2>3, EmptySeq
    <3>2. next_free[s[Len(s)]] = kInvalid
      BY <3>1 DEF IsList
    <3> QED
      BY <1>3, <2>1, <2>3, <3>2 DEF Walked
  <2> QED
    BY <2>2, <2>3
<1>5. CASE n < Len(s)
  <2>1. /\ Front(s, n) = SubSeq(s, 1, n) /\ Front(s, n + 1) = SubSeq(s, 1, n + 1)
    BY <1>1, <1>5 DEF Front
  <2>2. SubSeq(s, 1, n) \in Seq(Handle) /\ Len(SubSeq(s, 1, n)) = n
        /\ \A i \in 1 .. n : SubSeq(s, 1, n)[i] = s[i]
    BY <1>1, <1>2, <1>5, SubSeqProperties
  <2>3. SubSeq(s, 1, n + 1) = Append(SubSeq(s, 1, n), s[n + 1])
    <3>1. SubSeq(s, 1, n + 1) = SubSeq(s, 1, n) \o <<s[n + 1]>>
      BY <1>1, <1>5, SubSeqRecursiveSecond
    <3>2. s[n + 1] \in Handle
      BY <1>1, <1>2, <1>5
    <3>3. SubSeq(s, 1, n) \in Seq(Handle)
      BY <2>2
    <3>4. Append(SubSeq(s, 1, n), s[n + 1]) = SubSeq(s, 1, n) \o <<s[n + 1]>>
      BY <3>2, <3>3, AppendIsConcat
    <3> QED
      BY <3>1, <3>4
  <2>4. CASE n = 0
    <3>1. SubSeq(s, 1, n) = <<>>
      BY <2>4, SubSeqEmpty
    <3>2. free_head = s[1] /\ s[1] \in Handle
      BY <1>1, <1>2, <1>5, <2>4, EmptySeq DEF IsList
    <3> QED
      BY <2>1, <2>3, <2>4, <3>1, <3>2 DEF Walked
  <2>5. CASE n > 0
    <3> DEFINE u == SubSeq(s, 1, n)
    <3>. HIDE DEF u
    <3>1. u # <<>> /\ u[n] = s[n]
      <4>1. Len(u) = n /\ \A i \in 1 .. n : u[i] = s[i]
        BY <2>2 DEF u
      <4>2. Len(<<>>) = 0
        BY EmptySeq
      <4> QED
        BY <2>5, <4>1, <4>2
    <3>2. next_free[s[n]] = s[n + 1] /\ s[n + 1] \in Handle
      BY <1>1, <1>2, <1>5, <2>5 DEF IsList
    <3>3. Len(u) = n /\ Front(s, n) = u /\ Front(s, n + 1) = Append(u, s[n + 1])
      BY <2>1, <2>2, <2>3 DEF u
    <3> QED
      BY <3>1, <3>2, <3>3 DEF Walked
  <2> QED
    BY <2>4, <2>5
<1> QED
  BY <1>1, <1>4, <1>5

(* The walk of FreeList meets the slots of the list, in its order.         *)
LEMMA FreeListIs == \A s : IsList(s) => FreeList = s
<1> SUFFICES ASSUME NEW s, IsList(s) PROVE FreeList = s
  OBVIOUS
<1> DEFINE f == CHOOSE g : Walks(g)
           w == [n \in 0 .. Capacity |-> Front(s, n)]
<1>1. /\ s \in Seq(Handle) /\ Len(s) \in Nat /\ Len(s) <= Capacity
      /\ Front(s, 0) = <<>> /\ Front(s, Capacity) = s
  <2>1. s \in Seq(Handle)
    BY DEF IsList
  <2>2. Len(s) \in 0 .. Capacity
    BY ListLength
  <2>3. Len(s) \in Nat /\ Len(s) <= Capacity
    BY <2>2, CapacityAssumption
  <2> QED
    BY <2>1, <2>3, SubSeqEmpty, SubSeqFull, CapacityAssumption DEF Front
<1>2. Walks(w)
  <2>1. ASSUME NEW n \in 0 .. Capacity
        PROVE  w[n] = IF n = 0 THEN <<>> ELSE Walked(w[n - 1])
    <3>1. CASE n = 0
      BY <1>1, <3>1
    <3>2. CASE n > 0
      <4>1. n - 1 \in 0 .. Capacity /\ n - 1 \in Nat /\ (n - 1) + 1 = n
        BY <3>2, CapacityAssumption
      <4>2. Walked(Front(s, n - 1)) = Front(s, (n - 1) + 1)
        BY <4>1, WalkedFront
      <4> QED
        BY <3>2, <4>1, <4>2
    <3> QED
      BY <3>1, <3>2, CapacityAssumption
  <2> QED
    BY <2>1 DEF Walks
<1>3. Walks(f)
  BY <1>2
<1> HIDE DEF f, w
<1>4. \A n \in 0 .. Capacity : f[n] = IF n = 0 THEN <<>> ELSE Walked(f[n - 1])
  BY <1>3 DEF Walks
<1>5. \A n \in 0 .. Capacity : f[n] = Front(s, n)
  <2> DEFINE Bad == {n \in 0 .. Capacity : f[n] # Front(s, n)}
  <2>1. SUFFICES ASSUME Bad # {} PROVE FALSE
    OBVIOUS
  <2>2. PICK n \in Bad : \A m \in Bad : n <= m
    <3>1. Bad \in SUBSET Nat
      BY CapacityAssumption
    <3> HIDE DEF Bad
    <3> QED
      BY <2>1, <3>1, LeastExists
  <2>3. n # 0
    BY <1>1, <1>4, CapacityAssumption
  <2>4. n - 1 \in 0 .. Capacity /\ n - 1 \notin Bad /\ (n - 1) + 1 = n /\ n - 1 \in Nat
    BY <2>2, <2>3, CapacityAssumption
  <2>5. f[n - 1] = Front(s, n - 1) /\ f[n] = Walked(f[n - 1])
    BY <1>4, <2>3, <2>4
  <2>6. f[n] = Front(s, n)
    BY <2>4, <2>5, WalkedFront
  <2> QED
    BY <2>6
<1>6. f[Capacity] = s
  BY <1>1, <1>5, CapacityAssumption
<1> QED
  BY <1>6, FreeListDef DEF f

-----------------------------------------------------------------------------
(* What each action does to the list. *)

(* The constructor threads all slots, in order. *)
LEMMA InitList ==
    ASSUME Init
    PROVE  IsList([n \in 1 .. Capacity |-> n - 1])
<1> DEFINE s == [n \in 1 .. Capacity |-> n - 1]
<1>1. \A n \in 1 .. Capacity : s[n] \in Handle /\ s[n] = n - 1
  BY CapacityAssumption DEF Handle
<1>2. s \in Seq(Handle) /\ Len(s) = Capacity
  BY <1>1, CapacityAssumption, IsASeq
<1>3. s = <<>> <=> Capacity = 0
  BY <1>2, EmptySeq
<1> HIDE DEF s
<1>4. \A m, n \in 1 .. Len(s) : s[m] = s[n] => m = n
  BY <1>1, <1>2, CapacityAssumption
<1>5. \A h \in Handle : h \notin held <=> \E n \in 1 .. Len(s) : s[n] = h
  <2> SUFFICES ASSUME NEW h \in Handle PROVE \E n \in 1 .. Len(s) : s[n] = h
    BY DEF Init
  <2>1. h + 1 \in 1 .. Len(s) /\ s[h + 1] = h
    BY <1>1, <1>2, CapacityAssumption DEF Handle
  <2> QED
    BY <2>1
<1>6. free_head = IF s = <<>> THEN kInvalid ELSE s[1]
  BY <1>1, <1>3, CapacityAssumption DEF Init
<1>7. \A n \in 1 .. Len(s) :
        next_free[s[n]] = IF n = Len(s) THEN kInvalid ELSE s[n + 1]
  BY <1>1, <1>2, CapacityAssumption DEF Init, Handle
<1>8. policy = "Fifo" => free_tail = IF s = <<>> THEN kInvalid ELSE s[Len(s)]
  BY <1>1, <1>2, <1>3, CapacityAssumption DEF Init
<1>9. IsList(s)
  BY <1>2, <1>4, <1>5, <1>6, <1>7, <1>8 DEF IsList
<1> QED
  BY <1>9 DEF s

(* What IsList says of the positions, in the form the proofs below use it. *)
LEMMA ListFacts ==
    ASSUME NEW s, IsList(s)
    PROVE  /\ s \in Seq(Handle) /\ Len(s) \in Nat
           /\ s = <<>> <=> Len(s) = 0
           /\ \A n \in 1 .. Len(s) : s[n] \in Handle /\ s[n] \notin held
           /\ kInvalid \notin Handle
           /\ s = <<>> <=> free_head = kInvalid
<1>1. s \in Seq(Handle)
  BY DEF IsList
<1>2. Len(s) \in Nat /\ (s = <<>> <=> Len(s) = 0)
  BY <1>1, LenProperties, EmptySeq
<1>3. \A n \in 1 .. Len(s) : s[n] \in Handle
  BY <1>1, ElementOfSeq
<1>4. \A n \in 1 .. Len(s) : s[n] \notin held
  BY <1>3 DEF IsList
<1>5. kInvalid \notin Handle
  BY DEF kInvalid, Handle
<1>6. s = <<>> <=> free_head = kInvalid
  BY <1>2, <1>3, <1>5 DEF IsList
<1> QED
  BY <1>1, <1>2, <1>3, <1>4, <1>5, <1>6

(* allocate takes the first slot off the list, if there is one.            *)
LEMMA AllocateList ==
    ASSUME NEW s, IsList(s), allocate
    PROVE  \/ s = <<>> /\ got' = kInvalid /\ held' = held /\ IsList(s)'
           \/ /\ s # <<>> /\ got' = s[1] /\ s[1] \in Handle \ held
              /\ held' = held \cup {s[1]}
              /\ IsList(Tail(s))'
<1>1. /\ s \in Seq(Handle) /\ Len(s) \in Nat
      /\ s = <<>> <=> Len(s) = 0
      /\ \A n \in 1 .. Len(s) : s[n] \in Handle /\ s[n] \notin held
      /\ kInvalid \notin Handle
      /\ s = <<>> <=> free_head = kInvalid
  BY ListFacts
<1>2. CASE free_head = kInvalid
  <2>1. /\ UNCHANGED <<policy, next_free, free_head, free_tail, in_use, held>>
        /\ got' = kInvalid
    BY <1>2 DEF allocate
  <2>2. IsList(s)'
    BY <2>1 DEF IsList
  <2> QED
    BY <1>1, <1>2, <2>1, <2>2
<1>3. CASE free_head # kInvalid
  <2> DEFINE t == Tail(s)
  <2>1. /\ got' = free_head /\ free_head' = next_free[free_head]
        /\ free_tail' = TailAfter(free_head')
        /\ held' = held \cup {free_head}
        /\ UNCHANGED <<policy, next_free>>
    BY <1>3 DEF allocate
  <2>2. /\ s # <<>> /\ free_head = s[1] /\ 1 \in 1 .. Len(s)
        /\ free_head' = IF 1 = Len(s) THEN kInvalid ELSE s[1 + 1]
    <3>1. s # <<>> /\ 1 \in 1 .. Len(s)
      BY <1>1, <1>3
    <3>2. free_head = s[1]
      BY <3>1 DEF IsList
    <3>3. next_free[s[1]] = IF 1 = Len(s) THEN kInvalid ELSE s[1 + 1]
      BY <3>1 DEF IsList
    <3> QED
      BY <2>1, <3>1, <3>2, <3>3
  <2>3. /\ t \in Seq(Handle) /\ Len(t) = Len(s) - 1
        /\ \A n \in 1 .. Len(t) : t[n] = s[n + 1]
    BY <1>1, <2>2, HeadTailProperties
  <2>4. t = <<>> <=> Len(t) = 0
    BY <2>3, EmptySeq
  <2> HIDE DEF t
  <2>5. \A m, n \in 1 .. Len(t) : t[m] = t[n] => m = n
    <3> SUFFICES ASSUME NEW m \in 1 .. Len(t), NEW n \in 1 .. Len(t), t[m] = t[n]
                 PROVE  m = n
      OBVIOUS
    <3>1. m + 1 \in 1 .. Len(s) /\ n + 1 \in 1 .. Len(s) /\ s[m + 1] = s[n + 1]
      BY <1>1, <2>3
    <3>2. m + 1 = n + 1
      BY <3>1 DEF IsList
    <3> QED
      BY <1>1, <2>3, <3>2
  <2>6. \A h \in Handle : h \notin held' <=> \E n \in 1 .. Len(t) : t[n] = h
    <3> TAKE h \in Handle
    <3>1. ASSUME h \notin held'
          PROVE  \E n \in 1 .. Len(t) : t[n] = h
      <4>1. PICK n \in 1 .. Len(s) : s[n] = h
        BY <2>1, <3>1 DEF IsList
      <4>2. n # 1
        BY <2>1, <2>2, <3>1, <4>1
      <4>3. n - 1 \in 1 .. Len(t) /\ t[n - 1] = s[n]
        BY <1>1, <2>3, <4>2
      <4> QED
        BY <4>1, <4>3
    <3>2. ASSUME NEW n \in 1 .. Len(t), t[n] = h
          PROVE  h \notin held'
      <4>1. n + 1 \in 1 .. Len(s) /\ s[n + 1] = h /\ n + 1 # 1
        BY <1>1, <2>3, <3>2
      <4>2. s[n + 1] # s[1]
        BY <2>2, <4>1 DEF IsList
      <4> QED
        BY <1>1, <2>1, <2>2, <4>1, <4>2
    <3> QED
      BY <3>1, <3>2
  <2>7. free_head' = IF t = <<>> THEN kInvalid ELSE t[1]
    BY <1>1, <2>2, <2>3, <2>4
  <2>8. \A n \in 1 .. Len(t) :
          next_free'[t[n]] = IF n = Len(t) THEN kInvalid ELSE t[n + 1]
    <3> TAKE n \in 1 .. Len(t)
    <3>1. n + 1 \in 1 .. Len(s) /\ t[n] = s[n + 1] /\ (n = Len(t) <=> n + 1 = Len(s))
      BY <1>1, <2>3
    <3>2. next_free[s[n + 1]] = IF n + 1 = Len(s) THEN kInvalid ELSE s[n + 1 + 1]
      BY <3>1 DEF IsList
    <3>3. n # Len(t) => t[n + 1] = s[n + 1 + 1]
      BY <1>1, <2>3
    <3> QED
      BY <2>1, <3>1, <3>2, <3>3
  <2>9. policy' = "Fifo" => free_tail' = IF t = <<>> THEN kInvalid ELSE t[Len(t)]
    <3> SUFFICES ASSUME policy = "Fifo"
                 PROVE  free_tail' = IF t = <<>> THEN kInvalid ELSE t[Len(t)]
      BY <2>1
    <3>1. free_tail = s[Len(s)]
      BY <2>2 DEF IsList
    <3>2. CASE t = <<>>
      BY <2>1, <2>4, <2>7, <3>2 DEF TailAfter
    <3>3. CASE t # <<>>
      <4>1. Len(t) \in 1 .. Len(t) /\ 1 \in 1 .. Len(t) /\ t[Len(t)] = s[Len(s)]
        BY <1>1, <2>3, <2>4, <3>3
      <4>2. t[1] = s[2] /\ s[2] \in Handle
        BY <1>1, <2>3, <4>1
      <4>3. free_head' # kInvalid
        BY <1>1, <2>7, <3>3, <4>2
      <4> QED
        BY <2>1, <3>1, <3>3, <4>1, <4>3 DEF TailAfter
    <3> QED
      BY <3>2, <3>3
  <2>10. IsList(t)'
    BY <2>3, <2>5, <2>6, <2>7, <2>8, <2>9 DEF IsList
  <2> QED
    BY <1>1, <2>1, <2>2, <2>10 DEF t
<1> QED
  BY <1>2, <1>3

(* The user writes only into slots that are not in the list.               *)
LEMMA WriteList ==
    ASSUME NEW s, IsList(s), NEW h \in Handle, write(h), TypeOK
    PROVE  IsList(s)'
<1>1. /\ \A n \in 1 .. Len(s) : s[n] \in Handle /\ s[n] # h
      /\ next_free' = [next_free EXCEPT ![h] = Object]
      /\ UNCHANGED <<policy, free_head, free_tail, held>>
  BY ListFacts DEF write
<1>2. \A n \in 1 .. Len(s) : next_free'[s[n]] = next_free[s[n]]
  BY <1>1 DEF TypeOK
<1> QED
  BY <1>1, <1>2 DEF IsList

(* deallocate puts the slot in front (Lifo) or at the end (Fifo).          *)
LEMMA PushFrontList ==
    ASSUME NEW s, IsList(s), TypeOK, NEW h \in held, PushFront(h),
           policy = "Lifo", policy' = policy, held' = held \ {h}
    PROVE  IsList(<<h>> \o s)'
<1> DEFINE t == <<h>> \o s
<1>1. /\ s \in Seq(Handle) /\ Len(s) \in Nat
      /\ s = <<>> <=> Len(s) = 0
      /\ \A n \in 1 .. Len(s) : s[n] \in Handle /\ s[n] \notin held
  BY ListFacts
<1>2. /\ next_free' = [next_free EXCEPT ![h] = free_head] /\ free_head' = h
      /\ h \in Handle /\ DOMAIN next_free = Handle
  BY DEF PushFront, TypeOK
<1>3. /\ t \in Seq(Handle) /\ Len(t) = Len(s) + 1
      /\ t[1] = h /\ \A n \in 2 .. Len(t) : t[n] = s[n - 1]
  <2>1. <<h>> \in Seq(Handle) /\ Len(<<h>>) = 1 /\ <<h>>[1] = h
    BY <1>2
  <2>2. /\ t \in Seq(Handle) /\ Len(t) = Len(<<h>>) + Len(s)
        /\ \A n \in 1 .. Len(<<h>>) + Len(s) :
             t[n] = IF n <= Len(<<h>>) THEN <<h>>[n] ELSE s[n - Len(<<h>>)]
    BY <1>1, <2>1, ConcatProperties
  <2> HIDE DEF t
  <2> QED
    BY <1>1, <2>1, <2>2
<1>4. t # <<>>
  BY <1>1, <1>3, EmptySeq
<1> HIDE DEF t
<1>5. \A m, n \in 1 .. Len(t) : t[m] = t[n] => m = n
  <2> SUFFICES ASSUME NEW m \in 1 .. Len(t), NEW n \in 1 .. Len(t), t[m] = t[n]
               PROVE  m = n
    OBVIOUS
  <2>1. \A q \in 2 .. Len(t) : q - 1 \in 1 .. Len(s) /\ t[q] = s[q - 1] /\ t[q] # h
    BY <1>1, <1>3
  <2>2. CASE m = 1 \/ n = 1
    BY <1>1, <1>3, <2>1, <2>2
  <2>3. CASE m # 1 /\ n # 1
    <3>1. m \in 2 .. Len(t) /\ n \in 2 .. Len(t)
      BY <1>1, <1>3, <2>3
    <3>2. m - 1 = n - 1
      BY <2>1, <3>1 DEF IsList
    <3> QED
      BY <3>1, <3>2
  <2> QED
    BY <2>2, <2>3
<1>6. \A g \in Handle : g \notin held' <=> \E n \in 1 .. Len(t) : t[n] = g
  <2> TAKE g \in Handle
  <2>1. ASSUME g \notin held'
        PROVE  \E n \in 1 .. Len(t) : t[n] = g
    <3>1. CASE g = h
      BY <1>1, <1>3, <3>1
    <3>2. CASE g # h
      <4>1. PICK n \in 1 .. Len(s) : s[n] = g
        BY <2>1, <3>2 DEF IsList
      <4>2. n + 1 \in 2 .. Len(t) /\ n + 1 \in 1 .. Len(t) /\ t[n + 1] = s[n + 1 - 1]
        BY <1>1, <1>3
      <4> QED
        BY <4>1, <4>2
    <3> QED
      BY <3>1, <3>2
  <2>2. ASSUME NEW n \in 1 .. Len(t), t[n] = g
        PROVE  g \notin held'
    <3>1. CASE n = 1
      BY <1>3, <2>2, <3>1
    <3>2. CASE n # 1
      <4>1. n \in 2 .. Len(t) /\ n - 1 \in 1 .. Len(s)
        BY <1>1, <1>3, <3>2
      <4> QED
        BY <1>1, <1>3, <2>2, <4>1
    <3> QED
      BY <3>1, <3>2
  <2> QED
    BY <2>1, <2>2
<1>7. \A n \in 1 .. Len(t) :
        next_free'[t[n]] = IF n = Len(t) THEN kInvalid ELSE t[n + 1]
  <2> TAKE n \in 1 .. Len(t)
  <2>1. CASE n = 1
    <3>1. next_free'[t[n]] = free_head
      BY <1>2, <1>3, <2>1
    <3>2. CASE s = <<>>
      BY <1>1, <1>3, <2>1, <3>1, <3>2 DEF IsList
    <3>3. CASE s # <<>>
      <4>1. free_head = s[1]
        BY <3>3 DEF IsList
      <4>2. n # Len(t) /\ t[n + 1] = s[1]
        BY <1>1, <1>3, <2>1, <3>3
      <4> QED
        BY <3>1, <4>1, <4>2
    <3> QED
      BY <3>2, <3>3
  <2>2. CASE n # 1
    <3>1. /\ n - 1 \in 1 .. Len(s) /\ t[n] = s[n - 1]
          /\ n = Len(t) <=> n - 1 = Len(s)
      BY <1>1, <1>3, <2>2
    <3>2. n # Len(t) => t[n + 1] = s[n - 1 + 1]
      <4>1. n # Len(t) => n + 1 \in 2 .. Len(t)
        BY <1>1, <1>3, <2>2
      <4>2. n + 1 - 1 = n - 1 + 1
        BY <1>1, <1>3
      <4> QED
        BY <1>3, <4>1, <4>2
    <3>3. next_free'[t[n]] = next_free[s[n - 1]]
      BY <1>1, <1>2, <3>1
    <3>4. next_free[s[n - 1]] = IF n - 1 = Len(s) THEN kInvalid ELSE s[n - 1 + 1]
      BY <3>1 DEF IsList
    <3> QED
      BY <3>1, <3>2, <3>3, <3>4
  <2> QED
    BY <2>1, <2>2
<1>8. IsList(t)'
  BY <1>2, <1>3, <1>4, <1>5, <1>6, <1>7 DEF IsList
<1> QED
  BY <1>8 DEF t

(* A slot pushed at the back extends the list by one.                      *)
LEMMA PushBackList ==
    ASSUME NEW s, IsList(s), TypeOK, NEW h \in held, PushBack(h),
           policy = "Fifo", policy' = policy, held' = held \ {h}
    PROVE  IsList(Append(s, h))'
<1> DEFINE t == Append(s, h)
<1>1. /\ s \in Seq(Handle) /\ Len(s) \in Nat
      /\ s = <<>> <=> Len(s) = 0
      /\ \A n \in 1 .. Len(s) : s[n] \in Handle /\ s[n] \notin held
      /\ kInvalid \notin Handle
  BY ListFacts
<1>2. h \in Handle /\ DOMAIN next_free = Handle
  BY DEF TypeOK
<1>3. /\ t \in Seq(Handle) /\ t # <<>> /\ Len(t) = Len(s) + 1
      /\ \A n \in 1 .. Len(s) : t[n] = s[n]
      /\ t[Len(s) + 1] = h
  BY <1>1, <1>2, AppendProperties
<1> HIDE DEF t
<1>4. \A m, n \in 1 .. Len(t) : t[m] = t[n] => m = n
  <2> SUFFICES ASSUME NEW m \in 1 .. Len(t), NEW n \in 1 .. Len(t), t[m] = t[n]
               PROVE  m = n
    OBVIOUS
  <2>1. \A q \in 1 .. Len(t) : q # Len(t) => q \in 1 .. Len(s) /\ t[q] = s[q] /\ t[q] # h
    BY <1>1, <1>3
  <2>2. CASE m = Len(t) \/ n = Len(t)
    BY <1>3, <2>1, <2>2
  <2>3. CASE m # Len(t) /\ n # Len(t)
    BY <2>1, <2>3 DEF IsList
  <2> QED
    BY <2>2, <2>3
<1>5. \A g \in Handle : g \notin held' <=> \E n \in 1 .. Len(t) : t[n] = g
  <2> TAKE g \in Handle
  <2>1. ASSUME g \notin held'
        PROVE  \E n \in 1 .. Len(t) : t[n] = g
    <3>1. CASE g = h
      BY <1>1, <1>3, <3>1
    <3>2. CASE g # h
      <4>1. PICK n \in 1 .. Len(s) : s[n] = g
        BY <2>1, <3>2 DEF IsList
      <4> QED
        BY <1>1, <1>3, <4>1
    <3> QED
      BY <3>1, <3>2
  <2>2. ASSUME NEW n \in 1 .. Len(t), t[n] = g
        PROVE  g \notin held'
    <3>1. CASE n = Len(t)
      BY <1>3, <2>2, <3>1
    <3>2. CASE n # Len(t)
      BY <1>1, <1>3, <2>2, <3>2
    <3> QED
      BY <3>1, <3>2
  <2> QED
    BY <2>1, <2>2
<1>6. /\ free_head' = IF s = <<>> THEN h ELSE free_head
      /\ next_free' = IF s = <<>> THEN [next_free EXCEPT ![h] = kInvalid]
                      ELSE [next_free EXCEPT ![h] = kInvalid, ![s[Len(s)]] = h]
      /\ free_tail' = h
  <2>1. free_tail = IF s = <<>> THEN kInvalid ELSE s[Len(s)]
    BY DEF IsList
  <2>2. s # <<>> => s[Len(s)] # kInvalid
    BY <1>1
  <2> QED
    BY <2>1, <2>2 DEF PushBack
<1>7. free_head' = t[1]
  <2>1. CASE s = <<>>
    BY <1>1, <1>3, <1>6, <2>1
  <2>2. CASE s # <<>>
    <3>1. free_head = s[1] /\ 1 \in 1 .. Len(s)
      BY <1>1, <2>2 DEF IsList
    <3> QED
      BY <1>3, <1>6, <2>2, <3>1
  <2> QED
    BY <2>1, <2>2
<1>8. \A n \in 1 .. Len(t) :
        next_free'[t[n]] = IF n = Len(t) THEN kInvalid ELSE t[n + 1]
  <2> TAKE n \in 1 .. Len(t)
  <2>1. CASE n = Len(t)
    <3>1. s # <<>> => s[Len(s)] # h
      BY <1>1
    <3>2. t[n] = h
      BY <1>3, <2>1
    <3> QED
      BY <1>2, <1>6, <2>1, <3>1, <3>2
  <2>2. CASE n # Len(t)
    <3>1. n \in 1 .. Len(s) /\ t[n] = s[n] /\ s[n] # h /\ s[n] \in Handle /\ s # <<>>
      BY <1>1, <1>3, <2>2
    <3>2. CASE n = Len(s)
      BY <1>2, <1>3, <1>6, <2>2, <3>1, <3>2
    <3>3. CASE n # Len(s)
      <4>1. Len(s) \in 1 .. Len(s) /\ s[n] # s[Len(s)]
        BY <1>1, <3>1, <3>3 DEF IsList
      <4>2. next_free'[s[n]] = next_free[s[n]]
        BY <1>2, <1>6, <3>1, <4>1
      <4>3. next_free[s[n]] = s[n + 1] /\ t[n + 1] = s[n + 1]
        BY <1>1, <1>3, <3>1, <3>3 DEF IsList
      <4> QED
        BY <2>2, <3>1, <4>2, <4>3
    <3> QED
      BY <3>2, <3>3
  <2> QED
    BY <2>1, <2>2
<1>9. IsList(t)'
  BY <1>1, <1>3, <1>4, <1>5, <1>6, <1>7, <1>8 DEF IsList
<1> QED
  BY <1>9 DEF t

(* Either policy adds the returned slot to the free list.                  *)
LEMMA DeallocateList ==
    ASSUME NEW s, IsList(s), TypeOK, NEW h \in Handle, deallocate(h)
    PROVE  IF policy = "Fifo" THEN IsList(Append(s, h))' ELSE IsList(<<h>> \o s)'
<1>1. h \in held /\ Enlist(h) /\ policy' = policy /\ held' = held \ {h}
  BY DEF deallocate
<1>2. CASE policy = "Fifo"
  <2>1. PushBack(h)
    BY <1>1, <1>2 DEF Enlist
  <2>2. IsList(Append(s, h))'
    BY <1>1, <1>2, <2>1, PushBackList
  <2> QED
    BY <1>2, <2>2
<1>3. CASE policy # "Fifo"
  <2>1. PushFront(h) /\ policy = "Lifo"
    BY <1>1, <1>3 DEF Enlist, TypeOK
  <2>2. IsList(<<h>> \o s)'
    BY <1>1, <2>1, PushFrontList
  <2> QED
    BY <1>3, <2>2
<1> QED
  BY <1>2, <1>3

-----------------------------------------------------------------------------
(* The invariant. *)

(* The free list that the constructor builds holds every slot.             *)
LEMMA InitInv == Init => ListInv
<1> SUFFICES ASSUME Init PROVE ListInv
  OBVIOUS
<1>1. TypeOK
  <2>1. next_free \in [Handle -> Handle \cup {kInvalid, Object}]
    BY CapacityAssumption DEF Init, Handle
  <2>2. free_head \in Handle \cup {kInvalid} /\ free_tail \in Handle \cup {kInvalid}
    BY CapacityAssumption DEF Init, Handle
  <2>3. in_use \in 0 .. Capacity
    BY CapacityAssumption DEF Init
  <2> QED
    BY <2>1, <2>2, <2>3 DEF Init, TypeOK
<1>2. in_use = Cardinality(held)
  BY FS_EmptySet DEF Init
<1>3. IsList([n \in 1 .. Capacity |-> n - 1])
  BY InitList
<1> QED
  BY <1>1, <1>2, <1>3 DEF ListInv

(* The number of slots held never leaves 0 .. Capacity.                    *)
LEMMA HeldCount ==
    ASSUME held \in SUBSET Handle
    PROVE  IsFiniteSet(held) /\ Cardinality(held) \in 0 .. Capacity
<1>1. IsFiniteSet(held) /\ Cardinality(held) <= Capacity
  BY HandlesFinite, FS_Subset
<1> QED
  BY <1>1, FS_CardinalityType, CapacityAssumption

(* Every operation leaves a free list of exactly the free slots.           *)
LEMMA NextInv == ListInv /\ [Next]_vars => ListInv'
<1> SUFFICES ASSUME ListInv, [Next]_vars PROVE ListInv'
  OBVIOUS
<1>1. PICK s : IsList(s)
  BY DEF ListInv
<1>2. TypeOK /\ in_use = Cardinality(held)
  BY DEF ListInv
<1>3. IsFiniteSet(held) /\ in_use \in 0 .. Capacity
  BY <1>2, HeldCount DEF TypeOK
<1>4. CASE allocate
  <2>1. CASE /\ s = <<>> /\ got' = kInvalid /\ held' = held /\ IsList(s)'
    <3>1. free_head = kInvalid
      BY <1>1, <2>1, ListFacts
    <3>2. UNCHANGED <<policy, next_free, free_head, free_tail, in_use, held>>
      BY <1>4, <3>1 DEF allocate
    <3>3. TypeOK'
      BY <1>2, <2>1, <3>2 DEF TypeOK
    <3> QED
      BY <1>2, <2>1, <3>2, <3>3 DEF ListInv
  <2>2. CASE /\ s # <<>> /\ got' = s[1] /\ s[1] \in Handle \ held
             /\ held' = held \cup {s[1]}
             /\ IsList(Tail(s))'
    <3>1. free_head # kInvalid
      BY <1>1, <2>2, ListFacts
    <3>2. /\ got' = free_head /\ free_head' = next_free[free_head]
          /\ free_tail' = TailAfter(free_head') /\ in_use' = in_use + 1
          /\ UNCHANGED <<policy, next_free>>
      BY <1>4, <3>1 DEF allocate
    <3>3. in_use' = Cardinality(held')
      BY <1>2, <1>3, <2>2, <3>2, FS_AddElement
    <3>4. held' \in SUBSET Handle
      BY <1>2, <2>2 DEF TypeOK
    <3>5. in_use' \in 0 .. Capacity
      <4>1. Cardinality(held') \in 0 .. Capacity
        BY <3>4, HandlesFinite, FS_Subset, FS_CardinalityType, CapacityAssumption
      <4> QED
        BY <3>3, <4>1
    <3>6. free_head' \in Handle \cup {kInvalid}
      <4> DEFINE t == Tail(s)
      <4>1. /\ t \in Seq(Handle)
            /\ free_head' = IF t = <<>> THEN kInvalid ELSE t[1]
        BY <2>2 DEF IsList
      <4> HIDE DEF t
      <4>2. t # <<>> => t[1] \in Handle
        BY <4>1, EmptySeq, ElementOfSeq
      <4> QED
        BY <4>1, <4>2
    <3>7. TypeOK'
      BY <1>2, <2>2, <3>2, <3>4, <3>5, <3>6 DEF TypeOK, TailAfter
    <3> QED
      BY <2>2, <3>3, <3>7 DEF ListInv
  <2> QED
    BY <1>1, <1>4, <2>1, <2>2, AllocateList
<1>5. ASSUME NEW h \in Handle, write(h)
      PROVE  ListInv'
  <2>1. IsList(s)'
    BY <1>1, <1>2, <1>5, WriteList
  <2>2. TypeOK'
    BY <1>2, <1>5 DEF TypeOK, write
  <2> QED
    BY <1>2, <1>5, <2>1, <2>2 DEF ListInv, write
<1>6. ASSUME NEW h \in Handle, deallocate(h)
      PROVE  ListInv'
  <2>1. \E t : IsList(t)'
    BY <1>1, <1>2, <1>6, DeallocateList
  <2>2. h \in held /\ in_use' = in_use - 1 /\ held' = held \ {h}
    BY <1>6 DEF deallocate
  <2>3. in_use' = Cardinality(held')
    BY <1>2, <1>3, <2>2, FS_RemoveElement
  <2>4. in_use' \in 0 .. Capacity
    <3>1. held' \in SUBSET Handle
      BY <1>2, <2>2 DEF TypeOK
    <3>2. Cardinality(held') \in 0 .. Capacity
      BY <3>1, HandlesFinite, FS_Subset, FS_CardinalityType, CapacityAssumption
    <3> QED
      BY <2>3, <3>2
  <2>5. TypeOK'
    <3>1. CASE policy = "Fifo"
      BY <1>2, <1>6, <2>2, <2>4, <3>1 DEF TypeOK, deallocate, Enlist, PushBack
    <3>2. CASE policy # "Fifo"
      BY <1>2, <1>6, <2>2, <2>4, <3>2 DEF TypeOK, deallocate, Enlist, PushFront
    <3> QED
      BY <3>1, <3>2
  <2> QED
    BY <2>1, <2>3, <2>5 DEF ListInv
<1>7. CASE UNCHANGED vars
  <2>1. IsList(s)'
    BY <1>1, <1>7 DEF vars, IsList
  <2>2. TypeOK'
    BY <1>2, <1>7 DEF vars, TypeOK
  <2> QED
    BY <1>2, <1>7, <2>1, <2>2 DEF vars, ListInv
<1> QED
  BY <1>4, <1>5, <1>6, <1>7 DEF Next

(* At all times the free slots form one list, whatever was written into    *)
(* the slots in use.                                                       *)
THEOREM PoolSafety == Spec => []ListInv
BY InitInv, NextInv, PTL DEF Spec

-----------------------------------------------------------------------------
(* What follows for the user of the pool. *)

(* No slot is lost or free and held at once, the list ends in kInvalid and *)
(* not in an object, its tail is its last slot, in_use counts the slots    *)
(* held: allocate and deallocate keep Pool's structure (PoolInv).          *)
THEOREM PoolSound == Spec => []PoolInv
<1>1. ListInv => PoolInv
  <2> SUFFICES ASSUME ListInv PROVE PoolInv
    OBVIOUS
  <2>1. PICK s : IsList(s)
    BY DEF ListInv
  <2>2. FreeList = s
    BY <2>1, FreeListIs
  <2>3. FreeSet = {s[n] : n \in 1 .. Len(s)}
    BY <2>2 DEF FreeSet
  <2> HIDE DEF FreeList
  <2>4. Len(s) = Cardinality(FreeSet)
    BY <2>1, <2>3, ListLength
  <2>5. /\ s \in Seq(Handle) /\ Len(s) \in Nat
        /\ s = <<>> <=> Len(s) = 0
        /\ \A n \in 1 .. Len(s) : s[n] \in Handle /\ s[n] \notin held
    BY <2>1, ListFacts
  <2>6. FreeSet \cap held = {}
    BY <2>3, <2>5
  <2>7. FreeSet \cup held = Handle
    <3>1. FreeSet \subseteq Handle
      BY <2>3, <2>5
    <3>2. \A h \in Handle : h \notin held => h \in FreeSet
      BY <2>1, <2>3 DEF IsList
    <3> QED
      BY <3>1, <3>2 DEF ListInv, TypeOK
  <2>8. s # <<>> => next_free[s[Len(s)]] = kInvalid
    BY <2>1, <2>5 DEF IsList
  <2>9. policy = "Fifo" => free_tail = IF s = <<>> THEN kInvalid ELSE s[Len(s)]
    BY <2>1 DEF IsList
  <2>10. ListSound
    BY <2>2, <2>4, <2>6, <2>7, <2>8, <2>9 DEF ListSound, ListInv
  <2> QED
    BY <2>10 DEF PoolInv, ListInv
<1> QED
  BY <1>1, PoolSafety, PTL

(* Lifo hands out the slot freed last, Fifo the one freed first, and no    *)
(* operation reorders the rest of the list.                                *)
THEOREM Reuse == Spec => ReuseOrder
<1> DEFINE Reordered ==
      LET old == FreeList
          new == FreeList'
      IN  \/ new = old
          \/ old # <<>> /\ got' = old[1] /\ new = Tail(old)
          \/ \E h \in held : IF policy = "Fifo" THEN new = Append(old, h)
                                                ELSE new = <<h>> \o old
<1>1. (\A s : IsList(s) => FreeList = s)'
  BY FreeListIs, PTL
<1>2. ListInv /\ [Next]_vars => [Reordered]_vars
  <2> SUFFICES ASSUME ListInv, [Next]_vars PROVE [Reordered]_vars
    OBVIOUS
  <2>1. PICK s : IsList(s)
    BY DEF ListInv
  <2>2. FreeList = s
    BY <2>1, FreeListIs
  <2>3. TypeOK
    BY DEF ListInv
  <2>4. \A t : IsList(t)' => FreeList' = t
    BY <1>1
  <2> HIDE DEF FreeList
  <2>5. CASE allocate
    <3>1. FreeList' = s \/ (s # <<>> /\ got' = s[1] /\ FreeList' = Tail(s))
      BY <2>1, <2>4, <2>5, AllocateList
    <3> QED
      BY <2>2, <3>1
  <2>6. ASSUME NEW h \in Handle, write(h)
        PROVE  Reordered
    <3>1. FreeList' = s
      BY <2>1, <2>3, <2>4, <2>6, WriteList
    <3> QED
      BY <2>2, <3>1
  <2>7. ASSUME NEW h \in Handle, deallocate(h)
        PROVE  Reordered
    <3>1. h \in held
      BY <2>7 DEF deallocate
    <3>2. IF policy = "Fifo" THEN FreeList' = Append(s, h) ELSE FreeList' = <<h>> \o s
      BY <2>1, <2>3, <2>4, <2>7, DeallocateList
    <3> QED
      BY <2>2, <3>1, <3>2
  <2> QED
    BY <2>5, <2>6, <2>7 DEF Next
<1> QED
  BY <1>2, PoolSafety, PTL DEF Spec, ReuseOrder

(* To its user the pool is the set of free slots SlotPool describes: it    *)
(* hands out a free slot whenever there is one.                            *)
THEOREM Implements == Spec => ImplementsSlotPool
<1>1. Init => Slots!Init
  BY DEF Init, Slots!Init
<1>2. ListInv /\ [Next]_vars => [Slots!Next]_<<Handle \ held, got>>
  <2> SUFFICES ASSUME ListInv, [Next]_vars
               PROVE  Slots!Next \/ UNCHANGED <<Handle \ held, got>>
    OBVIOUS
  <2>1. PICK s : IsList(s)
    BY DEF ListInv
  <2>2. TypeOK
    BY DEF ListInv
  <2>3. CASE allocate
    <3>1. CASE s = <<>> /\ got' = kInvalid /\ held' = held
      <4>1. Handle \ held = {}
        BY <2>1, <3>1, EmptySeq DEF IsList
      <4>2. Slots!Allocate
        BY <3>1, <4>1 DEF Slots!Allocate
      <4> QED
        BY <4>2 DEF Slots!Next
    <3>2. CASE /\ got' = s[1] /\ s[1] \in Handle \ held
               /\ held' = held \cup {s[1]}
      <4>1. Handle \ held' = (Handle \ held) \ {s[1]}
        BY <3>2
      <4>2. Slots!Allocate
        BY <3>2, <4>1 DEF Slots!Allocate
      <4> QED
        BY <4>2 DEF Slots!Next
    <3> QED
      BY <2>1, <2>3, <3>1, <3>2, AllocateList
  <2>4. ASSUME NEW h \in Handle, write(h)
        PROVE  UNCHANGED <<Handle \ held, got>>
    BY <2>4 DEF write
  <2>5. ASSUME NEW h \in Handle, deallocate(h)
        PROVE  Slots!Next
    <3>1. h \in held /\ held' = held \ {h} /\ got' = got
      BY <2>5 DEF deallocate
    <3>2. h \in Handle \ (Handle \ held) /\ Handle \ held' = (Handle \ held) \cup {h}
      BY <2>2, <3>1 DEF TypeOK
    <3>3. Slots!Deallocate
      BY <3>1, <3>2 DEF Slots!Deallocate
    <3> QED
      BY <3>3 DEF Slots!Next
  <2>6. CASE UNCHANGED vars
    BY <2>6 DEF vars
  <2> QED
    BY <2>3, <2>4, <2>5, <2>6 DEF Next
<1> QED
  BY <1>1, <1>2, PoolSafety, PTL DEF Spec, ImplementsSlotPool, Slots!Spec

=============================================================================
