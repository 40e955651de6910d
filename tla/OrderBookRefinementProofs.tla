--------------------- MODULE OrderBookRefinementProofs ---------------------
(***************************************************************************)
(* With a slot for every identifier, OrderBook implements RefOrderBook for *)
(* any number of ticks and identifiers, any quantity width and any owners. *)
(***************************************************************************)
EXTENDS OrderBookRefinement, OrderBookProofs

-----------------------------------------------------------------------------
(* The vocabulary of the reference is that of the book.                    *)

LEMMA SameVocabulary ==
    /\ Ref!Ticks = Ticks /\ Ref!Side = Side /\ Ref!OrderType = OrderType
    /\ Ref!NoPrice = NoPrice /\ Ref!NoCall = NoCall /\ Ref!NoTrade = NoTrade
    /\ Ref!EmptyResult = EmptyResult
    /\ \A type : Ref!CallPrices(type) = CallPrices(type)
    /\ \A op, id, side, type, price, qty, owner :
         Ref!SubmitCall(op, id, side, type, price, qty, owner)
           = SubmitCall(op, id, side, type, price, qty, owner)
    /\ \A op, id : Ref!CancelCall(op, id) = CancelCall(op, id)
    /\ \A a, b : /\ Ref!SelfTrade(a, b) = SelfTrade(a, b)
                 /\ Ref!Lesser(a, b) = Lesser(a, b)
    /\ \A side : Ref!Opposite(side) = Opposite(side)
<1>1. /\ Ref!Ticks = Ticks /\ Ref!Side = Side /\ Ref!OrderType = OrderType
      /\ Ref!NoPrice = NoPrice
  BY DEF Ref!Ticks, Ticks, Ref!Side, Side, Ref!OrderType, OrderType, Ref!NoPrice, NoPrice
<1>2. Ref!NoCall = NoCall /\ Ref!NoTrade = NoTrade
  BY <1>1 DEF Ref!NoCall, NoCall, Ref!NoTrade, NoTrade
<1>3. Ref!EmptyResult = EmptyResult
  BY Zenon DEF Ref!EmptyResult, EmptyResult
<1>4. \A type : Ref!CallPrices(type) = CallPrices(type)
  BY <1>1 DEF Ref!CallPrices, CallPrices
<1>5. \A op, id, side, type, price, qty, owner :
         Ref!SubmitCall(op, id, side, type, price, qty, owner)
           = SubmitCall(op, id, side, type, price, qty, owner)
  BY DEF Ref!SubmitCall, SubmitCall
<1>6. \A op, id : Ref!CancelCall(op, id) = CancelCall(op, id)
  BY <1>2 DEF Ref!CancelCall, CancelCall
<1>7. \A a, b : /\ Ref!SelfTrade(a, b) = SelfTrade(a, b)
                /\ Ref!Lesser(a, b) = Lesser(a, b)
  BY DEF Ref!SelfTrade, SelfTrade, Ref!Lesser, Lesser
<1>8. \A side : Ref!Opposite(side) = Opposite(side)
  BY DEF Ref!Opposite, Opposite
<1> QED
  BY <1>1, <1>2, <1>3, <1>4, <1>5, <1>6, <1>7, <1>8

(* The state of the reference, as functions of the book.                   *)
RefBook(side) == [p \in Ticks |-> RefFifo(side, p)]

RefIndex == [i \in Ids |-> RefInfo(id_index[i])]

(* What they are in the instance.                                          *)
LEMMA RefBooks == \A side \in Side : Ref!Book(side) = RefBook(side)
BY DEF Ref!Book, RefBook, Side

(* One side of the book changes.                                           *)
LEMMA RefSetBook ==
    ASSUME NEW side \in Side, NEW b,
           RefBook(side)' = b, RefBook(Opposite(side))' = RefBook(Opposite(side))
    PROVE  Ref!SetBook(side, b)
<1>1. CASE side = "Buy"
  BY <1>1 DEF Ref!SetBook, RefBook, Opposite
<1>2. CASE side = "Sell"
  BY <1>2 DEF Ref!SetBook, RefBook, Opposite
<1> QED
  BY <1>1, <1>2 DEF Side

-----------------------------------------------------------------------------
(* The FIFOs of the reference. *)

RefOrders == [id : Ids \cup {NullId}, side : Side, price : Ticks,
              remaining : Quantity, owner : Owners \cup {0}]

(* The orders of the slots in s, if they belong to this side.              *)
View(side, s) ==
    IF s # <<>> /\ pool[s[1]].side = side
      THEN [i \in 1 .. Len(s) |-> RefOrderAt(s[i])]
      ELSE <<>>

(* RefFifo shows the FIFO of the links.                                    *)
LEMMA RefFifoIs ==
    LevelInv => \A p \in Ticks, side \in Side : \A s :
                  IsFifo(p, s) => RefFifo(side, p) = View(side, s)
<1> SUFFICES ASSUME LevelInv, NEW p \in Ticks, NEW s, NEW side \in Side, IsFifo(p, s)
             PROVE  RefFifo(side, p) = View(side, s)
  OBVIOUS
<1>1. Fifo(p) = s
  BY FifoIs
<1>2. /\ Len(s) \in Nat /\ (s = <<>> <=> Len(s) = 0)
      /\ \A i \in 1 .. Len(s) : s[i] \in Live /\ s[i] # Null
  BY FifoPositions
<1>3. levels[p].head = IF s = <<>> THEN Null ELSE s[1]
  BY DEF IsFifo
<1>4. CASE s = <<>>
  BY <1>3, <1>4 DEF RefFifo, View
<1>5. CASE s # <<>>
  <2>1. levels[p].head = s[1] /\ s[1] # Null
    BY <1>2, <1>3, <1>5
  <2> QED
    BY <1>1, <1>5, <2>1 DEF RefFifo, View
<1> QED
  BY <1>4, <1>5

(* It has an order for each slot, on the side of those orders.             *)
LEMMA ViewOwnSide ==
    LevelInv => \A p \in Ticks : \A s, side : IsFifo(p, s) =>
      \A i \in 1 .. Len(s) : pool[s[i]].side = side =>
        /\ View(side, s) \in Seq(RefOrders)
        /\ Len(View(side, s)) = Len(s)
        /\ \A j \in 1 .. Len(s) : View(side, s)[j] = RefOrderAt(s[j])
        /\ \A j \in 1 .. Len(s) : pool[s[j]].side = side
<1> SUFFICES ASSUME LevelInv, NEW p \in Ticks, NEW s, NEW side, IsFifo(p, s),
                    NEW i \in 1 .. Len(s), pool[s[i]].side = side
             PROVE  /\ View(side, s) \in Seq(RefOrders)
                    /\ Len(View(side, s)) = Len(s)
                    /\ \A j \in 1 .. Len(s) : View(side, s)[j] = RefOrderAt(s[j])
                    /\ \A j \in 1 .. Len(s) : pool[s[j]].side = side
  OBVIOUS
<1>1. /\ Len(s) \in Nat /\ (s = <<>> <=> Len(s) = 0)
      /\ \A j \in 1 .. Len(s) : s[j] \in Live /\ pool[s[j]].price = p
  BY FifoPositions
<1>2. Structure
  BY InvParts DEF LevelInv
<1>3. \A j \in 1 .. Len(s) : pool[s[j]].side = side
  BY <1>1, <1>2, OneSidePerLevel
<1>4. View(side, s) = [j \in 1 .. Len(s) |-> RefOrderAt(s[j])]
  BY <1>1, <1>3 DEF View
<1>5. \A j \in 1 .. Len(s) : RefOrderAt(s[j]) \in RefOrders
  <2> TAKE j \in 1 .. Len(s)
  <2>1. pool[s[j]] \in Order
    BY <1>1, <1>2 DEF Structure, BookTypes, Live
  <2> QED
    BY <2>1 DEF RefOrderAt, RefOrders, Order
<1>6. [j \in 1 .. Len(s) |-> RefOrderAt(s[j])] \in Seq(RefOrders)
  BY <1>1, <1>5, IsASeq
<1>7. DOMAIN View(side, s) = 1 .. Len(s) /\ View(side, s) \in Seq(RefOrders)
  BY <1>4, <1>6
<1>8. Len(View(side, s)) = Len(s)
  BY <1>1, <1>7, LenProperties
<1> QED
  BY <1>3, <1>4, <1>7, <1>8

(* On the other side the price is no key.                                  *)
LEMMA ViewOtherSide ==
    \A p, s, side :
      IsFifo(p, s) /\ (\A i \in 1 .. Len(s) : pool[s[i]].side # side) =>
        View(side, s) = <<>>
<1> SUFFICES ASSUME NEW p, NEW s, NEW side, IsFifo(p, s),
                    \A i \in 1 .. Len(s) : pool[s[i]].side # side
             PROVE  View(side, s) = <<>>
  OBVIOUS
<1>1. Len(s) \in Nat /\ (s = <<>> <=> Len(s) = 0)
  BY FifoPositions
<1> QED
  BY <1>1 DEF View

(* What a consumer of the reference sees of the orders in s stays.         *)
LEMMA ViewSame ==
    ASSUME NEW side, NEW s, Len(s) \in Nat, s = <<>> <=> Len(s) = 0,
           \A i \in 1 .. Len(s) : RefOrderAt(s[i])' = RefOrderAt(s[i])
    PROVE  View(side, s)' = View(side, s)
<1>1. \A i \in 1 .. Len(s) : pool'[s[i]].side = pool[s[i]].side
  <2> TAKE i \in 1 .. Len(s)
  <2>1. RefOrderAt(s[i]).side = pool[s[i]].side /\ RefOrderAt(s[i])'.side = pool'[s[i]].side
    BY DEF RefOrderAt
  <2> QED
    BY <2>1
<1>2. s # <<>> => 1 \in 1 .. Len(s)
  OBVIOUS
<1> QED
  BY <1>1, <1>2 DEF View

(* The same after a step.                                                  *)
LEMMA ViewsNext ==
    LevelInv' =>
      /\ \A p \in Ticks, side \in Side : \A s : IsFifo(p, s)' => RefFifo(side, p)' = View(side, s)'
      /\ \A p \in Ticks : \A s, side : IsFifo(p, s)' =>
           \A i \in 1 .. Len(s) : pool'[s[i]].side = side =>
             /\ View(side, s)' \in Seq(RefOrders)
             /\ Len(View(side, s)') = Len(s)
             /\ \A j \in 1 .. Len(s) : View(side, s)'[j] = RefOrderAt(s[j])'
             /\ \A j \in 1 .. Len(s) : pool'[s[j]].side = side
      /\ \A p, s, side :
           IsFifo(p, s)' /\ (\A i \in 1 .. Len(s) : pool'[s[i]].side # side) =>
             View(side, s)' = <<>>
<1>1. (LevelInv => \A p \in Ticks, side \in Side : \A s :
                     IsFifo(p, s) => RefFifo(side, p) = View(side, s))'
  BY RefFifoIs, PTL
<1>2. (LevelInv => \A p \in Ticks : \A s, side : IsFifo(p, s) =>
         \A i \in 1 .. Len(s) : pool[s[i]].side = side =>
           /\ View(side, s) \in Seq(RefOrders)
           /\ Len(View(side, s)) = Len(s)
           /\ \A j \in 1 .. Len(s) : View(side, s)[j] = RefOrderAt(s[j])
           /\ \A j \in 1 .. Len(s) : pool[s[j]].side = side)'
  BY ViewOwnSide, PTL
<1>3. (\A p, s, side :
         IsFifo(p, s) /\ (\A i \in 1 .. Len(s) : pool[s[i]].side # side) =>
           View(side, s) = <<>>)'
  BY ViewOtherSide, PTL
<1>4. Ticks' = Ticks /\ Side' = Side /\ RefOrders' = RefOrders
  BY DEF Ticks, Side, RefOrders, Quantity
<1> QED
  BY <1>1, <1>2, <1>3, <1>4

(* Two sides.                                                              *)
LEMMA TwoSides ==
    \A side \in Side : /\ Opposite(side) \in Side /\ Opposite(side) # side
                       /\ \A t \in Side : t = side \/ t = Opposite(side)
BY DEF Opposite, Side

(* A FIFO that keeps its slots, and these their orders, is still shown.    *)
LEMMA FifoShown ==
    ASSUME LevelInv, LevelInv', NEW p \in Ticks, NEW s, IsFifo(p, s), IsFifo(p, s)',
           \A i \in 1 .. Len(s) : RefOrderAt(s[i])' = RefOrderAt(s[i])
    PROVE  \A side \in Side : RefFifo(side, p)' = RefFifo(side, p)
<1> TAKE side \in Side
<1>1. Len(s) \in Nat /\ (s = <<>> <=> Len(s) = 0)
  BY FifoPositions
<1>2. View(side, s)' = View(side, s)
  BY <1>1, ViewSame
<1>3. RefFifo(side, p) = View(side, s)
  BY RefFifoIs
<1>4. RefFifo(side, p)' = View(side, s)'
  BY ViewsNext
<1> QED
  BY <1>2, <1>3, <1>4

-----------------------------------------------------------------------------
(* The steps of the book, as the reference makes them. *)

(* What the reference knows of the other orders stays.                     *)
LEMMA RemovesKeeps ==
    ASSUME Structure, NEW h \in Live, Removes(h), NEW g \in Live \ {h}
    PROVE  g \in Live' /\ RefOrderAt(g)' = RefOrderAt(g)
<1>1. PICK pl, lv : SameShape(pl, lv) /\ unlink_and_free(h, pl, lv)
  BY DEF Removes
<1>2. /\ Live' = Live \ {h}
      /\ pool'[g].id = pool[g].id /\ pool'[g].price = pool[g].price
      /\ pool'[g].side = pool[g].side /\ pool'[g].owner = pool[g].owner
  BY <1>1, UnlinkLinks
<1>3. pool'[g].remaining = pool[g].remaining
  BY DEF Removes
<1> QED
  BY <1>2, <1>3 DEF RefOrderAt

(* The book b without the i-th order of price p.                           *)
Removed(b, p, i) == [b EXCEPT ![p] = Without(@, i)]

(* An order leaves the FIFO of its price.                                  *)
LEMMA RemovesRef ==
    ASSUME LevelInv, LevelInv', NEW h \in Live, Removes(h),
           NEW side, side = pool[h].side, NEW p, p = pool[h].price,
           NEW s, IsFifo(p, s), NEW i \in 1 .. Len(s), s[i] = h
    PROVE  /\ RefBook(side)' = Removed(RefBook(side), p, i)
           /\ RefBook(Opposite(side))' = RefBook(Opposite(side))
<1> DEFINE u == Without(s, i)
<1>1. /\ Structure /\ p \in Ticks /\ side \in Side
  BY InvParts DEF LevelInv, Structure, BookTypes, Order, Live
<1>2. PICK pl, lv : SameShape(pl, lv) /\ unlink_and_free(h, pl, lv)
  BY DEF Removes
<1>3. ASSUME NEW q \in Ticks, q # p, NEW t \in Side
      PROVE  RefFifo(t, q)' = RefFifo(t, q)
  <2>1. PICK r : IsFifo(q, r)
    BY DEF LevelInv, HasFifos
  <2>2. IsFifo(q, r)'
    BY <1>1, <1>2, <1>3, <2>1, UnlinkOtherFifo
  <2>3. \A j \in 1 .. Len(r) : r[j] \in Live /\ pool[r[j]].price = q
    BY <2>1, FifoPositions
  <2>4. \A j \in 1 .. Len(r) : RefOrderAt(r[j])' = RefOrderAt(r[j])
    BY <1>1, <1>3, <2>3, RemovesKeeps
  <2> QED
    BY <2>1, <2>2, <2>4, FifoShown
<1>4. IsFifo(p, u)'
  BY <1>1, <1>2, UnlinkFifo
<1>5. /\ Len(s) \in Nat /\ s \in Seq(Live)
      /\ \A j \in 1 .. Len(s) : s[j] \in Live
  BY FifoPositions
<1>6. /\ u \in Seq(Live) /\ Len(u) = Len(s) - 1
      /\ \A j \in 1 .. Len(s) - 1 : u[j] = IF j < i THEN s[j] ELSE s[j + 1]
  BY <1>5, WithoutProperties
<1> HIDE DEF u
<1>7. \A j, k \in 1 .. Len(s) : s[j] = s[k] => j = k
  BY DEF IsFifo
<1>8. \A j \in 1 .. Len(u) : u[j] \in Live \ {h}
  BY <1>5, <1>6, <1>7
<1>9. \A j \in 1 .. Len(u) : RefOrderAt(u[j])' = RefOrderAt(u[j])
  BY <1>1, <1>8, RemovesKeeps
<1>10. \A j \in 1 .. Len(s) : pool[s[j]].side = side
  BY <1>1, ViewOwnSide
<1>11. \A j \in 1 .. Len(u) : pool[u[j]].side = side
  BY <1>5, <1>6, <1>10
<1>12. \A j \in 1 .. Len(u) : pool'[u[j]].side = side
  BY <1>9, <1>11 DEF RefOrderAt
<1>13. /\ RefFifo(side, p) = View(side, s) /\ RefFifo(side, p)' = View(side, u)'
       /\ RefFifo(Opposite(side), p) = View(Opposite(side), s)
       /\ RefFifo(Opposite(side), p)' = View(Opposite(side), u)'
  <2>1. \A t \in Side : RefFifo(t, p) = View(t, s)
    BY <1>1, RefFifoIs
  <2>2. \A t \in Side : RefFifo(t, p)' = View(t, u)'
    BY <1>1, <1>4, ViewsNext
  <2>3. side \in Side /\ Opposite(side) \in Side
    BY <1>1, TwoSides
  <2>4. RefFifo(side, p)' = View(side, u)'
    BY <2>2, <2>3
  <2>5. RefFifo(Opposite(side), p)' = View(Opposite(side), u)'
    BY <2>2, <2>3
  <2> QED
    BY <2>1, <2>3, <2>4, <2>5
<1>14. RefFifo(Opposite(side), p)' = RefFifo(Opposite(side), p)
  <2>1. View(Opposite(side), s) = <<>>
    BY <1>1, <1>10, TwoSides, ViewOtherSide
  <2>2. View(Opposite(side), u)' = <<>>
    BY <1>1, <1>4, <1>12, TwoSides, ViewsNext
  <2> QED
    BY <1>13, <2>1, <2>2
<1>15. RefFifo(side, p)' = Without(RefFifo(side, p), i)
  <2> DEFINE v == View(side, s)
  <2>1. /\ v \in Seq(RefOrders) /\ Len(v) = Len(s)
        /\ \A j \in 1 .. Len(s) : v[j] = RefOrderAt(s[j])
    BY <1>1, ViewOwnSide
  <2> HIDE DEF v
  <2>2. /\ Without(v, i) \in Seq(RefOrders) /\ Len(Without(v, i)) = Len(v) - 1
        /\ \A j \in 1 .. Len(v) - 1 : Without(v, i)[j] = IF j < i THEN v[j] ELSE v[j + 1]
    BY <2>1, WithoutProperties
  <2>3. CASE Len(u) = 0
    <3>1. View(side, u)' = <<>>
      BY <1>1, <1>4, <2>3, ViewsNext
    <3>2. Without(v, i) = <<>>
      BY <1>6, <2>1, <2>2, <2>3, EmptySeq
    <3> QED
      BY <1>13, <3>1, <3>2 DEF v
  <2>4. CASE Len(u) # 0
    <3>1. 1 \in 1 .. Len(u)
      BY <1>5, <1>6, <2>4
    <3>2. /\ View(side, u)' \in Seq(RefOrders) /\ Len(View(side, u)') = Len(u)
          /\ \A j \in 1 .. Len(u) : View(side, u)'[j] = RefOrderAt(u[j])'
      BY <1>1, <1>4, <1>12, <3>1, ViewsNext
    <3>3. \A j \in 1 .. Len(u) : RefOrderAt(u[j]) = Without(v, i)[j]
      <4> TAKE j \in 1 .. Len(u)
      <4>1. /\ j \in 1 .. Len(s) - 1 /\ j \in 1 .. Len(v) - 1
            /\ j \in 1 .. Len(s) /\ j + 1 \in 1 .. Len(s)
        BY <1>5, <1>6, <2>1
      <4>2. u[j] = IF j < i THEN s[j] ELSE s[j + 1]
        BY <1>6, <4>1
      <4>3. Without(v, i)[j] = IF j < i THEN v[j] ELSE v[j + 1]
        BY <2>2, <4>1
      <4>4. v[j] = RefOrderAt(s[j]) /\ v[j + 1] = RefOrderAt(s[j + 1])
        BY <2>1, <4>1
      <4> QED
        BY <4>2, <4>3, <4>4
    <3>4. PICK w : w = View(side, u)'
      OBVIOUS
    <3>5. w \in Seq(RefOrders) /\ Len(w) = Len(Without(v, i))
          /\ \A j \in 1 .. Len(w) : w[j] = Without(v, i)[j]
      BY <1>6, <1>9, <2>1, <2>2, <3>2, <3>3, <3>4
    <3>6. w = Without(v, i)
      BY <2>2, <3>5, SeqEqual
    <3> QED
      BY <1>13, <3>4, <3>6 DEF v
  <2> QED
    BY <2>3, <2>4
<1>16. \A q \in Ticks : RefFifo(side, q)' = IF q = p THEN Without(RefFifo(side, p), i)
                                                     ELSE RefFifo(side, q)
  BY <1>1, <1>3, <1>15
<1>17. \A q \in Ticks : RefFifo(Opposite(side), q)' = RefFifo(Opposite(side), q)
  BY <1>1, <1>3, <1>14, TwoSides
<1> QED
  BY <1>1, <1>16, <1>17 DEF RefBook, Removed

(* The book b once the i-th order of price p is reduced to q.              *)
Reduced(b, p, i, q) == [b EXCEPT ![p][i].remaining = q]

(* An order is reduced in its place.                                       *)
LEMMA ReducesRef ==
    ASSUME LevelInv, LevelInv', NEW h \in Live, NEW q, Reduces(h, q),
           NEW side, side = pool[h].side, NEW p, p = pool[h].price,
           NEW s, IsFifo(p, s), NEW i \in 1 .. Len(s), s[i] = h
    PROVE  /\ RefBook(side)' = Reduced(RefBook(side), p, i, q)
           /\ RefBook(Opposite(side))' = RefBook(Opposite(side))
<1>1. /\ p \in Ticks /\ side \in Side /\ Live \subseteq Handles /\ Live' = Live
  BY InvParts DEF LevelInv, Structure, BookTypes, Order, Live, Reduces
<1>2. ASSUME NEW g \in Live \ {h}
      PROVE  RefOrderAt(g)' = RefOrderAt(g)
  BY <1>1, <1>2 DEF Reduces, SameShape, RefOrderAt
<1>3. RefOrderAt(h)' = [RefOrderAt(h) EXCEPT !.remaining = q] /\ pool'[h].side = side
  BY <1>1 DEF Reduces, SameShape, RefOrderAt
<1>4. \A r \in Ticks : \A e : IsFifo(r, e) => IsFifo(r, e)'
  BY EditFifo DEF Reduces
<1>5. ASSUME NEW r \in Ticks, r # p, NEW t \in Side
      PROVE  RefFifo(t, r)' = RefFifo(t, r)
  <2>1. PICK e : IsFifo(r, e)
    BY DEF LevelInv, HasFifos
  <2>2. IsFifo(r, e)'
    BY <1>4, <2>1
  <2>3. \A j \in 1 .. Len(e) : e[j] \in Live /\ pool[e[j]].price = r
    BY <2>1, FifoPositions
  <2>4. \A j \in 1 .. Len(e) : RefOrderAt(e[j])' = RefOrderAt(e[j])
    BY <1>2, <1>5, <2>3
  <2> QED
    BY <2>1, <2>2, <2>4, FifoShown
<1>6. IsFifo(p, s)' /\ Len(s) \in Nat /\ \A j \in 1 .. Len(s) : s[j] \in Live
  BY <1>1, <1>4, FifoPositions
<1>7. \A j \in 1 .. Len(s) : j # i => s[j] # h
  BY DEF IsFifo
<1>8. /\ View(side, s) \in Seq(RefOrders) /\ Len(View(side, s)) = Len(s)
      /\ \A j \in 1 .. Len(s) : View(side, s)[j] = RefOrderAt(s[j])
      /\ \A j \in 1 .. Len(s) : pool[s[j]].side = side
  BY <1>1, ViewOwnSide
<1>9. /\ View(side, s)' \in Seq(RefOrders) /\ Len(View(side, s)') = Len(s)
      /\ \A j \in 1 .. Len(s) : View(side, s)'[j] = RefOrderAt(s[j])'
      /\ \A j \in 1 .. Len(s) : pool'[s[j]].side = side
  BY <1>1, <1>3, <1>6, ViewsNext
<1>10. \A t \in Side : RefFifo(t, p) = View(t, s)
  BY <1>1, RefFifoIs
<1>11. \A t \in Side : RefFifo(t, p)' = View(t, s)'
  BY <1>1, <1>6, ViewsNext
<1>12. side \in Side /\ Opposite(side) \in Side /\ Opposite(side) # side
  BY <1>1, TwoSides
<1>13. RefFifo(Opposite(side), p)' = RefFifo(Opposite(side), p)
  <2>1. View(Opposite(side), s) = <<>>
    BY <1>8, <1>12, ViewOtherSide
  <2>2. View(Opposite(side), s)' = <<>>
    BY <1>6, <1>9, <1>12, ViewsNext
  <2>3. RefFifo(Opposite(side), p)' = View(Opposite(side), s)'
    BY <1>11, <1>12
  <2> QED
    BY <1>10, <1>12, <2>1, <2>2, <2>3
<1>14. RefFifo(side, p)' = [RefFifo(side, p) EXCEPT ![i].remaining = q]
  <2> DEFINE v == View(side, s)
  <2>1. PICK w : w = View(side, s)'
    OBVIOUS
  <2>2. w \in Seq(RefOrders) /\ Len(w) = Len(s)
        /\ \A j \in 1 .. Len(s) : w[j] = RefOrderAt(s[j])'
    BY <1>9, <2>1
  <2>3. v \in Seq(RefOrders) /\ Len(v) = Len(s)
        /\ \A j \in 1 .. Len(s) : v[j] = RefOrderAt(s[j])
    BY <1>8
  <2> HIDE DEF v
  <2>4. w[i] = [v[i] EXCEPT !.remaining = q] /\ w[i] \in RefOrders
    <3>1. w[i] = [v[i] EXCEPT !.remaining = q]
      BY <1>3, <2>2, <2>3
    <3> QED
      BY <2>2, <3>1, ElementOfSeq
  <2>5. \A j \in 1 .. Len(s) : j # i => w[j] = v[j]
    BY <1>2, <1>6, <1>7, <2>2, <2>3
  <2>6. w = [v EXCEPT ![i] = [v[i] EXCEPT !.remaining = q]]
    <3> DEFINE x == [v EXCEPT ![i] = w[i]]
    <3>1. /\ x \in Seq(RefOrders) /\ Len(x) = Len(v)
          /\ \A j \in 1 .. Len(v) : x[j] = IF j = i THEN w[i] ELSE v[j]
      BY <2>3, <2>4, ExceptSeq
    <3> HIDE DEF x
    <3>2. \A j \in 1 .. Len(w) : w[j] = x[j]
      BY <2>2, <2>3, <2>5, <3>1
    <3>3. w = x
      BY <2>2, <2>3, <3>1, <3>2, SeqEqual
    <3> QED
      BY <2>4, <3>3 DEF x
  <2>7. RefFifo(side, p) = v /\ RefFifo(side, p)' = w
    BY <1>10, <1>11, <1>12, <2>1 DEF v
  <2> QED
    BY <2>6, <2>7
<1>15. \A r \in Ticks :
         RefFifo(side, r)' = IF r = p THEN [RefFifo(side, p) EXCEPT ![i].remaining = q]
                                      ELSE RefFifo(side, r)
  BY <1>1, <1>5, <1>14
<1>16. \A r \in Ticks : RefFifo(Opposite(side), r)' = RefFifo(Opposite(side), r)
  BY <1>1, <1>5, <1>12, <1>13
<1> QED
  BY <1>1, <1>15, <1>16 DEF RefBook, Reduced

(* The order of the call rests behind those of its price.                  *)
LEMMA AddsRef ==
    ASSUME LevelInv, LevelInv', NEW h \in free, Adds(h),
           NEW side, side = call.side, NEW p, p = call.price
    PROVE  /\ RefBook(side)' =
                [RefBook(side) EXCEPT ![p] =
                   Append(@, [id |-> call.id, side |-> side, price |-> p,
                              remaining |-> call.remaining, owner |-> call.owner])]
           /\ RefBook(Opposite(side))' = RefBook(Opposite(side))
<1> DEFINE e == [id |-> call.id, side |-> side, price |-> p,
                 remaining |-> call.remaining, owner |-> call.owner]
<1>1. /\ Structure /\ ClientTypes /\ p \in Ticks /\ side \in Side
      /\ rest_in_slot(h, call.id, side, p, call.remaining, call.owner)
  BY InvParts DEF LevelInv, ClientTypes, Call, Adds
<1>2. /\ Live' = Live \cup {h} /\ h \notin Live
      /\ RefOrderAt(h)' = e /\ pool'[h].side = side
      /\ \A g \in Live : RefOrderAt(g)' = RefOrderAt(g)
  BY <1>1, AddsOrder DEF RefOrderAt
<1>3. e \in RefOrders
  BY <1>1, InvParts DEF LevelInv, ClientTypes, Call, RefOrders
<1> HIDE DEF e
<1>4. ASSUME NEW r \in Ticks, r # p, NEW t \in Side
      PROVE  RefFifo(t, r)' = RefFifo(t, r)
  <2>1. PICK s : IsFifo(r, s)
    BY DEF LevelInv, HasFifos
  <2>2. IsFifo(r, s)'
    BY <1>1, <1>4, <2>1, RestFifo
  <2>3. \A j \in 1 .. Len(s) : s[j] \in Live
    BY <2>1, FifoPositions
  <2>4. \A j \in 1 .. Len(s) : RefOrderAt(s[j])' = RefOrderAt(s[j])
    BY <1>2, <2>3
  <2> QED
    BY <2>1, <2>2, <2>4, FifoShown
<1>5. PICK s : IsFifo(p, s)
  BY <1>1 DEF LevelInv, HasFifos
<1>6. /\ Len(s) \in Nat /\ s \in Seq(Live) /\ (s = <<>> <=> Len(s) = 0)
      /\ \A j \in 1 .. Len(s) : s[j] \in Live
  BY <1>5, FifoPositions
<1> DEFINE u == Append(s, h)
<1>7. IsFifo(p, u)'
  BY <1>1, <1>5, RestFifo
<1>8. /\ Len(u) = Len(s) + 1 /\ u[Len(s) + 1] = h
      /\ \A j \in 1 .. Len(s) : u[j] = s[j]
  <2>1. s \in Seq(Live') /\ h \in Live'
    BY <1>2, <1>6, SeqInto
  <2> QED
    BY <2>1, AppendProperties
<1> HIDE DEF u
<1>9. Len(s) + 1 \in 1 .. Len(u)
  BY <1>6, <1>8
<1>10. /\ View(side, u)' \in Seq(RefOrders) /\ Len(View(side, u)') = Len(u)
       /\ \A j \in 1 .. Len(u) : View(side, u)'[j] = RefOrderAt(u[j])'
       /\ \A j \in 1 .. Len(u) : pool'[u[j]].side = side
  BY <1>1, <1>2, <1>7, <1>8, <1>9, ViewsNext
<1>11. \A j \in 1 .. Len(s) : pool[s[j]].side = side
  <2> TAKE j \in 1 .. Len(s)
  <2>1. j \in 1 .. Len(u) /\ u[j] = s[j]
    BY <1>6, <1>8
  <2>2. pool'[s[j]].side = side /\ RefOrderAt(s[j])' = RefOrderAt(s[j])
    BY <1>2, <1>6, <1>10, <2>1
  <2> QED
    BY <2>2 DEF RefOrderAt
<1>12. \A t \in Side : RefFifo(t, p) = View(t, s)
  BY <1>1, <1>5, RefFifoIs
<1>13. \A t \in Side : RefFifo(t, p)' = View(t, u)'
  BY <1>1, <1>7, ViewsNext
<1>14. side \in Side /\ Opposite(side) \in Side /\ Opposite(side) # side
  BY <1>1, TwoSides
<1>15. RefFifo(Opposite(side), p)' = RefFifo(Opposite(side), p)
  <2>1. View(Opposite(side), s) = <<>>
    BY <1>5, <1>11, <1>14, ViewOtherSide
  <2>2. View(Opposite(side), u)' = <<>>
    BY <1>7, <1>10, <1>14, ViewsNext
  <2>3. RefFifo(Opposite(side), p)' = View(Opposite(side), u)'
    BY <1>13, <1>14
  <2> QED
    BY <1>12, <1>14, <2>1, <2>2, <2>3
<1>16. RefFifo(side, p)' = Append(RefFifo(side, p), e)
  <2> DEFINE v == View(side, s)
  <2>1. PICK w : w = View(side, u)'
    OBVIOUS
  <2>2. w \in Seq(RefOrders) /\ Len(w) = Len(u)
        /\ \A j \in 1 .. Len(u) : w[j] = RefOrderAt(u[j])'
    BY <1>10, <2>1
  <2>3. v \in Seq(RefOrders) /\ Len(v) = Len(s)
        /\ \A j \in 1 .. Len(s) : v[j] = RefOrderAt(s[j])
    <3>1. CASE Len(s) = 0
      <4>1. v = <<>>
        BY <1>6, <3>1 DEF View
      <4> QED
        BY <3>1, <4>1, EmptySeq
    <3>2. CASE Len(s) # 0
      <4>1. 1 \in 1 .. Len(s)
        BY <1>6, <3>2
      <4> QED
        BY <1>1, <1>5, <1>11, <4>1, ViewOwnSide
    <3> QED
      BY <3>1, <3>2
  <2> HIDE DEF v
  <2> DEFINE x == Append(v, e)
  <2>4. /\ x \in Seq(RefOrders) /\ Len(x) = Len(v) + 1 /\ x[Len(v) + 1] = e
        /\ \A j \in 1 .. Len(v) : x[j] = v[j]
    BY <1>3, <2>3, AppendProperties
  <2> HIDE DEF x
  <2>5. ASSUME NEW j \in 1 .. Len(w)
        PROVE  w[j] = x[j]
    <3>1. CASE j = Len(s) + 1
      BY <1>2, <1>8, <1>9, <2>2, <2>3, <2>4, <3>1
    <3>2. CASE j # Len(s) + 1
      <4>1. j \in 1 .. Len(s) /\ j \in 1 .. Len(u)
        BY <1>6, <1>8, <2>2, <3>2
      <4>2. w[j] = RefOrderAt(s[j])
        BY <1>2, <1>6, <1>8, <2>2, <4>1
      <4> QED
        BY <2>3, <2>4, <4>1, <4>2
    <3> QED
      BY <3>1, <3>2
  <2>6. Len(w) = Len(x)
    BY <1>8, <2>2, <2>3, <2>4
  <2>7. w = x
    BY <2>2, <2>4, <2>5, <2>6, SeqEqual
  <2> QED
    BY <1>12, <1>13, <1>14, <2>1, <2>7 DEF v, x
<1>17. \A r \in Ticks : RefFifo(side, r)' = IF r = p THEN Append(RefFifo(side, p), e)
                                                     ELSE RefFifo(side, r)
  BY <1>1, <1>4, <1>16
<1>18. \A r \in Ticks : RefFifo(Opposite(side), r)' = RefFifo(Opposite(side), r)
  BY <1>1, <1>4, <1>14, <1>15
<1> QED
  BY <1>1, <1>17, <1>18 DEF RefBook, e

(* A book that does not change is the same to the reference.               *)
LEMMA SameRef ==
    ASSUME LevelInv, LevelInv', UNCHANGED book, NEW side \in Side
    PROVE  RefBook(side)' = RefBook(side)
<1>1. ASSUME NEW p \in Ticks
      PROVE  RefFifo(side, p)' = RefFifo(side, p)
  <2>1. PICK s : IsFifo(p, s)
    BY DEF LevelInv, HasFifos
  <2>2. IsFifo(p, s)'
    BY <2>1, SameFifo
  <2>3. \A i \in 1 .. Len(s) : RefOrderAt(s[i])' = RefOrderAt(s[i])
    BY DEF RefOrderAt, book
  <2> QED
    BY <2>1, <2>2, <2>3, FifoShown
<1> QED
  BY <1>1 DEF RefBook

-----------------------------------------------------------------------------
(* The index of the reference. *)

(* What the index says of a live order, and that it knows nothing else.    *)
LEMMA RefInfoIs ==
    /\ RefInfo(Null) = Ref!NoInfo
    /\ Structure => \A h \in Live :
         /\ RefInfo(h) = Ref!Info(pool[h].side, pool[h].price, pool[h].owner)
         /\ RefInfo(h) # Ref!NoInfo
<1>1. RefInfo(Null) = Ref!NoInfo
  BY DEF RefInfo, Ref!NoInfo, Ref!Info, NoPrice, Ref!NoPrice
<1>2. ASSUME Structure, NEW h \in Live
      PROVE  /\ RefInfo(h) = Ref!Info(pool[h].side, pool[h].price, pool[h].owner)
             /\ RefInfo(h) # Ref!NoInfo
  <2>1. h # Null /\ pool[h].price \in Ticks
    BY <1>2, NullAssumption DEF Structure, BookTypes, Order, Live
  <2>2. RefInfo(h) = Ref!Info(pool[h].side, pool[h].price, pool[h].owner)
    BY <2>1 DEF RefInfo, Ref!Info
  <2>3. RefInfo(h).price = pool[h].price /\ Ref!NoInfo.price = -1 /\ pool[h].price # -1
    BY <2>1, <2>2, TickRangeAssumption DEF Ref!Info, Ref!NoInfo, Ref!NoPrice, Ticks
  <2> QED
    BY <2>2, <2>3
<1> QED
  BY <1>1, <1>2

(* Both know the same ids.                                                 *)
LEMMA KnownIds ==
    ASSUME BookInv, NEW id \in Ids
    PROVE  /\ RefIndex[id] = Ref!NoInfo <=> id_index[id] = Null
           /\ id_index[id] # Null =>
                RefIndex[id] = Ref!Info(pool[id_index[id]].side, pool[id_index[id]].price,
                                        pool[id_index[id]].owner)
<1>1. id_index[id] # Null => id_index[id] \in Live
  BY IndexedOrder
<1>2. Structure
  BY InvParts
<1> QED
  BY <1>1, <1>2, RefInfoIs DEF RefIndex

(* An order that stays is known as before.                                 *)
LEMMA InfoKept ==
    ASSUME NEW h, h # Null, RefOrderAt(h)' = RefOrderAt(h)
    PROVE  RefInfo(h)' = RefInfo(h)
<1>1. /\ RefOrderAt(h)'.side = RefOrderAt(h).side /\ RefOrderAt(h)'.price = RefOrderAt(h).price
      /\ RefOrderAt(h)'.owner = RefOrderAt(h).owner
  OBVIOUS
<1>2. /\ pool'[h].side = pool[h].side /\ pool'[h].price = pool[h].price
      /\ pool'[h].owner = pool[h].owner
  BY <1>1 DEF RefOrderAt
<1> QED
  BY <1>2 DEF RefInfo

(* The index after an order left.                                          *)
LEMMA RemovesIndex ==
    ASSUME BookInv, NEW h \in Live, Removes(h), NEW id, id = pool[h].id,
           id_index' = erase(id)
    PROVE  RefIndex' = [RefIndex EXCEPT ![id] = Ref!NoInfo]
<1>1. /\ Structure /\ IndexExact /\ id_index \in [Ids -> Link]
      /\ id \in Ids /\ id_index[id] = h
  BY InvParts DEF IndexExact
<1>2. ASSUME NEW j \in Ids, j # id
      PROVE  RefInfo(id_index[j])' = RefInfo(id_index[j])
  <2>1. id_index'[j] = id_index[j]
    BY <1>1, <1>2 DEF erase
  <2>2. CASE id_index[j] = Null
    BY <2>1, <2>2 DEF RefInfo
  <2>3. CASE id_index[j] # Null
    <3>1. PICK g : g = id_index[j]
      OBVIOUS
    <3>2. g \in Live \ {h} /\ g # Null
      BY <1>1, <1>2, <2>3, <3>1 DEF IndexExact
    <3>3. RefInfo(g)' = RefInfo(g)
      BY <1>1, <3>2, RemovesKeeps, InfoKept
    <3> QED
      BY <2>1, <3>1, <3>3 DEF RefInfo
  <2> QED
    BY <2>2, <2>3
<1>3. RefInfo(id_index[id])' = Ref!NoInfo
  <2>1. id_index'[id] = Null
    BY <1>1 DEF erase
  <2> QED
    BY <2>1 DEF RefInfo, Ref!NoInfo, Ref!Info, NoPrice, Ref!NoPrice
<1> QED
  BY <1>1, <1>2, <1>3 DEF RefIndex

(* The index after an order was reduced.                                   *)
LEMMA ReducesIndex ==
    ASSUME BookInv, NEW h \in Live, NEW q, Reduces(h, q), id_index' = id_index
    PROVE  RefIndex' = RefIndex
<1>1. \A j \in Ids : id_index[j] # Null => id_index[j] \in Handles
  BY IndexedOrder
<1>2. ASSUME NEW j \in Ids
      PROVE  RefInfo(id_index[j])' = RefInfo(id_index[j])
  BY <1>1 DEF Reduces, SameShape, RefInfo
<1> QED
  BY <1>2 DEF RefIndex

(* The index after the order of the call came to rest.                     *)
LEMMA AddsIndex ==
    ASSUME BookInv, NEW h \in free, Adds(h), NEW id, id = call.id
    PROVE  RefIndex' = [RefIndex EXCEPT ![id] =
                          Ref!Info(call.side, call.price, call.owner)]
<1>1. /\ Structure /\ IndexExact /\ id_index \in [Ids -> Link] /\ id \in Ids
      /\ id_index' = [id_index EXCEPT ![id] = h] /\ h # Null
  BY InvParts, NullAssumption
     DEF Adds, rest_in_slot, ClientTypes, Structure, BookTypes
<1>2. /\ pool'[h].side = call.side /\ pool'[h].price = call.price
      /\ pool'[h].owner = call.owner
      /\ \A g \in Live : RefOrderAt(g)' = RefOrderAt(g)
  BY <1>1, AddsOrder DEF RefOrderAt
<1>3. ASSUME NEW j \in Ids, j # id
      PROVE  RefInfo(id_index[j])' = RefInfo(id_index[j])
  <2>1. id_index'[j] = id_index[j]
    BY <1>1, <1>3
  <2>2. CASE id_index[j] = Null
    BY <2>1, <2>2 DEF RefInfo
  <2>3. CASE id_index[j] # Null
    <3>1. PICK g : g = id_index[j]
      OBVIOUS
    <3>2. g \in Live /\ g # Null
      BY <1>1, <2>3, <3>1 DEF IndexExact
    <3>3. RefInfo(g)' = RefInfo(g)
      BY <1>2, <3>2, InfoKept
    <3> QED
      BY <2>1, <3>1, <3>3 DEF RefInfo
  <2> QED
    BY <2>2, <2>3
<1>4. RefInfo(id_index[id])' = Ref!Info(call.side, call.price, call.owner)
  <2>1. id_index'[id] = h
    BY <1>1
  <2> QED
    BY <1>1, <1>2, <2>1 DEF RefInfo, Ref!Info
<1>5. PICK e : e = Ref!Info(call.side, call.price, call.owner)
  OBVIOUS
<1>6. \A j \in Ids : RefInfo(id_index[j])' = IF j = id THEN e ELSE RefInfo(id_index[j])
  BY <1>3, <1>4, <1>5
<1>7. RefIndex' = [RefIndex EXCEPT ![id] = e]
  BY <1>1, <1>6 DEF RefIndex
<1> QED
  BY <1>5, <1>7

-----------------------------------------------------------------------------
(* The best prices, and the condition of the sweep. *)

(* A price is a key of the reference when an order of the side rests there. *)
LEMMA KeyIs ==
    ASSUME LevelInv, NEW side \in Side, NEW p \in Ticks
    PROVE  RefFifo(side, p) # <<>> <=> \E h \in OnSide(side) : pool[h].price = p
<1>1. PICK s : IsFifo(p, s)
  BY DEF LevelInv, HasFifos
<1>2. RefFifo(side, p) = View(side, s)
  BY <1>1, RefFifoIs
<1>3. /\ Len(s) \in Nat /\ (s = <<>> <=> Len(s) = 0)
      /\ \A i \in 1 .. Len(s) : s[i] \in Live /\ pool[s[i]].price = p
  BY <1>1, FifoPositions
<1>4. ASSUME View(side, s) # <<>>
      PROVE  \E h \in OnSide(side) : pool[h].price = p
  <2>1. 1 \in 1 .. Len(s) /\ pool[s[1]].side = side
    BY <1>3, <1>4 DEF View
  <2> QED
    BY <1>3, <2>1 DEF OnSide
<1>5. ASSUME NEW h \in OnSide(side), pool[h].price = p
      PROVE  View(side, s) # <<>>
  <2>1. PICK i \in 1 .. Len(s) : s[i] = h
    BY <1>1, <1>5 DEF OnSide, IsFifo
  <2>2. Len(View(side, s)) = Len(s) /\ View(side, s) \in Seq(RefOrders)
    BY <1>1, <2>1, ViewOwnSide DEF OnSide
  <2> QED
    BY <1>3, <2>1, <2>2, EmptySeq
<1> QED
  BY <1>2, <1>4, <1>5

(* The reference scans for the best price that the book caches.            *)
LEMMA RefBest ==
    ASSUME LevelInv, NEW side \in Side
    PROVE  Ref!best(side) = IF side = "Buy" THEN best_bid ELSE best_ask
<1> DEFINE K == {p \in Ticks : RefFifo(side, p) # <<>>}
           b == IF side = "Buy" THEN best_bid ELSE best_ask
<1>1. Ref!Keys(Ref!Book(side)) = K
  BY RefBooks, SameVocabulary DEF Ref!Keys, RefBook
<1>2. Structure /\ b \in Ticks \cup {NoPrice}
  BY InvParts DEF LevelInv, Structure, BookTypes
<1>3. \A p \in Ticks : p \in K <=> \E h \in OnSide(side) : pool[h].price = p
  BY KeyIs
<1>4. \A h \in OnSide(side) : pool[h].price \in K
  BY <1>2, <1>3 DEF OnSide, Structure, BookTypes, Order, Live
<1>5. Ref!best(side) = IF K = {} THEN NoPrice
                       ELSE CHOOSE p \in K : \A q \in K : IF side = "Buy" THEN q <= p ELSE p <= q
  BY <1>1, SameVocabulary DEF Ref!best
<1>6. CASE b = NoPrice
  <2>1. K = {}
    BY <1>2, <1>3, <1>4, <1>6, TickRangeAssumption
       DEF Structure, BestPrices, NoPrice, Ticks, Side
  <2> QED
    BY <1>5, <1>6, <2>1
<1>7. CASE b # NoPrice
  <2>1. b \in K /\ K \subseteq Int
    BY <1>2, <1>4, <1>7 DEF Structure, BestPrices, Side, Ticks
  <2>2. \A q \in K : IF side = "Buy" THEN q <= b ELSE b <= q
    BY <1>2, <1>3 DEF Structure, BestPrices, Side
  <2> HIDE DEF K, b
  <2>3. \A p \in K : (\A q \in K : IF side = "Buy" THEN q <= p ELSE p <= q) => p = b
    BY <2>1, <2>2
  <2>4. (CHOOSE p \in K : \A q \in K : IF side = "Buy" THEN q <= p ELSE p <= q) = b
    BY <2>1, <2>2, <2>3
  <2>5. Ref!best(side) = b
    BY <1>5, <2>1, <2>4
  <2> QED
    BY <2>5 DEF b
<1> QED
  BY <1>6, <1>7
(* A price of a level is reached when it crosses.                          *)
LEMMA ReachesIs ==
    ASSUME NEW c \in Call, NEW p \in Ticks
    PROVE  Ref!Reaches(c, p) <=> Crosses(c, p)
BY TickRangeAssumption DEF Ref!Reaches, Crosses, LimitPrice, Ticks, NoPrice, Call

(* The order of slot h is at position i of the FIFO s of its price and     *)
(* side, as both books know it.                                            *)
ShownAt(h, s, i) ==
    /\ IsFifo(pool[h].price, s) /\ i \in 1 .. Len(s) /\ s[i] = h
    /\ pool[h].price \in Ticks /\ pool[h].side \in Side
    /\ RefFifo(pool[h].side, pool[h].price) \in Seq(RefOrders)
    /\ Len(RefFifo(pool[h].side, pool[h].price)) = Len(s)
    /\ \A j \in 1 .. Len(s) :
         RefFifo(pool[h].side, pool[h].price)[j] = RefOrderAt(s[j])

(* Every live order is shown.                                              *)
LEMMA IsShown ==
    ASSUME LevelInv, NEW h \in Live
    PROVE  \E s, i : ShownAt(h, s, i)
<1> DEFINE p == pool[h].price
           side == pool[h].side
<1>1. p \in Ticks /\ side \in Side
  BY InvParts DEF LevelInv, Structure, BookTypes, Order, Live
<1>2. PICK s : IsFifo(p, s)
  BY <1>1 DEF LevelInv, HasFifos
<1>3. PICK i \in 1 .. Len(s) : s[i] = h
  BY <1>2 DEF IsFifo
<1>4. RefFifo(side, p) = View(side, s)
  BY <1>1, <1>2, RefFifoIs
<1>5. /\ View(side, s) \in Seq(RefOrders) /\ Len(View(side, s)) = Len(s)
      /\ \A j \in 1 .. Len(s) : View(side, s)[j] = RefOrderAt(s[j])
  BY <1>1, <1>2, <1>3, ViewOwnSide
<1> QED
  BY <1>1, <1>2, <1>3, <1>4, <1>5 DEF ShownAt

(* The sweep of the reference meets the same order.                        *)
LEMMA SweepMeets ==
    ASSUME LevelInv
    PROVE  /\ Ref!OppositeBest = OppositeBest
           /\ OppositeBest # NoPrice =>
                /\ OppositeBest \in Ticks /\ Meets \in Live
                /\ pool[Meets].price = OppositeBest
                /\ pool[Meets].side = Opposite(call.side)
                /\ Ref!Front = RefOrderAt(Meets)
                /\ \E s : ShownAt(Meets, s, 1)
<1>1. /\ Structure /\ ClientTypes /\ call.side \in Side /\ BookInv
  BY InvParts DEF LevelInv, ClientTypes, Call
<1>2. Ref!OppositeBest = OppositeBest
  <2>1. Ref!best(Opposite(call.side)) = IF Opposite(call.side) = "Buy" THEN best_bid ELSE best_ask
    BY <1>1, RefBest, TwoSides
  <2> QED
    BY <1>1, <2>1, SameVocabulary DEF Ref!OppositeBest, OppositeBest, Opposite, Side
<1>3. ASSUME OppositeBest # NoPrice
      PROVE  /\ OppositeBest \in Ticks /\ Meets \in Live
             /\ pool[Meets].price = OppositeBest
             /\ pool[Meets].side = Opposite(call.side)
             /\ Ref!Front = RefOrderAt(Meets)
             /\ \E s : ShownAt(Meets, s, 1)
  <2>1. OppositeBest \in Ticks
    BY <1>1, <1>3 DEF OppositeBest, Structure, BookTypes
  <2>2. PICK h \in OnSide(Opposite(call.side)) : pool[h].price = OppositeBest
    BY <1>1, <1>3 DEF Structure, BestPrices, OppositeBest, Opposite, Side
  <2>3. h \in Live /\ pool[h].side = Opposite(call.side)
    BY <2>2 DEF OnSide
  <2>4. HasHeads
    BY <1>1, HeadExists DEF Structure
  <2>5. Meets \in Live /\ pool[Meets].price = OppositeBest
    BY <1>1, <2>1, <2>2, <2>3, <2>4 DEF HasHeads, Structure, Linked, Meets
  <2>6. pool[Meets].side = Opposite(call.side)
    BY <1>1, <2>2, <2>3, <2>5, OneSidePerLevel
  <2>7. PICK s, i : ShownAt(Meets, s, i)
    BY <2>5, IsShown
  <2>8. IsFifo(OppositeBest, s) /\ i \in 1 .. Len(s) /\ s[i] = Meets
    BY <2>5, <2>7 DEF ShownAt
  <2>9. Len(s) \in Nat /\ (s = <<>> <=> Len(s) = 0)
    BY <2>8, FifoPositions
  <2>10. 1 \in 1 .. Len(s) /\ s # <<>>
    BY <2>8, <2>9
  <2>11. s[1] = Meets
    BY <2>8, <2>10 DEF IsFifo, Meets
  <2>12. i = 1
    BY <2>8, <2>10, <2>11 DEF IsFifo
  <2>13. RefFifo(Opposite(call.side), OppositeBest)[1] = RefOrderAt(Meets)
    BY <2>5, <2>6, <2>7, <2>10, <2>11 DEF ShownAt
  <2>14. Ref!Front = RefOrderAt(Meets)
    BY <1>1, <1>2, <2>1, <2>13, RefBooks, SameVocabulary, TwoSides DEF Ref!Front, RefBook
  <2> QED
    BY <2>1, <2>5, <2>6, <2>7, <2>12, <2>14
<1> QED
  BY <1>2, <1>3

(* It goes on as long, and what it leaves rests in the same cases.         *)
LEMMA SweepAgrees ==
    ASSUME LevelInv
    PROVE  (Ref!Matches <=> Matches) /\ (Ref!Rests <=> Rests)
<1>1. call \in Call
  BY InvParts DEF LevelInv, ClientTypes
<1>2. Ref!NoPrice = NoPrice /\ Ref!OppositeBest = OppositeBest
  BY SweepMeets, SameVocabulary
<1>3. CASE OppositeBest = NoPrice
  BY <1>2, <1>3 DEF Ref!Matches, Matches, Ref!Rests, Rests, Crosses
<1>4. CASE OppositeBest # NoPrice
  <2>1. Ref!Reaches(call, OppositeBest) <=> Crosses(call, OppositeBest)
    BY <1>1, <1>4, ReachesIs, SweepMeets
  <2>2. Ref!Front.owner = pool[Meets].owner
    BY <1>4, SweepMeets DEF RefOrderAt
  <2> QED
    BY <1>2, <1>4, <2>1, <2>2, SameVocabulary DEF Ref!Matches, Matches, Ref!Rests, Rests
<1> QED
  BY <1>3, <1>4
-----------------------------------------------------------------------------
(* Each action of the book is the action of the reference. *)

(* Dropping the head is dropping the first element.                        *)
LEMMA TailIs ==
    ASSUME NEW S, NEW s \in Seq(S), 1 \in 1 .. Len(s)
    PROVE  Tail(s) = Without(s, 1)
<1>1. Len(s) \in Nat /\ s # <<>>
  BY LenProperties, EmptySeq
<1>2. /\ Tail(s) \in Seq(S) /\ Len(Tail(s)) = Len(s) - 1
      /\ \A j \in 1 .. Len(Tail(s)) : Tail(s)[j] = s[j + 1]
  BY <1>1, HeadTailProperties
<1>3. /\ Without(s, 1) \in Seq(S) /\ Len(Without(s, 1)) = Len(s) - 1
      /\ \A j \in 1 .. Len(s) - 1 : Without(s, 1)[j] = IF j < 1 THEN s[j] ELSE s[j + 1]
  BY WithoutProperties
<1>4. \A j \in 1 .. Len(Tail(s)) : Tail(s)[j] = Without(s, 1)[j]
  BY <1>1, <1>2, <1>3
<1> QED
  BY <1>2, <1>3, <1>4, SeqEqual

(* What the book of the reference holds of a live order.                   *)
LEMMA ShownInBook ==
    ASSUME NEW h, NEW s, NEW i, ShownAt(h, s, i),
           NEW side, side = pool[h].side, NEW p, p = pool[h].price
    PROVE  /\ RefBook(side)[p] \in Seq(RefOrders) /\ i \in 1 .. Len(RefBook(side)[p])
           /\ RefBook(side)[p][i] = RefOrderAt(h)
           /\ RefBook(side)[p][i].remaining = pool[h].remaining
BY DEF ShownAt, RefBook, RefOrderAt

(* One trade.                                                              *)
LEMMA MatchRef ==
    ASSUME LevelInv, LevelInv', match
    PROVE  Ref!do_match
<1> DEFINE h == Meets
           o == pool[h]
           traded == Lesser(call.remaining, o.remaining)
<1>1. /\ pc = "sweep" /\ Matches /\ UNCHANGED <<pc, res>>
      /\ trade' = [resting_id |-> o.id, incoming_id |-> call.id,
                   price |-> o.price, quantity |-> traded]
      /\ o.remaining = traded => id_index' = erase(o.id)
      /\ o.remaining # traded => UNCHANGED id_index
  BY DEF match
<1>2. /\ traded \in 0 .. o.remaining
      /\ call' = [call EXCEPT !.remaining = @ - traded, !.filled = @ + traded]
      /\ \/ traded = o.remaining /\ Removes(h)
         \/ traded < o.remaining /\ Reduces(h, o.remaining - traded)
  BY MatchStep DEF LevelInv
<1>3. OppositeBest # NoPrice
  BY <1>1 DEF Matches, Crosses
<1>4. /\ h \in Live /\ o.price = OppositeBest /\ o.side = Opposite(call.side)
      /\ Ref!Front = RefOrderAt(h)
      /\ \E s : ShownAt(h, s, 1)
  BY <1>3, SweepMeets
<1>5. o \in Order /\ o.side \in Side /\ o.remaining \in Nat /\ BookInv
  BY <1>4, InvParts, QModAssumption DEF LevelInv, Structure, BookTypes, Order, Live, Quantity
<1>6. PICK side, p : side = o.side /\ p = o.price
  OBVIOUS
<1> DEFINE b == RefBook(side)
<1>13. Ref!Book(Ref!Opposite(call.side)) = b /\ side \in Side
  BY <1>4, <1>5, <1>6, RefBooks, SameVocabulary
<1>7. PICK s : ShownAt(h, s, 1)
  BY <1>4
<1>8. b[p] \in Seq(RefOrders) /\ 1 \in 1 .. Len(b[p]) /\ b[p][1] = RefOrderAt(h)
  BY <1>6, <1>7, ShownInBook
<1>9. IsFifo(p, s) /\ 1 \in 1 .. Len(s) /\ s[1] = h
  BY <1>6, <1>7 DEF ShownAt
<1>10. /\ RefOrderAt(h).id = o.id /\ RefOrderAt(h).price = p
       /\ RefOrderAt(h).side = side /\ RefOrderAt(h).remaining = o.remaining
  BY <1>6 DEF RefOrderAt
<1>14. traded = Ref!Lesser(call.remaining, RefOrderAt(h).remaining)
  BY <1>10, SameVocabulary
<1>15. Ref!Matches
  BY <1>1, SweepAgrees
<1> HIDE DEF h, traded
<1>16. ASSUME IF o.remaining = traded
                THEN /\ Ref!SetBook(side, [b EXCEPT ![p] = Tail(@)])
                     /\ RefIndex' = [RefIndex EXCEPT ![o.id] = Ref!NoInfo]
                ELSE /\ Ref!SetBook(side, [b EXCEPT ![p][1].remaining = @ - traded])
                     /\ RefIndex' = RefIndex
       PROVE  Ref!do_match
  <2> DEFINE f == Ref!Front
             x == Ref!Lesser(call.remaining, f.remaining)
             d == Ref!Book(Ref!Opposite(call.side))
  <2>1. /\ f.id = o.id /\ f.price = p /\ f.side = side /\ f.remaining = o.remaining
        /\ x = traded /\ d = b
    BY <1>4, <1>10, <1>13, <1>14
  <2> HIDE DEF f, x, d, b
  <2>2. /\ call' = [call EXCEPT !.remaining = @ - x, !.filled = @ + x]
        /\ trade' = [resting_id |-> f.id, incoming_id |-> call.id,
                     price |-> f.price, quantity |-> x]
    BY <1>1, <1>2, <1>6, <2>1
  <2>3. IF f.remaining = x
          THEN /\ Ref!SetBook(f.side, [d EXCEPT ![f.price] = Tail(@)])
               /\ RefIndex' = [RefIndex EXCEPT ![f.id] = Ref!NoInfo]
          ELSE /\ Ref!SetBook(f.side, [d EXCEPT ![f.price][1].remaining = @ - x])
               /\ RefIndex' = RefIndex
    BY <1>16, <2>1
  <2> QED
    BY <1>1, <1>15, <2>2, <2>3 DEF Ref!do_match, RefIndex, f, x, d
<1>11. CASE traded = o.remaining
  <2>1. Removes(h)
    BY <1>2, <1>5, <1>11
  <2>2. /\ RefBook(side)' = Removed(b, p, 1)
        /\ RefBook(Opposite(side))' = RefBook(Opposite(side))
    BY <1>4, <1>6, <1>9, <2>1, RemovesRef
  <2>3. Ref!SetBook(side, [b EXCEPT ![p] = Tail(@)])
    <3>1. Tail(b[p]) = Without(b[p], 1)
      BY <1>8, TailIs
    <3>2. RefBook(side)' = [b EXCEPT ![p] = Tail(@)]
      BY <2>2, <3>1 DEF Removed
    <3> QED
      BY <1>13, <2>2, <3>2, RefSetBook
  <2>4. RefIndex' = [RefIndex EXCEPT ![o.id] = Ref!NoInfo]
    BY <1>1, <1>4, <1>5, <1>11, <2>1, RemovesIndex
  <2> QED
    BY <1>11, <2>3, <2>4, <1>16
<1>12. CASE traded # o.remaining
  <2>9. PICK q : q = o.remaining - traded
    OBVIOUS
  <2>1. Reduces(h, q)
    BY <1>2, <1>12, <2>9
  <2>2. /\ RefBook(side)' = [b EXCEPT ![p][1].remaining = q]
        /\ RefBook(Opposite(side))' = RefBook(Opposite(side))
    <3>1. RefBook(side)' = Reduced(b, p, 1, q)
          /\ RefBook(Opposite(side))' = RefBook(Opposite(side))
      BY <1>4, <1>6, <1>9, <2>1, ReducesRef
    <3> QED
      BY <3>1 DEF Reduced
  <2>3. Ref!SetBook(side, [b EXCEPT ![p][1].remaining = @ - traded])
    <3>1. b[p][1].remaining = o.remaining
      BY <1>8, <1>10 DEF b
    <3>2. RefBook(side)' = [b EXCEPT ![p][1].remaining = @ - traded]
      BY <2>2, <2>9, <3>1
    <3> QED
      BY <1>13, <2>2, <3>2, RefSetBook
  <2>4. RefIndex' = RefIndex
    BY <1>1, <1>4, <1>5, <1>12, <2>1, ReducesIndex
  <2> QED
    BY <1>12, <2>3, <2>4, <1>16
<1> QED
  BY <1>11, <1>12

(* A book that does not change is the same to the reference, its index     *)
(* included.                                                               *)
LEMMA BookKept ==
    ASSUME LevelInv, LevelInv', UNCHANGED book
    PROVE  /\ RefBook("Buy")' = RefBook("Buy") /\ RefBook("Sell")' = RefBook("Sell")
           /\ RefIndex' = RefIndex
<1>1. RefBook("Buy")' = RefBook("Buy") /\ RefBook("Sell")' = RefBook("Sell")
  BY SameRef DEF Side
<1>2. RefIndex' = RefIndex
  BY DEF RefIndex, RefInfo, book
<1> QED
  BY <1>1, <1>2

(* The end of a sweep, when there is a slot for every identifier.          *)
LEMMA FinishRef ==
    ASSUME LevelInv, LevelInv', finish_submit,
           IsFiniteSet(Ids), Cardinality(Ids) <= Cardinality(Handles)
    PROVE  Ref!finish_submit
<1>1. pc = "sweep" /\ ~Matches /\ Answer(call, SubmitResult)
  BY DEF finish_submit
<1>2. BookInv /\ ClientTypes /\ call.side \in Side
  BY InvParts DEF LevelInv, ClientTypes, Call
<1>3. ~Ref!Matches /\ (Ref!Rests <=> Rests)
  BY <1>1, SweepAgrees
<1>4. Ref!Answer(call, [id |-> call.id, accepted |-> TRUE, filled |-> call.filled,
                        resting |-> IF Ref!Rests THEN call.remaining ELSE 0,
                        fully_filled |-> call.remaining = 0])
  BY <1>1, <1>3, SameVocabulary DEF Ref!Answer, Answer, SubmitResult
<1>5. CASE Rests
  <2>1. free # {}
    BY <1>1, <1>2, RoomForAll
  <2>2. PICK h \in free :
          rest_in_slot(h, call.id, call.side, call.price, call.remaining, call.owner)
    BY <1>5, <2>1 DEF finish_submit, rest_order
  <2>3. call.remaining \in Quantity \ {0} /\ call.price \in Ticks
    BY <1>2, <1>5, QModAssumption DEF Rests, ClientTypes, Call, Quantity
  <2>4. Adds(h)
    BY <1>1, <2>2, <2>3 DEF Adds
  <2>5. PICK side, p, id : side = call.side /\ p = call.price /\ id = call.id
    OBVIOUS
  <2>6. PICK e : e = [id |-> call.id, side |-> call.side, price |-> call.price,
                      remaining |-> call.remaining, owner |-> call.owner]
    OBVIOUS
  <2>7. /\ RefBook(side)' = [RefBook(side) EXCEPT ![p] = Append(@, e)]
        /\ RefBook(Opposite(side))' = RefBook(Opposite(side))
    BY <2>4, <2>5, <2>6, AddsRef
  <2>8. Ref!SetBook(side, [RefBook(side) EXCEPT ![p] = Append(@, e)])
    BY <1>2, <2>5, <2>7, RefSetBook
  <2>9. RefIndex' = [RefIndex EXCEPT ![id] = Ref!Info(call.side, call.price, call.owner)]
    BY <1>2, <2>4, <2>5, AddsIndex
  <2>10. Ref!Book(side) = RefBook(side)
    BY <1>2, <2>5, RefBooks
  <2>11. Ref!rest(call)
    BY <2>5, <2>6, <2>8, <2>9, <2>10 DEF Ref!rest, RefIndex
  <2> QED
    BY <1>1, <1>3, <1>4, <1>5, <2>11 DEF Ref!finish_submit
<1>6. CASE ~Rests
  <2>1. UNCHANGED book
    BY <1>6 DEF finish_submit
  <2>2. /\ RefBook("Buy")' = RefBook("Buy") /\ RefBook("Sell")' = RefBook("Sell")
        /\ RefIndex' = RefIndex
    BY <2>1, BookKept
  <2> QED
    BY <1>1, <1>3, <1>4, <1>6, <2>2 DEF Ref!finish_submit, RefBook, RefIndex
<1> QED
  BY <1>5, <1>6

(* The order of an id is where the reference looks for it.                 *)
LEMMA PositionIs ==
    ASSUME LevelInv, NEW id \in Ids, NEW h, h = id_index[id], h # Null,
           NEW s, NEW i, ShownAt(h, s, i),
           NEW side, side = pool[h].side, NEW p, p = pool[h].price
    PROVE  Ref!Position(RefBook(side)[p], id) = i
<1> DEFINE d == RefBook(side)[p]
<1>1. /\ IndexExact /\ h \in Live /\ pool[h].id = id
  BY InvParts, IndexedOrder DEF LevelInv
<1>2. /\ p \in Ticks /\ IsFifo(p, s) /\ i \in 1 .. Len(s) /\ s[i] = h /\ Len(d) = Len(s)
      /\ \A j \in 1 .. Len(s) : d[j] = RefOrderAt(s[j])
  BY DEF ShownAt, RefBook
<1>3. \A j \in 1 .. Len(s) : s[j] \in Live
  BY <1>2, FifoPositions
<1> HIDE DEF d
<1>4. ASSUME NEW j \in 1 .. Len(d)
      PROVE  d[j].id = id <=> j = i
  <2>3. j \in 1 .. Len(s) /\ d[j] = RefOrderAt(s[j])
    BY <1>2
  <2>1. d[j].id = pool[s[j]].id /\ s[j] \in Live
    BY <1>3, <2>3 DEF RefOrderAt
  <2>2. pool[s[j]].id = id <=> s[j] = h
    BY <1>1, <2>1 DEF IndexExact
  <2> QED
    BY <1>2, <2>1, <2>2 DEF IsFifo
<1>5. (CHOOSE j \in 1 .. Len(d) : d[j].id = id) = i
  BY <1>2, <1>4
<1> QED
  BY <1>5 DEF Ref!Position, d

(* The order of an id leaves the book.                                     *)
LEMMA EraseRef ==
    ASSUME LevelInv, LevelInv', NEW id \in Ids, id_index[id] # Null, pc = "idle",
           call'.id = id, unlink_and_free(id_index[id], pool, levels),
           id_index' = erase(id)
    PROVE  Ref!erase(id)
<1>1. PICK h, side, p : h = id_index[id] /\ side = pool[h].side /\ p = pool[h].price
  OBVIOUS
<1>2. /\ BookInv /\ h \in Live /\ pool[h].id = id /\ Removes(h)
      /\ side \in Side /\ p \in Ticks
  BY <1>1, ClientRemoves, IndexedOrder DEF LevelInv, Order
<1>3. PICK s, i : ShownAt(h, s, i)
  BY <1>2, IsShown
<1>4. IsFifo(p, s) /\ i \in 1 .. Len(s) /\ s[i] = h
  BY <1>1, <1>3 DEF ShownAt
<1>5. /\ RefBook(side)' = Removed(RefBook(side), p, i)
      /\ RefBook(Opposite(side))' = RefBook(Opposite(side))
  BY <1>1, <1>2, <1>4, RemovesRef
<1>6. Ref!Position(RefBook(side)[p], id) = i
  BY <1>1, <1>3, PositionIs
<1>7. Ref!Without(RefBook(side)[p], i) = Without(RefBook(side)[p], i)
  BY DEF Ref!Without, Without
<1>8. RefBook(side)' = [RefBook(side) EXCEPT ![p] = Ref!Without(@, Ref!Position(@, id))]
  BY <1>5, <1>6, <1>7 DEF Removed
<1>9. Ref!SetBook(side, [RefBook(side) EXCEPT ![p] = Ref!Without(@, Ref!Position(@, id))])
  BY <1>2, <1>5, <1>8, RefSetBook
<1>10. RefIndex[id] = Ref!Info(side, p, pool[h].owner)
  BY <1>1, <1>2, KnownIds
<1>11. RefIndex[id].side = side /\ RefIndex[id].price = p
  BY <1>10 DEF Ref!Info
<1>12. Ref!Book(side) = RefBook(side)
  BY <1>2, RefBooks
<1>13. RefIndex' = [RefIndex EXCEPT ![id] = Ref!NoInfo]
  BY <1>2, RemovesIndex
<1> QED
  BY <1>9, <1>11, <1>12, <1>13 DEF Ref!erase, RefIndex

(* cancel.                                                                 *)
LEMMA CancelRef ==
    ASSUME LevelInv, LevelInv', NEW id \in Ids, cancel(id)
    PROVE  Ref!cancel(id)
<1>1. pc = "idle" /\ (RefIndex[id] = Ref!NoInfo <=> id_index[id] = Null)
  BY KnownIds DEF cancel, LevelInv
<1>2. CASE id_index[id] = Null
  <2>1. UNCHANGED book /\ Answer(CancelCall("cancel", id), EmptyResult)
    BY <1>2 DEF cancel
  <2>2. Ref!Answer(Ref!CancelCall("cancel", id), Ref!EmptyResult)
    BY <2>1, SameVocabulary DEF Ref!Answer, Answer
  <2>3. /\ RefBook("Buy")' = RefBook("Buy") /\ RefBook("Sell")' = RefBook("Sell")
        /\ RefIndex' = RefIndex
    BY <2>1, BookKept
  <2> QED
    BY <1>1, <1>2, <2>2, <2>3 DEF Ref!cancel, RefBook, RefIndex
<1>3. CASE id_index[id] # Null
  <2>1. /\ unlink_and_free(id_index[id], pool, levels) /\ id_index' = erase(id)
        /\ Answer(CancelCall("cancel", id), [EmptyResult EXCEPT !.accepted = TRUE])
    BY <1>3 DEF cancel
  <2>2. call'.id = id
    BY <2>1 DEF Answer, CancelCall, NoCall
  <2>3. Ref!erase(id)
    BY <1>1, <1>3, <2>1, <2>2, EraseRef
  <2>4. Ref!Answer(Ref!CancelCall("cancel", id), [Ref!EmptyResult EXCEPT !.accepted = TRUE])
    BY <2>1, SameVocabulary DEF Ref!Answer, Answer
  <2> QED
    BY <1>1, <1>3, <2>3, <2>4 DEF Ref!cancel, RefIndex
<1> QED
  BY <1>2, <1>3

(* What the reference finds under the id of a live order.                  *)
LEMMA OrderOfId ==
    ASSUME LevelInv, NEW id \in Ids, NEW h, h = id_index[id], h # Null,
           NEW side, side = pool[h].side, NEW p, p = pool[h].price
    PROVE  /\ h \in Live /\ side \in Side /\ p \in Ticks
           /\ \E s, i : /\ IsFifo(p, s) /\ i \in 1 .. Len(s) /\ s[i] = h
                       /\ Ref!Position(RefBook(side)[p], id) = i
                       /\ RefBook(side)[p][i].remaining = pool[h].remaining
<1>1. h \in Live /\ side \in Side /\ p \in Ticks
  BY IndexedOrder DEF LevelInv, Order
<1>2. PICK s, i : ShownAt(h, s, i)
  BY <1>1, IsShown
<1>3. Ref!Position(RefBook(side)[p], id) = i
  BY <1>2, PositionIs
<1>4. RefBook(side)[p][i].remaining = pool[h].remaining
  BY <1>2, ShownInBook
<1> QED
  BY <1>1, <1>2, <1>3, <1>4 DEF ShownAt

(* modify that edits the order in its place.                               *)
LEMMA EditRef ==
    ASSUME LevelInv, LevelInv', NEW id \in Ids, id_index[id] # Null,
           NEW qty \in Quantities, qty # 0, qty <= pool[id_index[id]].remaining,
           pool' = [pool EXCEPT ![id_index[id]].remaining = qty],
           levels' = [levels EXCEPT ![pool[id_index[id]].price].total =
                         (@ - (pool[id_index[id]].remaining - qty)) % QMod],
           UNCHANGED <<free, id_index>>,
           NEW side, side = pool[id_index[id]].side, NEW p, p = pool[id_index[id]].price
    PROVE  /\ \E at : /\ at = Ref!Position(RefBook(side)[p], id)
                      /\ Ref!SetBook(side, Reduced(RefBook(side), p, at, qty))
           /\ RefIndex' = RefIndex
<1>1. PICK h : h = id_index[id]
  OBVIOUS
<1>2. /\ BookInv /\ h \in Live /\ h \in Handles /\ pool[h] \in Order /\ Live \subseteq Handles
      /\ pool \in [Handles -> Order] /\ levels \in [Ticks -> PriceLevel]
  BY <1>1, IndexedOrder, InvParts DEF LevelInv, Structure, BookTypes, Live
<1>3. /\ p \in Ticks /\ side \in Side /\ pool[h].remaining \in Quantity /\ qty \in Quantity
      /\ p = pool[h].price /\ side = pool[h].side
  BY <1>1, <1>2, QuantitiesAssumption DEF Order, Quantity
<1>4. Reduces(h, qty)
  <2>1. (levels[p].total - (pool[h].remaining - qty)) % QMod \in Quantity
    BY <1>2, <1>3, QModAssumption DEF PriceLevel, Quantity
  <2>2. PICK pl, lv : pl = pool' /\ lv = levels'
    OBVIOUS
  <2>3. /\ pl = [pool EXCEPT ![h].remaining = qty]
        /\ lv = [levels EXCEPT ![p].total = (@ - (pool[h].remaining - qty)) % QMod]
    BY <1>1, <1>3, <2>2
  <2>4. SameShape(pl, lv)
    BY <1>2, <1>3, <2>1, <2>3 DEF SameShape, Order, PriceLevel
  <2>5. SameShape(pool', levels')
    BY <2>2, <2>4 DEF SameShape
  <2>6. /\ pool'[h].remaining = qty
        /\ \A g \in Live \ {h} : pool'[g].remaining = pool[g].remaining
        /\ \A r \in Ticks :
             levels'[r].total = IF r = p THEN (levels[r].total - (pool[h].remaining - qty)) % QMod
                                         ELSE levels[r].total
    BY <1>2, <1>3, <2>2, <2>3 DEF Order, PriceLevel
  <2> QED
    BY <1>3, <2>5, <2>6 DEF Reduces
<1>5. h # Null
  BY <1>1
<1>6. PICK s, i : /\ IsFifo(p, s) /\ i \in 1 .. Len(s) /\ s[i] = h
                  /\ Ref!Position(RefBook(side)[p], id) = i
  BY <1>1, <1>3, <1>5, OrderOfId
<1>9. /\ RefBook(side)' = Reduced(RefBook(side), p, i, qty)
      /\ RefBook(Opposite(side))' = RefBook(Opposite(side))
  BY <1>2, <1>3, <1>4, <1>6, ReducesRef
<1>10. Ref!SetBook(side, Reduced(RefBook(side), p, i, qty))
  BY <1>3, <1>9, RefSetBook
<1>11. RefIndex' = RefIndex
  BY <1>2, <1>4, ReducesIndex
<1> QED
  BY <1>6, <1>10, <1>11

(* modify.                                                                 *)
LEMMA ModifyRef ==
    ASSUME LevelInv, LevelInv', NEW id \in Ids, NEW price \in Ticks,
           NEW qty \in Quantities, modify(id, price, qty)
    PROVE  Ref!modify(id, price, qty)
<1> DEFINE o == pool[id_index[id]]
           c == SubmitCall("modify", id, o.side, "Limit", price, qty, o.owner)
           accepted == [EmptyResult EXCEPT !.id = id, !.accepted = TRUE]
<1>1. pc = "idle" /\ (RefIndex[id] = Ref!NoInfo <=> id_index[id] = Null)
  BY KnownIds DEF modify, LevelInv
<1>2. CASE id_index[id] = Null
  <2>1. UNCHANGED book /\ Answer(CancelCall("modify", id), EmptyResult)
    BY <1>2 DEF modify
  <2>2. Ref!Answer(Ref!CancelCall("modify", id), Ref!EmptyResult)
    BY <2>1, SameVocabulary DEF Ref!Answer, Answer
  <2>3. /\ RefBook("Buy")' = RefBook("Buy") /\ RefBook("Sell")' = RefBook("Sell")
        /\ RefIndex' = RefIndex
    BY <2>1, BookKept
  <2> QED
    BY <1>1, <1>2, <2>2, <2>3 DEF Ref!modify, RefBook, RefIndex
<1>3. CASE id_index[id] # Null
  <2>1. SUFFICES Ref!modify_open(id, price, qty)
    BY <1>1, <1>3 DEF Ref!modify, RefIndex
  <2>2. PICK side, p, owner : side = o.side /\ p = o.price /\ owner = o.owner
    OBVIOUS
  <2>3. RefIndex[id] = Ref!Info(side, p, owner)
    BY <1>3, <2>2, KnownIds DEF LevelInv
  <2>4. RefIndex[id].side = side /\ RefIndex[id].price = p /\ RefIndex[id].owner = owner
    BY <2>3 DEF Ref!Info
  <2>5. side \in Side /\ p \in Ticks /\ Ref!Book(side) = RefBook(side)
    BY <1>3, <2>2, IndexedOrder, RefBooks DEF LevelInv, Order
  <2>6. /\ Ref!CancelCall("modify", id) = CancelCall("modify", id)
        /\ Ref!SubmitCall("modify", id, side, "Limit", price, qty, owner) = c
        /\ [Ref!EmptyResult EXCEPT !.id = id, !.accepted = TRUE] = accepted
    BY <2>2, SameVocabulary
  <2>7. \A k, r : Ref!Answer(k, r) <=> Answer(k, r)
    BY SameVocabulary DEF Ref!Answer, Answer
  <2>8. \A k : Ref!StartSweep(k) <=> StartSweep(k)
    BY SameVocabulary DEF Ref!StartSweep, StartSweep
  <2>9. c.id = id /\ CancelCall("modify", id).id = id
    BY DEF SubmitCall, CancelCall, NoCall
  <2>10. \A at : at = Ref!Position(RefBook(side)[p], id) =>
           RefBook(side)[p][at].remaining = o.remaining
    <3>1. PICK h : h = id_index[id] /\ h # Null
      BY <1>3
    <3>2. side = pool[h].side /\ p = pool[h].price
      BY <2>2, <3>1
    <3> QED
      BY <3>1, <3>2, OrderOfId
  <2>11. PICK at : at = Ref!Position(RefBook(side)[p], id)
    OBVIOUS
  <2>12. RefBook(side)[p][at].remaining = o.remaining
    BY <2>10, <2>11
  <2>13. CASE /\ qty = 0 /\ unlink_and_free(id_index[id], pool, levels)
              /\ id_index' = erase(id) /\ Answer(CancelCall("modify", id), accepted)
    <3>1. call'.id = id
      BY <2>9, <2>13 DEF Answer
    <3>2. Ref!erase(id)
      BY <1>1, <1>3, <2>13, <3>1, EraseRef
    <3>3. Ref!Answer(Ref!CancelCall("modify", id),
                     [Ref!EmptyResult EXCEPT !.id = id, !.accepted = TRUE])
      BY <2>6, <2>7, <2>13
    <3> QED
      BY <2>13, <3>2, <3>3 DEF Ref!modify_open
  <2>14. CASE /\ qty # 0 /\ price = o.price /\ qty <= o.remaining
              /\ pool' = [pool EXCEPT ![id_index[id]].remaining = qty]
              /\ levels' = [levels EXCEPT ![o.price].total =
                               (@ - (o.remaining - qty)) % QMod]
              /\ UNCHANGED <<free, id_index, best_bid, best_ask>>
              /\ Answer(c, [accepted EXCEPT !.resting = qty])
    <3>1. /\ Ref!SetBook(side, Reduced(RefBook(side), p, at, qty))
          /\ RefIndex' = RefIndex
      BY <1>3, <2>2, <2>11, <2>14, EditRef
    <3>2. Ref!SetBook(side, [RefBook(side) EXCEPT ![p][at].remaining = qty])
      BY <3>1 DEF Reduced
    <3>3. Ref!Answer(c, [accepted EXCEPT !.resting = qty])
      BY <2>7, <2>14
    <3> QED
      BY <2>2, <2>4, <2>5, <2>6, <2>11, <2>12, <2>14, <3>1, <3>2, <3>3
         DEF Ref!modify_open, RefIndex
  <2>15. CASE /\ qty # 0 /\ (price # o.price \/ qty > o.remaining)
              /\ unlink_and_free(id_index[id], pool, levels)
              /\ id_index' = erase(id) /\ StartSweep(c)
    <3>1. call'.id = id
      BY <2>9, <2>15 DEF StartSweep
    <3>2. Ref!erase(id)
      BY <1>1, <1>3, <2>15, <3>1, EraseRef
    <3>3. Ref!StartSweep(c)
      BY <2>8, <2>15
    <3>4. o.remaining \in Int /\ qty \in Int
      BY <1>3, IndexedOrder, QModAssumption, QuantitiesAssumption
         DEF LevelInv, Order, Quantity
    <3>5. ~(price = p /\ qty <= RefBook(side)[p][at].remaining)
      BY <2>2, <2>12, <2>15, <3>4
    <3> QED
      BY <2>4, <2>5, <2>6, <2>11, <2>15, <3>2, <3>3, <3>5 DEF Ref!modify_open, RefIndex
  <2> QED
    BY <1>3, <2>13, <2>14, <2>15 DEF modify
<1> QED
  BY <1>2, <1>3

(* The caller takes its result.                                            *)
LEMMA ReturnRef ==
    ASSUME LevelInv, LevelInv', return
    PROVE  Ref!return
<1>1. /\ RefBook("Buy")' = RefBook("Buy") /\ RefBook("Sell")' = RefBook("Sell")
      /\ RefIndex' = RefIndex
  BY BookKept DEF return
<1> QED
  BY <1>1, SameVocabulary DEF Ref!return, return, RefBook, RefIndex

(* A step that changes nothing.                                            *)
LEMMA StutterRef ==
    ASSUME LevelInv, LevelInv', UNCHANGED vars
    PROVE  UNCHANGED Ref!vars
<1>1. UNCHANGED book /\ UNCHANGED <<pc, call, res, trade>>
  BY DEF vars, book
<1>2. /\ RefBook("Buy")' = RefBook("Buy") /\ RefBook("Sell")' = RefBook("Sell")
      /\ RefIndex' = RefIndex
  BY <1>1, BookKept
<1> QED
  BY <1>1, <1>2 DEF Ref!vars, RefBook, RefIndex

(* The empty book.                                                         *)
LEMMA InitRef == Init => Ref!Init
<1> SUFFICES ASSUME Init PROVE Ref!Init
  OBVIOUS
<1>1. \A p \in Ticks, side \in Side : RefFifo(side, p) = <<>>
  BY DEF Init, RefFifo
<1>2. \A id \in Ids : RefInfo(id_index[id]) = Ref!NoInfo
  BY RefInfoIs DEF Init
<1> QED
  BY <1>1, <1>2, SameVocabulary DEF Ref!Init, Init, Side

-----------------------------------------------------------------------------
(* The walks of a Fok. *)

(* Remainders add up.                                                      *)
LEMMA ModSum ==
    ASSUME NEW a \in Int, NEW b \in Int, NEW d \in Int, NEW e \in Int,
           a % QMod = b % QMod, d % QMod = e % QMod
    PROVE  (a + d) % QMod = (b + e) % QMod
<1>1. ((a % QMod) + d) % QMod = (a + d) % QMod /\ ((b % QMod) + d) % QMod = (b + d) % QMod
  BY ModAdd
<1>2. (a + d) % QMod = (b + d) % QMod
  BY <1>1
<1>3. ((d % QMod) + b) % QMod = (d + b) % QMod /\ ((e % QMod) + b) % QMod = (e + b) % QMod
  BY ModAdd
<1>4. (d + b) % QMod = (e + b) % QMod
  BY <1>3
<1>5. d + b = b + d /\ e + b = b + e
  OBVIOUS
<1> QED
  BY <1>2, <1>4, <1>5

Congruent(e, f, U) == \A q \in U : e[q] % QMod = f[q] % QMod

Zero(e, U) == \A q \in U : e[q] = 0

CongruentTotals(e, T, f, U) == Total(e, T) % QMod = Total(f, U) % QMod

(* Summing the remainders, and leaving out what is 0, changes nothing in   *)
(* the width of Quantity.                                                  *)
LEMMA TotalWrapped ==
    ASSUME NEW T, NEW N, NEW e, NEW f, Counts(e, T), Counts(f, T),
           Congruent(e, f, T \cap N),
           Zero(e, T \ N)
    PROVE  CongruentTotals(e, T, f, T \cap N)
<1> DEFINE Fine(U) == Total(e, U) % QMod = Total(f, U \cap N) % QMod
           Bad == {n \in Nat : \E U \in SUBSET T : Cardinality(U) = n /\ ~Fine(U)}
<1>1. \A U \in SUBSET T : /\ Counts(e, U) /\ Counts(f, U)
                          /\ IsFiniteSet(U) /\ Cardinality(U) \in Nat
  BY FS_Subset, FS_CardinalityType DEF Counts
<1>2. Bad = {}
  <2>1. SUFFICES ASSUME Bad # {} PROVE FALSE
    OBVIOUS
  <2>2. PICK n \in Bad : \A m \in Bad : n <= m
    <3>1. Bad \in SUBSET Nat
      OBVIOUS
    <3> HIDE DEF Bad
    <3> QED
      BY <2>1, <3>1, LeastExists
  <2>3. PICK U \in SUBSET T : Cardinality(U) = n /\ ~Fine(U)
    BY <2>2
  <2> HIDE DEF Fine
  <2>4. \A V \in SUBSET T : Cardinality(V) < n => Fine(V)
    BY <1>1, <2>2
  <2>5. U # {}
    <3>1. SUFFICES ASSUME U = {} PROVE Fine(U)
      BY <2>3
    <3>2. Total(e, U) = 0 /\ U \cap N = U
      BY <1>1, <3>1, TotalLaws
    <3>3. Total(f, U \cap N) = 0
      BY <1>1, <3>1, <3>2, TotalLaws
    <3> QED
      BY <3>2, <3>3 DEF Fine
  <2>6. PICK x \in U : TRUE
    BY <2>5
  <2> DEFINE V == U \ {x}
  <2>7. V \in SUBSET T /\ Cardinality(V) < n /\ V \cap N \in SUBSET T /\ U \cap N \in SUBSET T
    BY <1>1, <2>3, <2>6, OneLess
  <2>8. Total(e, V) % QMod = Total(f, V \cap N) % QMod
    BY <2>4, <2>7 DEF Fine
  <2>9. Total(e, V) \in Nat /\ Total(f, V \cap N) \in Nat
    BY <1>1, <2>7, TotalLaws
  <2>10. e[x] \in Nat /\ f[x] \in Nat
    BY <2>6 DEF Counts
  <2>11. Total(e, U) = e[x] + Total(e, V)
    BY <1>1, <2>6, TotalLaws
  <2>12. PICK a, b, d, g : /\ a = e[x] /\ b = f[x]
                           /\ d = Total(e, V) /\ g = Total(f, V \cap N)
    OBVIOUS
  <2>13. /\ a \in Int /\ b \in Int /\ d \in Int /\ g \in Int /\ d % QMod = g % QMod
         /\ Total(e, U) = a + d
    BY <2>8, <2>9, <2>10, <2>11, <2>12
  <2>14. Total(e, U) % QMod = Total(f, U \cap N) % QMod
    <3>1. CASE x \in N
      <4>1. (U \cap N) \ {x} = V \cap N /\ x \in U \cap N
        BY <2>6, <3>1
      <4>2. Total(f, U \cap N) = b + g
        BY <1>1, <2>7, <2>12, <4>1, TotalLaws
      <4>3. a % QMod = b % QMod
        BY <2>6, <2>12, <3>1 DEF Congruent
      <4>4. (a + d) % QMod = (b + g) % QMod
        BY <2>13, <4>3, ModSum
      <4> QED
        BY <2>13, <4>2, <4>4
    <3>2. CASE x \notin N
      <4>1. U \cap N = V \cap N
        BY <3>2
      <4>2. a = 0
        BY <2>6, <2>12, <3>2 DEF Zero
      <4>3. Total(e, U) = d
        BY <2>13, <4>2
      <4>4. Total(f, U \cap N) = g
        BY <2>12, <4>1, Zenon
      <4> QED
        BY <2>13, <4>3, <4>4
    <3> QED
      BY <3>1, <3>2
  <2> QED
    BY <2>3, <2>14 DEF Fine
<1>3. Fine(T)
  BY <1>1, <1>2
<1> QED
  BY <1>3 DEF CongruentTotals

(* MapThenSumSet over the positions of a sequence is a total.              *)
SumsScan(d, S, g) ==
    g = [t \in SUBSET S |->
           IF t = {} THEN 0
           ELSE d[CHOOSE x \in t : TRUE].remaining + g[t \ {CHOOSE x \in t : TRUE}]]

SumOfScan(d, S) == Ref!MapThenSumSet(LAMBDA i : d[i].remaining, S)

(* The sum that scan_level takes is a total.                               *)
LEMMA ScanIs ==
    ASSUME NEW d, NEW S, NEW e, \A i \in S : e[i] = d[i].remaining, Counts(e, S)
    PROVE  SumOfScan(d, S) = Total(e, S)
<1> DEFINE g == CHOOSE w : SumsScan(d, S, w)
<1>1. SumOfScan(d, S) = g[S]
  BY DEF Ref!MapThenSumSet, Ref!MapThenFoldSet, SumsScan, SumOfScan
<1>2. ASSUME NEW w PROVE SumsScan(d, S, w) <=> Sums(e, S, w)
  <2>1. \A t \in SUBSET S : t # {} =>
          d[CHOOSE x \in t : TRUE].remaining = e[Picked(t)]
    BY DEF Picked
  <2> QED
    BY <2>1 DEF SumsScan, Sums, Picked
<1>3. \E w : SumsScan(d, S, w)
  BY <1>2, SumsExist
<1>4. SumsScan(d, S, g)
  BY <1>3
<1> HIDE DEF g
<1>5. Sums(e, S, g) /\ S \in SUBSET S
  BY <1>2, <1>4
<1> QED
  BY <1>1, <1>5, TotalIs

(* The orders of the FIFO s of price p that are an owner's own: where the  *)
(* walk ends.                                                              *)
OwnIn(s, owner) == {i \in 1 .. Len(s) : SelfTrade(owner, pool[s[i]].owner)}

OwnEndsWalk(p, owner, s) ==
    /\ OwnIn(s, owner) = {} <=> FirstOwn(p, owner) = 0
    /\ \A i \in 1 .. Len(s) :
         i <= Reachable(p, owner) <=> \A j \in OwnIn(s, owner) : i < j

(* FirstOwn is 0 only when there is no order of the owner, and else no     *)
(* order of the owner is in front of it.                                   *)
LEMMA FirstOwnLeast ==
    ASSUME NEW p, NEW owner, NEW s, s = Fifo(p), Len(s) \in Nat
    PROVE  OwnEndsWalk(p, owner, s)
<1>0. PICK own : own = OwnIn(s, owner)
  OBVIOUS
<1> DEFINE f == FirstOwn(p, owner)
<1>1. f = IF own = {} THEN 0 ELSE CHOOSE i \in own : \A j \in own : i <= j
  BY <1>0 DEF FirstOwn, OwnIn
<1>2. own \in SUBSET Nat /\ \A i \in own : i > 0 /\ i <= Len(s)
  BY <1>0 DEF OwnIn
<1>3. Reachable(p, owner) = IF f = 0 THEN Len(s) ELSE f - 1
  BY DEF Reachable
<1> HIDE DEF f
<1>4. own # {} => f \in own /\ \A j \in own : f <= j
  BY <1>1, <1>2, LeastExists
<1>5. CASE own = {}
  BY <1>0, <1>1, <1>3, <1>5 DEF f, OwnEndsWalk
<1>6. CASE own # {}
  <2>1. f \in own /\ f \in Nat /\ f > 0 /\ \A j \in own : f <= j /\ j \in Nat
    BY <1>2, <1>4, <1>6
  <2>2. Reachable(p, owner) = f - 1
    BY <1>3, <2>1
  <2>3. \A i \in 1 .. Len(s) : i <= f - 1 <=> \A j \in own : i < j
    BY <2>1
  <2> QED
    BY <1>0, <1>6, <2>1, <2>2, <2>3 DEF f, OwnEndsWalk
<1> QED
  BY <1>5, <1>6

(* What the reference scans at a price is what the book can reach there.   *)
LEMMA LevelScanned ==
    ASSUME LevelInv, NEW p \in Ticks, NEW side \in Side, NEW owner,
           NEW d, d = RefFifo(side, p), d # <<>>
    PROVE  /\ Ref!scan_level(d, owner) = Total(Left, Reach(p, owner))
           /\ Ref!Own(d, owner) = {} <=> FirstOwn(p, owner) = 0
<1>1. PICK s : IsFifo(p, s)
  BY DEF LevelInv, HasFifos
<1>2. /\ Fifo(p) = s /\ d = View(side, s) /\ pool \in [Handles -> Order]
      /\ Len(s) \in Nat /\ (s = <<>> <=> Len(s) = 0)
      /\ \A i \in 1 .. Len(s) : s[i] \in Handles
  BY <1>1, FifoIs, RefFifoIs, FifoPositions DEF LevelInv, BookInv, TypeOK, Live
<1>3. 1 \in 1 .. Len(s) /\ pool[s[1]].side = side
  BY <1>2 DEF View
<1>4. Len(d) = Len(s) /\ \A i \in 1 .. Len(s) : d[i] = RefOrderAt(s[i])
  BY <1>1, <1>2, <1>3, ViewOwnSide
<1>5. \A i \in 1 .. Len(s) : d[i].owner = pool[s[i]].owner /\ d[i].remaining = pool[s[i]].remaining
  <2> TAKE i \in 1 .. Len(s)
  <2>1. d[i] = RefOrderAt(s[i])
    BY <1>4
  <2> QED
    BY <2>1 DEF RefOrderAt
<1> DEFINE own == OwnIn(s, owner)
           n == Reachable(p, owner)
           e == [i \in 1 .. n |-> pool[s[i]].remaining]
<1>6. Ref!Own(d, owner) = own
  BY <1>4, <1>5, SameVocabulary DEF Ref!Own, OwnIn
<1>7. /\ own = {} <=> FirstOwn(p, owner) = 0
      /\ \A i \in 1 .. Len(s) : i <= n <=> \A j \in own : i < j
  BY <1>2, FirstOwnLeast DEF OwnEndsWalk
<1>8. n \in 0 .. Len(s)
  BY <1>2, FirstOwnIs
<1> HIDE DEF own, n
<1>9. {i \in 1 .. Len(d) : \A j \in Ref!Own(d, owner) : i < j} = 1 .. n
  BY <1>2, <1>4, <1>6, <1>7, <1>8
<1>10. /\ \A i \in 1 .. n : e[i] = pool[s[i]].remaining /\ e[i] = d[i].remaining
       /\ Counts(e, 1 .. n)
  <2>1. \A i \in 1 .. n : i \in 1 .. Len(s) /\ e[i] = pool[s[i]].remaining
    BY <1>2, <1>8
  <2>2. \A i \in 1 .. n : pool[s[i]].remaining \in Nat
    BY <1>2, <2>1, QModAssumption DEF Order, Quantity
  <2>3. IsFiniteSet(1 .. n)
    BY <1>2, <1>8, FS_Interval
  <2> QED
    BY <1>5, <2>1, <2>2, <2>3 DEF Counts
<1> HIDE DEF e
<1>11. RemainingOf(s, n) = Total(e, 1 .. n)
  BY <1>2, <1>8, <1>10, RemainingOfIs
<1>12. Ref!scan_level(d, owner) = Total(e, 1 .. n)
  <2> DEFINE S == {i \in 1 .. Len(d) : \A j \in Ref!Own(d, owner) : i < j}
  <2>1. \A i \in S : e[i] = d[i].remaining
    BY <1>9, <1>10
  <2>2. Counts(e, S)
    BY <1>9, <1>10
  <2>3. Ref!scan_level(d, owner) = SumOfScan(d, S)
    BY DEF Ref!scan_level, SumOfScan
  <2> HIDE DEF S
  <2>4. SumOfScan(d, S) = Total(e, S)
    BY <2>1, <2>2, ScanIs
  <2>5. S = 1 .. n
    BY <1>9 DEF S
  <2> QED
    BY <2>3, <2>4, <2>5
<1>13. RemainingOf(s, n) = Total(Left, Reach(p, owner))
  BY <1>2, FrontTotal DEF n
<1> QED
  BY <1>6, <1>7, <1>11, <1>12, <1>13

(* MapThenSumSet over prices is the total of what the reference scans.     *)
SumsScans(b, owner, T, g) ==
    g = [t \in SUBSET T |->
           IF t = {} THEN 0
           ELSE Ref!scan_level(b[CHOOSE x \in t : TRUE], owner)
                  + g[t \ {CHOOSE x \in t : TRUE}]]

SumOfScans(b, owner, T) ==
    Ref!MapThenSumSet(LAMBDA q : Ref!scan_level(b[q], owner), T)

(* The sum that can_fill of the reference takes is a total.                *)
LEMMA ScanSum ==
    ASSUME NEW b, NEW owner, NEW T, NEW e,
           \A q \in T : e[q] = Ref!scan_level(b[q], owner), Counts(e, T)
    PROVE  SumOfScans(b, owner, T) = Total(e, T)
<1> DEFINE g == CHOOSE w : SumsScans(b, owner, T, w)
<1>1. SumOfScans(b, owner, T) = g[T]
  BY DEF Ref!MapThenSumSet, Ref!MapThenFoldSet, SumsScans, SumOfScans
<1>2. ASSUME NEW w PROVE SumsScans(b, owner, T, w) <=> Sums(e, T, w)
  <2>1. \A t \in SUBSET T : t # {} =>
          Ref!scan_level(b[CHOOSE x \in t : TRUE], owner) = e[Picked(t)]
    BY DEF Picked
  <2> QED
    BY <2>1 DEF SumsScans, Sums, Picked
<1>3. \E w : SumsScans(b, owner, T, w)
  BY <1>2, SumsExist
<1>4. SumsScans(b, owner, T, g)
  BY <1>3
<1> HIDE DEF g
<1>5. Sums(e, T, g) /\ T \in SUBSET T
  BY <1>2, <1>4
<1> QED
  BY <1>1, <1>5, TotalIs

(* The prices that are keys of a side of the reference.                    *)
KeysOf(side) == {q \in Ticks : RefBook(side)[q] # <<>>}

SumOfCounts(owner, T) == MapThenSumSet(LAMBDA q : count_level(q, owner), T)

WalksMeet(side, owner, W) ==
    /\ SumOfCounts(owner, W) % QMod
         = SumOfScans(RefBook(side), owner, W \cap KeysOf(side)) % QMod
    /\ \A q \in W : FirstOwn(q, owner) = 0 <=>
                      (q \in KeysOf(side) => Ref!Own(RefBook(side)[q], owner) = {})
    /\ W \cap KeysOf(side) = {} => SumOfCounts(owner, W) % QMod = 0

(* The two walks over the prices W, which lie behind the best price, count *)
(* the same and stop for the same orders: a level that is no key is empty. *)
LEMMA WalksAgree ==
    ASSUME LevelInv, LevelTotals, NEW way \in Side, NEW owner,
           NEW best, best = (IF way = "Buy" THEN best_ask ELSE best_bid), best # NoPrice,
           NEW side, side = Opposite(way),
           NEW W \in SUBSET Ticks,
           \A q \in W : IF way = "Buy" THEN best <= q ELSE q <= best
    PROVE  WalksMeet(side, owner, W)
<1> DEFINE N == KeysOf(side)
           e == [q \in W |-> count_level(q, owner)]
           f == [q \in W |-> Total(Left, Reach(q, owner))]
           k == [q \in W |-> Ref!scan_level(RefBook(side)[q], owner)]
           b == RefBook(side)
<1>1. Structure /\ side \in Side /\ IsFiniteSet(W)
  <2>1. 0 \in Int /\ TickRange - 1 \in Int
    BY TickRangeAssumption
  <2>2. IsFiniteSet(Ticks)
    BY <2>1, FS_Interval DEF Ticks
  <2> QED
    BY <2>2, InvParts, TwoSides, FS_Subset DEF LevelInv
<1>2. \A q \in W : /\ e[q] \in Nat /\ f[q] \in Nat
                   /\ e[q] = IF owner = 0 THEN f[q] % QMod ELSE f[q]
  BY CountLevel
<1>3. Counts(e, W) /\ Counts(f, W)
  BY <1>1, <1>2 DEF Counts
<1>4. ASSUME NEW q \in W, q \in N
      PROVE  /\ e[q] % QMod = f[q] % QMod /\ k[q] = f[q]
             /\ FirstOwn(q, owner) = 0 <=> Ref!Own(b[q], owner) = {}
  <2>1. RefFifo(side, q) # <<>> /\ b[q] = RefFifo(side, q)
    BY <1>4 DEF KeysOf, RefBook
  <2>2. k[q] = f[q] /\ (FirstOwn(q, owner) = 0 <=> Ref!Own(b[q], owner) = {})
    BY <1>1, <2>1, LevelScanned
  <2>3. PICK x, y : x = e[q] /\ y = f[q]
    OBVIOUS
  <2>4. x \in Nat /\ y \in Nat /\ x = IF owner = 0 THEN y % QMod ELSE y
    BY <1>2, <2>3
  <2>5. x % QMod = y % QMod
    BY <2>4, QModAssumption
  <2> QED
    BY <2>2, <2>3, <2>5
<1>5. ASSUME NEW q \in W, q \notin N
      PROVE  e[q] = 0 /\ FirstOwn(q, owner) = 0
  <2>1. RefFifo(side, q) = <<>>
    BY <1>5 DEF KeysOf, RefBook
  <2>2. \A h \in Live : pool[h].price # q
    <3> SUFFICES ASSUME NEW h \in Live, pool[h].price = q PROVE FALSE
      OBVIOUS
    <3>1. pool[h].side = side
      BY <1>1, WalkedSide
    <3>2. h \in OnSide(side)
      BY <3>1 DEF OnSide
    <3> QED
      BY <1>1, <2>1, <3>2, KeyIs
  <2>3. PICK s : IsFifo(q, s)
    BY DEF LevelInv, HasFifos
  <2>4. Fifo(q) = s /\ Len(s) = 0
    <3>1. /\ Fifo(q) = s /\ Len(s) \in Nat
          /\ \A i \in 1 .. Len(s) : s[i] \in Live /\ pool[s[i]].price = q
      BY <2>3, FifoIs, FifoPositions
    <3> QED
      BY <2>2, <3>1
  <2>5. FirstOwn(q, owner) = 0
    BY <2>4, FirstOwnIs
  <2>6. Reach(q, owner) = {}
    BY <2>2, ReachFacts DEF Here
  <2>7. f[q] = 0
    <3>1. Counts(Left, {})
      BY LeftCounts DEF LevelInv, BookInv, TypeOK
    <3>2. Total(Left, {}) = 0
      BY <3>1, TotalLaws
    <3> QED
      BY <2>6, <3>2
  <2>8. e[q] = 0
    BY <1>2, <2>7, QModAssumption
  <2> QED
    BY <2>5, <2>8
<1> DEFINE sum == SumOfCounts(owner, W)
           scan == SumOfScans(b, owner, W \cap N)
<1>6. sum = Total(e, W)
  <2>1. \A q \in W : e[q] = count_level(q, owner)
    OBVIOUS
  <2> HIDE DEF e
  <2> QED
    BY <1>3, <2>1, CountSum DEF SumOfCounts
<1>7. Counts(f, W \cap N) /\ Counts(k, W \cap N)
  <2>1. IsFiniteSet(W \cap N)
    BY <1>1, FS_Subset
  <2> QED
    BY <1>2, <1>4, <2>1 DEF Counts
<1>8. scan = Total(k, W \cap N)
  <2>1. \A q \in W \cap N : k[q] = Ref!scan_level(b[q], owner)
    OBVIOUS
  <2> HIDE DEF k
  <2> QED
    BY <1>7, <2>1, ScanSum
<1>9. Total(k, W \cap N) = Total(f, W \cap N)
  <2>1. \A q \in W \cap N : k[q] = f[q]
    BY <1>4
  <2> HIDE DEF k, f
  <2> QED
    BY <1>7, <2>1, TotalSame
<1>10. Total(e, W) % QMod = Total(f, W \cap N) % QMod
  <2>1. /\ \A q \in W : q \in N => e[q] % QMod = f[q] % QMod
        /\ \A q \in W : q \notin N => e[q] = 0
    BY <1>4, <1>5
  <2> HIDE DEF e, f
  <2>2. Congruent(e, f, W \cap N) /\ Zero(e, W \ N)
    BY <2>1 DEF Congruent, Zero
  <2> HIDE DEF N
  <2>3. CongruentTotals(e, W, f, W \cap N)
    BY <1>3, <2>2, TotalWrapped
  <2> QED
    BY <2>3 DEF CongruentTotals
<1>11. ASSUME W \cap N = {} PROVE Total(f, W \cap N) % QMod = 0
  <2>1. Total(f, W \cap N) = 0
    BY <1>7, <1>11, TotalLaws
  <2> QED
    BY <2>1, QModAssumption
<1>12. \A q \in W : FirstOwn(q, owner) = 0 <=> (q \in N => Ref!Own(b[q], owner) = {})
  BY <1>4, <1>5
<1> HIDE DEF e, f, k
<1>13. sum % QMod = scan % QMod
  BY <1>6, <1>8, <1>9, <1>10
<1>14. W \cap N = {} => sum % QMod = 0
  BY <1>6, <1>10, <1>11
<1> QED
  BY <1>12, <1>13, <1>14 DEF WalksMeet

(* The levels walked from the best price to p, and the keys of the         *)
(* reference from its best to p.                                           *)
BestFacing(c) == IF c.side = "Buy" THEN best_ask ELSE best_bid

PricesWalked(c, best, p) ==
    {q \in Ticks : IF c.side = "Buy" THEN best <= q /\ q <= p
                                     ELSE p <= q /\ q <= best}

KeysUpTo(c, p) ==
    {q \in {r \in Ref!Keys(Ref!Book(Ref!Opposite(c.side))) : Ref!Reaches(c, r)} :
       IF c.side = "Buy" THEN q <= p ELSE q >= p}

(* What makes a Fok fillable at price p, in each book.                     *)
FillsAt(c, best, p) ==
    /\ p \in {q \in Ticks : Crosses(c, q) /\ q \in PricesWalked(c, best, q)}
    /\ \A q \in PricesWalked(c, best, p) \ {p} : FirstOwn(q, c.owner) = 0
    /\ SumOfCounts(c.owner, PricesWalked(c, best, p)) % QMod >= c.qty

RefFillsAt(c, b, U, p) ==
    /\ \A q \in U \ {p} : Ref!Own(b[q], c.owner) = {}
    /\ SumOfScans(b, c.owner, U) % QMod >= c.qty

(* The read-only walk of the book: OrderBook and the reference accept the  *)
(* same Foks.                                                              *)
LEMMA FillAgrees ==
    ASSUME LevelInv, LevelTotals, NEW c \in Call, c.qty > 0
    PROVE  Ref!can_fill(c) <=> can_fill(c)
<1>1. PICK best, side, b, K : /\ best = BestFacing(c)
                              /\ side = Opposite(c.side)
                              /\ b = RefBook(side) /\ K = KeysOf(side)
  OBVIOUS
<1>2. /\ c.side \in Side /\ side \in Side /\ c.qty \in Nat /\ c.qty # 0
      /\ K \subseteq Ticks /\ Structure
  BY <1>1, InvParts, TwoSides, QModAssumption
     DEF LevelInv, Call, Quantity, KeysOf
<1>3. best \in Ticks \cup {NoPrice} /\ Ticks \subseteq Nat /\ NoPrice \notin Ticks
  BY <1>1, <1>2, TickRangeAssumption DEF BestFacing, Structure, BookTypes, Ticks, NoPrice
<1>4. \A q \in K : best # NoPrice /\ IF c.side = "Buy" THEN best <= q ELSE q <= best
  <2> TAKE q \in K
  <2>1. RefFifo(side, q) # <<>>
    BY <1>1 DEF KeysOf, RefBook
  <2>2. PICK h \in OnSide(side) : pool[h].price = q
    BY <1>2, <2>1, KeyIs
  <2>3. CASE c.side = "Buy"
    <3>1. h \in OnSide("Sell") /\ best = best_ask
      BY <1>1, <2>2, <2>3 DEF Opposite, BestFacing
    <3> QED
      BY <1>2, <2>2, <2>3, <3>1 DEF Structure, BestPrices
  <2>4. CASE c.side # "Buy"
    <3>1. h \in OnSide("Buy") /\ best = best_bid
      BY <1>1, <2>2, <2>4 DEF Opposite, BestFacing
    <3>2. q <= best
      BY <1>2, <2>2, <3>1 DEF Structure, BestPrices
    <3>3. q \in Nat
      BY <1>2, <1>3
    <3> QED
      BY <1>3, <2>4, <3>2, <3>3 DEF NoPrice
  <2> QED
    BY <2>3, <2>4
<1>5. can_fill(c) <=> Crosses(c, best) /\ \E p \in Ticks : FillsAt(c, best, p)
  <2>1. can_fill(c) <=>
          /\ Crosses(c, BestFacing(c))
          /\ \E p : FillsAt(c, BestFacing(c), p)
    BY Zenon DEF can_fill, FillsAt, PricesWalked, SumOfCounts, BestFacing
  <2> QED
    BY <1>1, <2>1 DEF FillsAt
<1>6. \A p \in Ticks : Ref!Reaches(c, p) <=> Crosses(c, p)
  BY ReachesIs
<1>7. Ref!Keys(Ref!Book(Ref!Opposite(c.side))) = K /\ Ref!Book(Ref!Opposite(c.side)) = b
  BY <1>1, <1>2, RefBooks, SameVocabulary DEF Ref!Keys, KeysOf
<1>8. Ref!can_fill(c) <=> \E p \in K : Crosses(c, p) /\ RefFillsAt(c, b, KeysUpTo(c, p), p)
  <2> DEFINE opp == Ref!Book(Ref!Opposite(c.side))
  <2>1. Ref!can_fill(c) <=>
          \/ c.qty = 0
          \/ \E p \in {r \in Ref!Keys(opp) : Ref!Reaches(c, r)} :
               RefFillsAt(c, opp, KeysUpTo(c, p), p)
    BY Zenon DEF Ref!can_fill, RefFillsAt, KeysUpTo, SumOfScans
  <2> HIDE DEF opp
  <2>2. opp = b /\ Ref!Keys(opp) = K
    BY <1>7 DEF opp
  <2> QED
    BY <1>2, <1>6, <2>1, <2>2
<1>9. \A p, q \in Ticks :
        Crosses(c, p) /\ (IF c.side = "Buy" THEN q <= p ELSE p <= q) => Crosses(c, q)
  BY <1>3, TickRangeAssumption DEF Crosses, LimitPrice, Call, AnyPrice, NoPrice
<1>10. \A p \in Ticks : Crosses(c, p) => KeysUpTo(c, p) = PricesWalked(c, best, p) \cap K
  <2> SUFFICES ASSUME NEW p \in Ticks, Crosses(c, p), NEW q \in K
               PROVE  q \in KeysUpTo(c, p) <=> q \in PricesWalked(c, best, p)
    BY <1>7 DEF KeysUpTo
  <2>1. q \in Ticks /\ IF c.side = "Buy" THEN best <= q ELSE q <= best
    BY <1>2, <1>4
  <2>2. q \in KeysUpTo(c, p) <=> Crosses(c, q) /\ IF c.side = "Buy" THEN q <= p ELSE q >= p
    BY <1>6, <1>7, <2>1 DEF KeysUpTo
  <2>3. q \in PricesWalked(c, best, p) <=> IF c.side = "Buy" THEN q <= p ELSE p <= q
    BY <2>1 DEF PricesWalked
  <2>4. p \in Nat /\ q \in Nat
    BY <1>3, <2>1
  <2> QED
    BY <1>9, <2>1, <2>2, <2>3, <2>4
<1>11. ASSUME best # NoPrice, NEW p \in Ticks
       PROVE  WalksMeet(side, c.owner, PricesWalked(c, best, p))
  <2>1. PICK W : W = PricesWalked(c, best, p)
    OBVIOUS
  <2>2. W \in SUBSET Ticks /\ \A q \in W : IF c.side = "Buy" THEN best <= q ELSE q <= best
    BY <2>1 DEF PricesWalked
  <2>3. WalksMeet(side, c.owner, W)
    BY <1>1, <1>2, <1>11, <2>2, WalksAgree DEF BestFacing
  <2> QED
    BY <2>1, <2>3
<1>12. ASSUME NEW p \in Ticks, Crosses(c, best), FillsAt(c, best, p)
       PROVE  \E r \in K : Crosses(c, r) /\ RefFillsAt(c, b, KeysUpTo(c, r), r)
  <2>1. best # NoPrice /\ WalksMeet(side, c.owner, PricesWalked(c, best, p))
    BY <1>11, <1>12 DEF Crosses
  <2>2. PICK W, N : W = PricesWalked(c, best, p) /\ N = W \cap K
    OBVIOUS
  <2>3. PICK total : total = SumOfScans(b, c.owner, N) % QMod
    OBVIOUS
  <2>4. SumOfCounts(c.owner, W) % QMod = total /\ (N = {} => total = 0) /\ total >= c.qty
    BY <1>1, <1>12, <2>1, <2>2, <2>3 DEF WalksMeet, FillsAt
  <2>5. N # {} /\ N \subseteq Ticks /\ N \subseteq K /\ N \subseteq W
    BY <1>2, <2>2, <2>4
  <2>6. PICK r \in N : \A q \in N : IF c.side = "Buy" THEN q <= r ELSE r <= q
    <3>1. N \in SUBSET Nat /\ N \in SUBSET Ticks
      BY <1>3, <2>5
    <3>2. CASE c.side = "Buy"
      BY <2>5, <3>1, <3>2, GreatestTickExists
    <3>3. CASE c.side # "Buy"
      BY <2>5, <3>1, <3>3, LeastExists
    <3> QED
      BY <3>2, <3>3
  <2>7. r \in Ticks /\ r \in K /\ IF c.side = "Buy" THEN r <= p ELSE p <= r
    BY <2>2, <2>5, <2>6 DEF PricesWalked
  <2>8. Crosses(c, r)
    <3>1. Crosses(c, p)
      BY <1>12 DEF FillsAt
    <3> QED
      BY <1>9, <2>7, <3>1
  <2>9. KeysUpTo(c, r) = N
    <3>1. KeysUpTo(c, r) = PricesWalked(c, best, r) \cap K
      BY <1>10, <2>7, <2>8
    <3>2. ASSUME NEW q \in N PROVE q \in PricesWalked(c, best, r)
      BY <2>2, <2>5, <2>6, <3>2 DEF PricesWalked
    <3>3. ASSUME NEW q \in K, q \in PricesWalked(c, best, r) PROVE q \in N
      <4>1. q \in Nat /\ r \in Nat /\ p \in Nat /\ q \in Ticks
        BY <1>2, <1>3, <2>7
      <4>2. q \in W
        BY <2>2, <2>7, <3>3, <4>1 DEF PricesWalked
      <4> QED
        BY <2>2, <4>2
    <3> QED
      BY <2>5, <3>1, <3>2, <3>3
  <2>10. ASSUME NEW q \in N, q # r PROVE Ref!Own(b[q], c.owner) = {}
    <3>1. q \in Nat /\ r \in Nat /\ p \in Nat
      BY <1>3, <2>5, <2>7
    <3>2. q \in W /\ q \in K /\ q # p
      BY <2>5, <2>6, <2>7, <2>10, <3>1
    <3>3. FirstOwn(q, c.owner) = 0
      BY <1>12, <2>2, <3>2 DEF FillsAt
    <3> QED
      BY <1>1, <2>1, <2>2, <3>2, <3>3 DEF WalksMeet
  <2>11. RefFillsAt(c, b, N, r)
    BY <2>3, <2>4, <2>10 DEF RefFillsAt
  <2> QED
    BY <2>7, <2>8, <2>9, <2>11
<1>13. ASSUME NEW p \in K, Crosses(c, p), RefFillsAt(c, b, KeysUpTo(c, p), p)
       PROVE  Crosses(c, best) /\ FillsAt(c, best, p)
  <2>1. best \in Ticks /\ p \in Ticks /\ best \in Nat /\ p \in Nat
    BY <1>2, <1>3, <1>4
  <2>2. PICK W, N : W = PricesWalked(c, best, p) /\ N = W \cap K
    OBVIOUS
  <2>3. N = KeysUpTo(c, p) /\ best # NoPrice /\ WalksMeet(side, c.owner, W)
    BY <1>3, <1>10, <1>11, <1>13, <2>1, <2>2
  <2>4. Crosses(c, best) /\ p \in W
    BY <1>4, <1>9, <1>13, <2>1, <2>2 DEF PricesWalked
  <2>5. ASSUME NEW q \in W, q # p PROVE FirstOwn(q, c.owner) = 0
    <3>1. q \in K => Ref!Own(b[q], c.owner) = {}
      BY <1>13, <2>2, <2>3, <2>5 DEF RefFillsAt
    <3> QED
      BY <1>1, <2>3, <3>1 DEF WalksMeet
  <2>6. SumOfCounts(c.owner, W) % QMod >= c.qty
    <3>1. SumOfCounts(c.owner, W) % QMod = SumOfScans(b, c.owner, N) % QMod
      BY <1>1, <2>2, <2>3 DEF WalksMeet
    <3>2. SumOfScans(b, c.owner, N) % QMod >= c.qty
      BY <1>13, <2>3 DEF RefFillsAt
    <3> QED
      BY <3>1, <3>2
  <2> QED
    BY <1>13, <2>1, <2>2, <2>4, <2>5, <2>6 DEF FillsAt
<1> QED
  BY <1>2, <1>5, <1>8, <1>12, <1>13

(* A new order is accepted, or rejected, by both books.                    *)
LEMMA SubmitRef ==
    ASSUME LevelInv, LevelInv', LevelTotals, 0 \notin Quantities,
           NEW id \in Ids, NEW side \in Side, NEW type \in OrderType,
           NEW qty \in Quantities, NEW owner \in Owners, NEW price \in CallPrices(type),
           submit(id, side, type, price, qty, owner)
    PROVE  Ref!submit(id, side, type, price, qty, owner)
<1>1. PICK c : c = SubmitCall("submit", id, side, type, price, qty, owner)
  OBVIOUS
<1>2. c \in Call /\ c.qty > 0
  <2>1. price \in AnyPrice
    BY CallPriceTypes
  <2>2. c \in Call
    BY <1>1, <2>1, CallTypes
  <2>3. c.qty = qty /\ qty > 0
    BY <1>1, QuantitiesAssumption, QModAssumption DEF SubmitCall
  <2> QED
    BY <2>2, <2>3
<1>3. /\ pc = "idle" /\ id_index[id] = Null /\ UNCHANGED book
      /\ IF type = "Fok" /\ ~can_fill(c)
           THEN Answer(c, [EmptyResult EXCEPT !.id = id])
           ELSE StartSweep(c)
  BY <1>1 DEF submit
<1>4. Ref!can_fill(c) <=> can_fill(c)
  BY <1>2, FillAgrees
<1>5. RefIndex[id] = Ref!NoInfo
  BY <1>3, KnownIds DEF LevelInv
<1>6. /\ RefBook("Buy")' = RefBook("Buy") /\ RefBook("Sell")' = RefBook("Sell")
      /\ RefIndex' = RefIndex
  BY <1>3, BookKept
<1>7. IF type = "Fok" /\ ~Ref!can_fill(c)
        THEN Ref!Answer(c, [Ref!EmptyResult EXCEPT !.id = id])
        ELSE Ref!StartSweep(c)
  BY <1>3, <1>4, SameVocabulary DEF Ref!Answer, Answer, Ref!StartSweep, StartSweep
<1>8. c = Ref!SubmitCall("submit", id, side, type, price, qty, owner)
  BY <1>1, SameVocabulary
<1> QED
  BY <1>3, <1>5, <1>6, <1>7, <1>8 DEF Ref!submit, RefBook, RefIndex

(* Every step is a step of the reference, or changes nothing it knows.     *)
LEMMA NextRef ==
    ASSUME LevelInv, LevelInv', LevelTotals, [Next]_vars,
           IsFiniteSet(Ids), Cardinality(Ids) <= Cardinality(Handles),
           0 \notin Quantities
    PROVE  [Ref!Next]_(Ref!vars)
<1>1. CASE Submit
  <2>1. PICK id \in Ids, side \in Side, type \in OrderType, qty \in Quantities,
             owner \in Owners : \E price \in CallPrices(type) :
             submit(id, side, type, price, qty, owner)
    BY <1>1 DEF Submit
  <2>2. PICK price \in CallPrices(type) : submit(id, side, type, price, qty, owner)
    BY <2>1
  <2>3. Ref!submit(id, side, type, price, qty, owner)
    BY <2>2, SubmitRef
  <2>4. side \in Ref!Side /\ type \in Ref!OrderType /\ price \in Ref!CallPrices(type)
    BY SameVocabulary
  <2>5. Ref!Submit
    BY <2>3, <2>4 DEF Ref!Submit
  <2> QED
    BY <2>5 DEF Ref!Next
<1>2. CASE match
  BY <1>2, MatchRef DEF Ref!Next
<1>3. CASE finish_submit
  BY <1>3, FinishRef DEF Ref!Next
<1>4. CASE Cancel
  <2>1. PICK id \in Ids : cancel(id)
    BY <1>4 DEF Cancel
  <2>2. Ref!cancel(id)
    BY <2>1, CancelRef
  <2> QED
    BY <2>2 DEF Ref!Cancel, Ref!Next
<1>5. CASE Modify
  <2>1. PICK id \in Ids, price \in Ticks, qty \in Quantities : modify(id, price, qty)
    BY <1>5 DEF Modify
  <2>2. Ref!modify(id, price, qty) /\ price \in Ref!Ticks
    BY <2>1, ModifyRef, SameVocabulary
  <2> QED
    BY <2>2 DEF Ref!Modify, Ref!Next
<1>6. CASE return
  BY <1>6, ReturnRef DEF Ref!Next
<1>7. CASE UNCHANGED vars
  BY <1>7, StutterRef
<1> QED
  BY <1>1, <1>2, <1>3, <1>4, <1>5, <1>6, <1>7 DEF Next

(* OrderBook implements the reference book: with the FIFOs read off the    *)
(* links and the index off the slots, every behaviour of the book, its     *)
(* trades and its results included, is one of RefOrderBook.  The pool has  *)
(* a slot for every identifier, as the reference never runs out, and no    *)
(* call passes quantity 0.                                                 *)
THEOREM ImplementsReference ==
    ASSUME IsFiniteSet(Ids), Cardinality(Ids) <= Cardinality(Handles),
           0 \notin Quantities
    PROVE  Spec => ImplementsRef
<1>1. LevelInv /\ LevelInv' /\ LevelTotals /\ [Next]_vars => [Ref!Next]_(Ref!vars)
  BY NextRef
<1> QED
  BY <1>1, InitRef, LevelSafety, TotalsExact, PTL DEF Spec, ImplementsRef, Ref!Spec
=============================================================================
