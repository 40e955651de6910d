-------------------------- MODULE OrderBookProofs --------------------------
(***************************************************************************)
(* The book is sound for any number of ticks, slots, identifiers and       *)
(* owners.  First its structure: links, index and best prices.  Then its   *)
(* levels: following the links of a level meets its live orders in the     *)
(* order they came, the aggregate of a level is the sum of their           *)
(* quantities, a Fok that is accepted is filled, and, with a slot for      *)
(* every identifier, what is reported as resting rests.                    *)
(***************************************************************************)
EXTENDS OrderBook, SequenceTheorems, FiniteSetTheorems, WellFoundedInduction,
        TLAPS

-----------------------------------------------------------------------------
(* The scans of reprice_best_bid and reprice_best_ask find what they look  *)
(* for.                                                                    *)

(* A non-empty set of naturals has a least element.                        *)
LEMMA LeastExists ==
    ASSUME NEW S \in SUBSET Nat, S # {}
    PROVE  \E p \in S : \A q \in S : p <= q
<1>1. PICK p \in S : \A q \in S : ~(<<q, p>> \in OpToRel(<, Nat))
  BY WFMin, NatLessThanWellFounded
<1>2. \A q \in S : ~(q < p)
  BY <1>1 DEF OpToRel
<1> QED
  BY <1>2

(* A non-empty set of ticks has a greatest element.                        *)
LEMMA GreatestTickExists ==
    ASSUME NEW S \in SUBSET Ticks, S # {}
    PROVE  \E p \in S : \A q \in S : q <= p
<1> DEFINE T == {n \in Nat : \E q \in S : n = TickRange - q}
<1>1. T \in SUBSET Nat /\ T # {}
  <2>1. PICK q \in S : TRUE
    OBVIOUS
  <2>2. TickRange - q \in T
    BY TickRangeAssumption DEF Ticks
  <2> QED
    BY <2>2
<1>2. PICK n \in T : \A m \in T : n <= m
  BY <1>1, LeastExists
<1>3. PICK p \in S : n = TickRange - p
  BY <1>2
<1>4. ASSUME NEW q \in S PROVE q <= p
  <2>1. TickRange - q \in T
    BY TickRangeAssumption DEF Ticks
  <2> QED
    BY <1>2, <1>3, <2>1, TickRangeAssumption DEF Ticks
<1> QED
  BY <1>4

(* The bid scan: the greatest non-empty level up to the old best, if any.  *)
LEMMA RepriceBid ==
    ASSUME NEW lv
    PROVE  LET S == {p \in NonEmpty(lv) : p <= best_bid}
               r == reprice_best_bid(lv)
           IN  IF S = {} THEN r = NoPrice
                         ELSE r \in S /\ \A q \in S : q <= r
<1> DEFINE S == {p \in NonEmpty(lv) : p <= best_bid}
<1>1. S \in SUBSET Ticks
  BY DEF NonEmpty
<1>2. CASE S = {}
  BY <1>2 DEF reprice_best_bid
<1>3. CASE S # {}
  <2>1. \E p \in S : \A q \in S : q <= p
    BY <1>1, <1>3, GreatestTickExists
  <2>2. reprice_best_bid(lv) = CHOOSE p \in S : \A q \in S : q <= p
    BY <1>3 DEF reprice_best_bid
  <2> HIDE DEF S
  <2>3. reprice_best_bid(lv) \in S /\ \A q \in S : q <= reprice_best_bid(lv)
    BY <2>1, <2>2
  <2> QED
    BY <1>3, <2>3 DEF S
<1> QED
  BY <1>2, <1>3

(* The ask scan: the least non-empty level from the old best on, if any.   *)
LEMMA RepriceAsk ==
    ASSUME NEW lv
    PROVE  LET S == {p \in NonEmpty(lv) : p >= best_ask}
               r == reprice_best_ask(lv)
           IN  IF S = {} THEN r = NoPrice
                         ELSE r \in S /\ \A q \in S : q >= r
<1> DEFINE S == {p \in NonEmpty(lv) : p >= best_ask}
<1>1. S \in SUBSET Nat
  BY DEF NonEmpty, Ticks
<1>2. CASE S = {}
  BY <1>2 DEF reprice_best_ask
<1>3. CASE S # {}
  <2>1. \E p \in S : \A q \in S : p <= q
    BY <1>1, <1>3, LeastExists
  <2>2. \E p \in S : \A q \in S : q >= p
    BY <1>1, <2>1
  <2>3. reprice_best_ask(lv) = CHOOSE p \in S : \A q \in S : q >= p
    BY <1>3 DEF reprice_best_ask
  <2> HIDE DEF S
  <2>4. reprice_best_ask(lv) \in S /\ \A q \in S : q >= reprice_best_ask(lv)
    BY <2>2, <2>3
  <2> QED
    BY <1>3, <2>4 DEF S
<1> QED
  BY <1>2, <1>3

-----------------------------------------------------------------------------
(* A level with a live order is not empty. *)
HasHeads == \A h \in Live : levels[pool[h].price].head # Null

(* A level with a live order has a head: following prev from any order     *)
(* ends, because the links are grounded.                                   *)
LEMMA HeadExists == Linked /\ Grounded => HasHeads
<1> SUFFICES ASSUME Linked, Grounded, NEW h \in Live
             PROVE  levels[pool[h].price].head # Null
  BY DEF HasHeads
<1> DEFINE S == {g \in Live : pool[g].price = pool[h].price}
<1>1. PICK g \in S : pool[g].prev \notin S
  <2>1. S \in SUBSET Live /\ S # {}
    OBVIOUS
  <2> QED
    BY <2>1 DEF Grounded
<1>2. pool[g].prev = Null
  BY <1>1 DEF Linked
<1>3. levels[pool[g].price].head = g
  BY <1>1, <1>2 DEF Linked
<1> QED
  BY <1>1, <1>3, NullAssumption DEF Live

(* What the structure of the book depends on: the links, not the           *)
(* quantities.                                                             *)
SameShape(pl, lv) ==
    /\ pl \in [Handles -> Order]
    /\ lv \in [Ticks -> PriceLevel]
    /\ \A g \in Handles : /\ pl[g].prev = pool[g].prev
                          /\ pl[g].next = pool[g].next
                          /\ pl[g].id = pool[g].id
                          /\ pl[g].price = pool[g].price
                          /\ pl[g].side = pool[g].side
                          /\ pl[g].owner = pool[g].owner
    /\ \A p \in Ticks : /\ lv[p].head = levels[p].head
                        /\ lv[p].tail = levels[p].tail

(* The book at rest: types and structure, without the call in progress.    *)
BookTypes ==
    /\ levels \in [Ticks -> PriceLevel]
    /\ pool \in [Handles -> Order]
    /\ free \in SUBSET Handles
    /\ best_bid \in Ticks \cup {NoPrice}
    /\ best_ask \in Ticks \cup {NoPrice}

Structure == BookTypes /\ Linked /\ Grounded /\ BestPrices

(* Where the links of the other orders point once h is unlinked.           *)
LEMMA UnlinkLinks ==
    ASSUME Structure, NEW h \in Live, NEW pl, NEW lv, SameShape(pl, lv),
           unlink_and_free(h, pl, lv)
    PROVE  LET o == pool[h] IN
           /\ pool' \in [Handles -> Order]
           /\ levels' \in [Ticks -> PriceLevel]
           /\ Live' = Live \ {h}
           /\ h \notin {o.prev, o.next}
           /\ \A g \in Live' :
                /\ pool'[g].id = pool[g].id
                /\ pool'[g].price = pool[g].price
                /\ pool'[g].side = pool[g].side
                /\ pool'[g].owner = pool[g].owner
                /\ pool'[g].next = IF g = o.prev THEN o.next ELSE pool[g].next
                /\ pool'[g].prev = IF g = o.next THEN o.prev ELSE pool[g].prev
           /\ \A p \in Ticks :
                /\ levels'[p].head = IF p = o.price /\ o.prev = Null
                                       THEN o.next ELSE levels[p].head
                /\ levels'[p].tail = IF p = o.price /\ o.next = Null
                                       THEN o.prev ELSE levels[p].tail
<1> DEFINE o == pool[h]
<1> USE DEF Live
<1>0. /\ h \in Handles /\ pl[h] \in Order /\ pool[h] \in Order
      /\ pl[h].prev = o.prev /\ pl[h].next = o.next /\ pl[h].price = o.price
      /\ o.price \in Ticks /\ o.prev \in Link /\ o.next \in Link
      /\ pl[h].remaining \in Quantity
  BY DEF SameShape, Structure, BookTypes, Order
<1>1. h \notin {o.prev, o.next}
  <2>1. o.prev # h
    <3>1. {h} \in SUBSET Live /\ {h} # {}
      OBVIOUS
    <3> QED
      BY <3>1 DEF Structure, Grounded
  <2> QED
    BY <2>1, <1>0, NullAssumption DEF Structure, Linked
<1>2. o.prev # Null => o.prev # o.next
  <2> SUFFICES ASSUME o.prev # Null, o.prev = o.next PROVE FALSE
    OBVIOUS
  <2>1. pool[o.prev].prev = h /\ o.prev \in Live
    BY <1>0 DEF Structure, Linked
  <2>2. {h, o.prev} \in SUBSET Live /\ {h, o.prev} # {}
    BY <2>1
  <2> QED
    BY <2>1, <2>2 DEF Structure, Grounded
<1>3. /\ levels' = [lv EXCEPT ![o.price] = Spliced(lv[o.price], pl[h])]
      /\ pool' = [g \in Handles |-> Relinked(g, h, pl[h], pl)]
      /\ free' = free \cup {h}
  BY <1>0 DEF unlink_and_free, deallocate
<1>4. Live' = Live \ {h}
  BY <1>3 DEF Structure, BookTypes
<1>5. Spliced(lv[o.price], pl[h]) \in PriceLevel
  <2>1. lv[o.price] \in PriceLevel
    BY <1>0 DEF SameShape
  <2>2. (lv[o.price].total - pl[h].remaining) % QMod \in Quantity
    BY <1>0, <2>1, QModAssumption DEF PriceLevel, Quantity
  <2> QED
    BY <1>0, <2>1, <2>2 DEF Spliced, PriceLevel
<1>6. levels' \in [Ticks -> PriceLevel]
  BY <1>0, <1>3, <1>5 DEF SameShape
<1>7. \A p \in Ticks :
        /\ levels'[p].head = IF p = o.price /\ o.prev = Null
                               THEN o.next ELSE levels[p].head
        /\ levels'[p].tail = IF p = o.price /\ o.next = Null
                               THEN o.prev ELSE levels[p].tail
  BY <1>0, <1>3 DEF SameShape, Spliced
<1>8. ASSUME NEW g \in Handles
      PROVE  Relinked(g, h, pl[h], pl) \in Order
  <2>1. DefaultOrder \in Order
    BY TickRangeAssumption, QModAssumption DEF DefaultOrder, Order, Link,
       Quantity, Ticks, Side
  <2>2. pl[g] \in Order
    BY DEF SameShape
  <2> QED
    BY <1>0, <2>1, <2>2 DEF Relinked, Order
<1>9. pool' \in [Handles -> Order]
  BY <1>3, <1>8
<1>10. ASSUME NEW g \in Live'
       PROVE  /\ pool'[g].id = pool[g].id
              /\ pool'[g].price = pool[g].price
              /\ pool'[g].side = pool[g].side
              /\ pool'[g].owner = pool[g].owner
              /\ pool'[g].next = IF g = o.prev THEN o.next ELSE pool[g].next
              /\ pool'[g].prev = IF g = o.next THEN o.prev ELSE pool[g].prev
  <2>1. g \in Handles /\ g # h
    BY <1>4
  <2>2. pl[g] \in Order
    BY <2>1 DEF SameShape
  <2>3. pool'[g] = Relinked(g, h, pl[h], pl)
    BY <1>3, <2>1
  <2>4. /\ pl[g].prev = pool[g].prev /\ pl[g].next = pool[g].next
        /\ pl[g].id = pool[g].id /\ pl[g].price = pool[g].price
        /\ pl[g].side = pool[g].side /\ pl[g].owner = pool[g].owner
    BY <2>1 DEF SameShape
  <2>5. CASE g = o.prev
    <3>1. pool'[g] = [pl[g] EXCEPT !.next = o.next]
      BY <2>3, <2>1, <2>5, <1>0, <1>2, NullAssumption DEF Relinked
    <3> QED
      BY <3>1, <2>2, <2>4, <2>5, <1>2, <2>1, NullAssumption DEF Order
  <2>6. CASE g # o.prev /\ g = o.next
    <3>1. pool'[g] = [pl[g] EXCEPT !.prev = o.prev]
      BY <2>3, <2>1, <2>6, <1>0 DEF Relinked
    <3> QED
      BY <3>1, <2>2, <2>4, <2>6 DEF Order
  <2>7. CASE g # o.prev /\ g # o.next
    <3>1. pool'[g] = pl[g]
      BY <2>3, <2>1, <2>7, <1>0 DEF Relinked
    <3> QED
      BY <3>1, <2>4, <2>7
  <2> QED
    BY <2>5, <2>6, <2>7
<1> QED
  BY <1>1, <1>4, <1>6, <1>7, <1>9, <1>10

(* Linked, Grounded and BestPrices survive unlink_and_free.                *)
LEMMA UnlinkLinked ==
    ASSUME Structure, NEW h \in Live, NEW pl, NEW lv, SameShape(pl, lv),
           unlink_and_free(h, pl, lv)
    PROVE  Linked'
<1> DEFINE o == pool[h]
<1>1. /\ Live' = Live \ {h}
      /\ h \notin {o.prev, o.next}
      /\ \A g \in Live' :
           /\ pool'[g].price = pool[g].price
           /\ pool'[g].next = IF g = o.prev THEN o.next ELSE pool[g].next
           /\ pool'[g].prev = IF g = o.next THEN o.prev ELSE pool[g].prev
      /\ \A p \in Ticks :
           /\ levels'[p].head = IF p = o.price /\ o.prev = Null
                                  THEN o.next ELSE levels[p].head
           /\ levels'[p].tail = IF p = o.price /\ o.next = Null
                                  THEN o.prev ELSE levels[p].tail
  BY UnlinkLinks
<1>2. /\ Null \notin Live
      /\ \A g \in Live : pool[g].price \in Ticks /\ pool[g].prev \in Link /\ pool[g].next \in Link
  BY NullAssumption DEF Structure, BookTypes, Order, Live
<1>3. ASSUME NEW g \in Live'
      PROVE  /\ pool'[g].prev = Null => levels'[pool'[g].price].head = g
             /\ pool'[g].next = Null => levels'[pool'[g].price].tail = g
             /\ pool'[g].prev # Null => /\ pool'[g].prev \in Live'
                                        /\ pool'[pool'[g].prev].next = g
                                        /\ pool'[pool'[g].prev].price = pool'[g].price
             /\ pool'[g].next # Null => /\ pool'[g].next \in Live'
                                        /\ pool'[pool'[g].next].prev = g
                                        /\ pool'[pool'[g].next].price = pool'[g].price
  <2>1. g \in Live /\ g # h
    BY <1>1
  <2>2. /\ pool[g].prev = h <=> g = o.next
        /\ pool[g].next = h <=> g = o.prev
    BY <2>1, <1>2 DEF Structure, Linked
  <2>3. /\ pool'[g].price = pool[g].price
        /\ pool'[g].next = IF g = o.prev THEN o.next ELSE pool[g].next
        /\ pool'[g].prev = IF g = o.next THEN o.prev ELSE pool[g].prev
    BY <1>1
  <2>4. /\ o.prev = Null => levels[o.price].head = h
        /\ o.next = Null => levels[o.price].tail = h
        /\ o.prev # Null => /\ o.prev \in Live /\ pool[o.prev].next = h
                            /\ pool[o.prev].price = o.price
        /\ o.next # Null => /\ o.next \in Live /\ pool[o.next].prev = h
                            /\ pool[o.next].price = o.price
    BY DEF Structure, Linked
  <2>5. /\ pool[g].prev = Null => levels[pool[g].price].head = g
        /\ pool[g].next = Null => levels[pool[g].price].tail = g
        /\ pool[g].prev # Null => /\ pool[g].prev \in Live
                                  /\ pool[pool[g].prev].next = g
                                  /\ pool[pool[g].prev].price = pool[g].price
        /\ pool[g].next # Null => /\ pool[g].next \in Live
                                  /\ pool[pool[g].next].prev = g
                                  /\ pool[pool[g].next].price = pool[g].price
    BY <2>1 DEF Structure, Linked
  <2>6. pool'[g].prev = Null => levels'[pool'[g].price].head = g
    BY <1>1, <1>2, <2>1, <2>2, <2>3, <2>4, <2>5
  <2>7. pool'[g].next = Null => levels'[pool'[g].price].tail = g
    BY <1>1, <1>2, <2>1, <2>2, <2>3, <2>4, <2>5
  <2>8. ASSUME pool'[g].prev # Null
        PROVE  /\ pool'[g].prev \in Live'
               /\ pool'[pool'[g].prev].next = g
               /\ pool'[pool'[g].prev].price = pool'[g].price
    BY <1>1, <1>2, <2>1, <2>2, <2>3, <2>4, <2>5, <2>8
  <2>9. ASSUME pool'[g].next # Null
        PROVE  /\ pool'[g].next \in Live'
               /\ pool'[pool'[g].next].prev = g
               /\ pool'[pool'[g].next].price = pool'[g].price
    BY <1>1, <1>2, <2>1, <2>2, <2>3, <2>4, <2>5, <2>9
  <2> QED
    BY <2>6, <2>7, <2>8, <2>9
<1>4. ASSUME NEW p \in Ticks
      PROVE  /\ levels'[p].head # Null => /\ levels'[p].head \in Live'
                                          /\ pool'[levels'[p].head].price = p
                                          /\ pool'[levels'[p].head].prev = Null
             /\ levels'[p].tail # Null => /\ levels'[p].tail \in Live'
                                          /\ pool'[levels'[p].tail].price = p
                                          /\ pool'[levels'[p].tail].next = Null
             /\ levels'[p].head = Null <=> levels'[p].tail = Null
  <2>1. o.prev = Null => levels[o.price].head = h
    BY DEF Structure, Linked
  <2>2. o.next = Null => levels[o.price].tail = h
    BY DEF Structure, Linked
  <2>3. levels[p].head = h => p = o.price /\ o.prev = Null
    BY <1>2 DEF Structure, Linked
  <2>4. levels[p].tail = h => p = o.price /\ o.next = Null
    BY <1>2 DEF Structure, Linked
  <2> QED
    BY <1>1, <1>2, <2>1, <2>2, <2>3, <2>4 DEF Structure, Linked
<1> QED
  BY <1>3, <1>4 DEF Linked

(* No cycle of prev links appears when h is unlinked.                      *)
LEMMA UnlinkGrounded ==
    ASSUME Structure, NEW h \in Live, NEW pl, NEW lv, SameShape(pl, lv),
           unlink_and_free(h, pl, lv)
    PROVE  Grounded'
<1> DEFINE o == pool[h]
<1>1. /\ Live' = Live \ {h}
      /\ \A g \in Live' :
           pool'[g].prev = IF g = o.next THEN o.prev ELSE pool[g].prev
  BY UnlinkLinks
<1> SUFFICES ASSUME NEW S \in SUBSET Live', S # {}
             PROVE  \E g \in S : pool'[g].prev \notin S
  BY DEF Grounded
<1>2. S \in SUBSET Live /\ h \notin S
  BY <1>1
<1>3. \A g \in S : pool'[g].prev = IF g = o.next THEN o.prev ELSE pool[g].prev
  BY <1>1
<1>4. PICK g \in S \cup {h} : pool[g].prev \notin S \cup {h}
  <2>1. S \cup {h} \in SUBSET Live /\ S \cup {h} # {}
    BY <1>2
  <2> QED
    BY <2>1 DEF Structure, Grounded
<1>5. CASE g \in S
  <2>1. g # o.next
    BY <1>2, <1>4, <1>5, NullAssumption DEF Structure, Linked, Live
  <2> QED
    BY <1>3, <1>4, <1>5, <2>1
<1>6. CASE g = h
  <2>1. PICK k \in S : pool[k].prev \notin S
    BY <1>2 DEF Structure, Grounded
  <2> QED
    BY <1>3, <1>4, <1>6, <2>1
<1> QED
  BY <1>5, <1>6

(* HeadExists in the state after a step.                                   *)
LEMMA HeadExistsNext == Linked' /\ Grounded' => HasHeads'
BY HeadExists, PTL

(* In an uncrossed book two orders of one level are on one side.           *)
LEMMA OneSidePerLevel ==
    ASSUME Structure, NEW g \in Live, NEW h \in Live,
           pool[g].price = pool[h].price
    PROVE  pool[g].side = pool[h].side
<1>1. /\ pool[g].side \in {"Buy", "Sell"} /\ pool[h].side \in {"Buy", "Sell"}
      /\ pool[g].price \in Ticks
  BY DEF Structure, BookTypes, Order, Side, Live
<1> QED
  BY <1>1, TickRangeAssumption
     DEF Structure, BookTypes, BestPrices, OnSide, NoPrice, Ticks

(* The cached best prices are right again after unlink_and_free.           *)
LEMMA UnlinkBest ==
    ASSUME Structure, NEW h \in Live, NEW pl, NEW lv, SameShape(pl, lv),
           unlink_and_free(h, pl, lv)
    PROVE  /\ best_bid' \in Ticks \cup {NoPrice}
           /\ best_ask' \in Ticks \cup {NoPrice}
           /\ BestPrices'
<1> DEFINE o == pool[h]
<1>1. /\ Live' = Live \ {h}
      /\ \A g \in Live' : /\ pool'[g].price = pool[g].price
                          /\ pool'[g].side = pool[g].side
  BY UnlinkLinks
<1>2. Linked' /\ HasHeads'
  BY UnlinkLinked, UnlinkGrounded, HeadExistsNext
<1>3. \A g \in Live : /\ pool[g].side \in {"Buy", "Sell"}
                      /\ pool[g].price \in Ticks
  BY DEF Structure, BookTypes, Order, Side, Live
<1>4. \A g \in Live' : g \in Live /\ pool[g].price \in NonEmpty(levels')
  BY <1>1, <1>2, <1>3 DEF HasHeads, NonEmpty
<1>5. ASSUME NEW p \in NonEmpty(levels')
      PROVE  p \in Ticks /\ \E g \in Live' : pool[g].price = p
  BY <1>1, <1>2 DEF NonEmpty, Linked
<1>6. /\ best_bid \in Ticks \cup {NoPrice} /\ best_ask \in Ticks \cup {NoPrice}
      /\ \A g \in Live : pool[g].side = "Buy" => pool[g].price <= best_bid
      /\ \A g \in Live : pool[g].side = "Sell" => best_ask # NoPrice /\ best_ask <= pool[g].price
      /\ best_bid # NoPrice => \E g \in Live : pool[g].side = "Buy" /\ pool[g].price = best_bid
      /\ best_ask # NoPrice => \E g \in Live : pool[g].side = "Sell" /\ pool[g].price = best_ask
      /\ best_bid # NoPrice /\ best_ask # NoPrice => best_bid < best_ask
  BY DEF Structure, BookTypes, BestPrices, OnSide
<1> DEFINE emptied == levels'[o.price].head = Null
<1>7. /\ best_bid' = IF emptied /\ o.side = "Buy" /\ o.price = best_bid
                       THEN reprice_best_bid(levels') ELSE best_bid
      /\ best_ask' = IF emptied /\ o.side = "Sell" /\ o.price = best_ask
                       THEN reprice_best_ask(levels') ELSE best_ask
  <2>1. pl[h].side = o.side /\ pl[h].price = o.price
    BY DEF SameShape, Live
  <2> QED
    BY <2>1 DEF unlink_and_free
<1>8. ASSUME ~emptied PROVE \E g \in Live' : pool[g].price = o.price /\ pool[g].side = o.side
  <2>1. PICK g \in Live' : pool[g].price = o.price
    BY <1>5, <1>3, <1>8 DEF NonEmpty
  <2> QED
    BY <2>1, <1>1, OneSidePerLevel
<1>9. /\ best_bid' \in Ticks \cup {NoPrice} /\ best_bid' <= best_bid
      /\ \A g \in Live' : pool[g].side = "Buy" => pool[g].price <= best_bid'
      /\ best_bid' # NoPrice => \E g \in Live' : pool[g].side = "Buy" /\ pool[g].price = best_bid'
  <2>1. CASE emptied /\ o.side = "Buy" /\ o.price = best_bid
    <3> DEFINE S == {p \in NonEmpty(levels') : p <= best_bid}
    <3>1. IF S = {} THEN best_bid' = NoPrice
                    ELSE best_bid' \in S /\ \A q \in S : q <= best_bid'
      BY <1>7, <2>1, RepriceBid
    <3>2. \A g \in Live' : pool[g].side = "Buy" => pool[g].price \in S
      BY <1>4, <1>6
    <3>3. CASE S = {}
      BY <3>1, <3>2, <3>3, <1>6 DEF Ticks, NoPrice
    <3>4. CASE S # {}
      <4>1. PICK g \in Live' : pool[g].price = best_bid'
        BY <3>1, <3>4, <1>5
      <4>2. best_bid' \in Ticks /\ best_bid' <= best_bid
        BY <3>1, <3>4, <1>5
      <4>3. g \in Live /\ pool[g].side = "Buy"
        BY <4>1, <4>2, <1>1, <1>3, <1>6, <2>1 DEF Ticks, NoPrice
      <4> QED
        BY <3>1, <3>2, <3>4, <4>1, <4>2, <4>3
    <3> QED
      BY <3>3, <3>4
  <2>2. CASE ~(emptied /\ o.side = "Buy" /\ o.price = best_bid)
    <3>1. best_bid' = best_bid
      BY <1>7, <2>2
    <3>2. best_bid # NoPrice => \E g \in Live' : pool[g].side = "Buy" /\ pool[g].price = best_bid
      BY <1>1, <1>6, <1>8, <2>2
    <3> QED
      BY <3>1, <3>2, <1>1, <1>6 DEF Ticks, NoPrice
  <2> QED
    BY <2>1, <2>2
<1>10. /\ best_ask' \in Ticks \cup {NoPrice}
       /\ best_ask' # NoPrice => best_ask # NoPrice /\ best_ask <= best_ask'
       /\ \A g \in Live' : pool[g].side = "Sell" => best_ask' # NoPrice /\ best_ask' <= pool[g].price
       /\ best_ask' # NoPrice => \E g \in Live' : pool[g].side = "Sell" /\ pool[g].price = best_ask'
  <2>1. CASE emptied /\ o.side = "Sell" /\ o.price = best_ask
    <3> DEFINE S == {p \in NonEmpty(levels') : p >= best_ask}
    <3>0. best_ask \in Ticks
      BY <2>1, <1>3
    <3>1. IF S = {} THEN best_ask' = NoPrice
                    ELSE best_ask' \in S /\ \A q \in S : q >= best_ask'
      BY <1>7, <2>1, RepriceAsk
    <3>2. \A g \in Live' : pool[g].side = "Sell" => pool[g].price \in S
      BY <1>3, <1>4, <1>6, <3>0 DEF Ticks
    <3>3. CASE S = {}
      BY <3>1, <3>2, <3>3, <1>6 DEF Ticks, NoPrice
    <3>4. CASE S # {}
      <4>1. PICK g \in Live' : pool[g].price = best_ask'
        BY <3>1, <3>4, <1>5
      <4>2. best_ask' \in Ticks /\ best_ask <= best_ask'
        BY <3>0, <3>1, <3>4, <1>5 DEF Ticks
      <4>3. g \in Live /\ pool[g].side = "Sell"
        BY <3>0, <4>1, <4>2, <1>1, <1>3, <1>6, <2>1 DEF Ticks, NoPrice
      <4> QED
        BY <3>0, <3>1, <3>2, <3>4, <4>1, <4>2, <4>3 DEF Ticks, NoPrice
    <3> QED
      BY <3>3, <3>4
  <2>2. CASE ~(emptied /\ o.side = "Sell" /\ o.price = best_ask)
    <3>1. best_ask' = best_ask
      BY <1>7, <2>2
    <3>2. best_ask # NoPrice => \E g \in Live' : pool[g].side = "Sell" /\ pool[g].price = best_ask
      BY <1>1, <1>6, <1>8, <2>2
    <3> QED
      BY <3>1, <3>2, <1>1, <1>6 DEF Ticks, NoPrice
  <2> QED
    BY <2>1, <2>2
<1>11. best_bid' # NoPrice /\ best_ask' # NoPrice => best_bid' < best_ask'
  BY <1>6, <1>9, <1>10 DEF Ticks, NoPrice
<1>12. BestPrices'
  BY <1>1, <1>9, <1>10, <1>11 DEF BestPrices, OnSide
<1> QED
  BY <1>9, <1>10, <1>12

(* unlink_and_free keeps the structure, whatever happened to quantities.   *)
LEMMA UnlinkStructure ==
    ASSUME Structure, NEW h \in Live, NEW pl, NEW lv, SameShape(pl, lv),
           unlink_and_free(h, pl, lv)
    PROVE  Structure'
<1>1. BookTypes'
  <2>1. pool' \in [Handles -> Order] /\ levels' \in [Ticks -> PriceLevel]
    BY UnlinkLinks
  <2>2. free' \in SUBSET Handles
    BY DEF unlink_and_free, deallocate, Structure, BookTypes, Live
  <2> QED
    BY <2>1, <2>2, UnlinkBest DEF BookTypes
<1> QED
  BY <1>1, UnlinkLinked, UnlinkGrounded, UnlinkBest DEF Structure

(* An edit of quantities keeps the structure.                              *)
LEMMA EditStructure ==
    ASSUME Structure, SameShape(pool', levels'),
           UNCHANGED <<free, best_bid, best_ask>>
    PROVE  Structure'
<1>1. BookTypes'
  BY DEF SameShape, Structure, BookTypes
<1>2. Live' = Live /\ Live \in SUBSET Handles
  BY DEF Live
<1>3. \A p \in Ticks : levels'[p].head = levels[p].head /\ levels'[p].tail = levels[p].tail
  BY DEF SameShape
<1>4. \A g \in Handles : /\ pool'[g].prev = pool[g].prev
                         /\ pool'[g].next = pool[g].next
                         /\ pool'[g].price = pool[g].price
                         /\ pool'[g].side = pool[g].side
  BY DEF SameShape
<1>5. \A g \in Live : pool[g].price \in Ticks
  BY <1>2 DEF Structure, BookTypes, Order
<1>6. Linked'
  BY <1>2, <1>3, <1>4, <1>5 DEF Structure, Linked
<1>7. Grounded'
  BY <1>2, <1>4 DEF Structure, Grounded
<1>8. BestPrices'
  BY <1>2, <1>4 DEF Structure, BestPrices, OnSide
<1> QED
  BY <1>1, <1>6, <1>7, <1>8 DEF Structure

(* Appending an order that does not cross the book keeps the structure.    *)
LEMMA RestStructure ==
    ASSUME Structure, call.id \in Ids, call.side \in Side, call.price \in Ticks,
           call.remaining \in Quantity, call.owner \in Owners \cup {0},
           call.side = "Buy" /\ best_ask # NoPrice => call.price < best_ask,
           call.side = "Sell" /\ best_bid # NoPrice => call.price > best_bid,
           NEW h \in free,
           rest_in_slot(h, call.id, call.side, call.price, call.remaining, call.owner)
    PROVE  /\ Structure'
           /\ Live' = Live \cup {h}
           /\ pool'[h].id = call.id
           /\ \A g \in Live : pool'[g].id = pool[g].id
<1> DEFINE id == call.id
           side == call.side
           price == call.price
           qty == call.remaining
           owner == call.owner
<1> DEFINE l == levels[price]
<1> DEFINE last == IF l.head = Null THEN Null ELSE l.tail
<1>1. /\ h \in Handles /\ h \notin Live /\ Live' = Live \cup {h}
      /\ Live \in SUBSET Handles /\ Null \notin Live
      /\ free' \in SUBSET Handles
  BY NullAssumption DEF rest_in_slot, Structure, BookTypes, Live
<1>2. l \in PriceLevel /\ OldTail(l, h) = last
  BY DEF Structure, BookTypes, OldTail
<1>3. /\ last # Null <=> l.head # Null
      /\ last # Null => /\ last \in Live /\ last = l.tail
                        /\ pool[last].price = price /\ pool[last].next = Null
  BY DEF Structure, Linked
<1>4. last \in Link /\ last # h /\ h # Null
  BY <1>1, <1>3, NullAssumption DEF Link
<1> DEFINE o == [remaining |-> qty, prev |-> last, next |-> Null, id |-> id,
                 price |-> price, side |-> side, owner |-> owner]
<1>slots. pool' = [g \in Handles |-> CASE g = h    -> o
                                    [] g = last -> [pool[g] EXCEPT !.next = h]
                                    [] OTHER    -> pool[g]]
  BY <1>2 DEF rest_in_slot
<1>5. /\ pool'[h] = [remaining |-> qty, prev |-> last, next |-> Null, id |-> id,
                     price |-> price, side |-> side, owner |-> owner]
      /\ \A g \in Handles \ {h} :
           pool'[g] = IF g = last THEN [pool[g] EXCEPT !.next = h] ELSE pool[g]
  BY <1>1, <1>4, <1>slots
<1>6. /\ levels'[price] = [head |-> IF l.head = Null THEN h ELSE l.head,
                           tail |-> h, total |-> (l.total + qty) % QMod]
      /\ \A p \in Ticks \ {price} : levels'[p] = levels[p]
      /\ levels' \in [Ticks -> PriceLevel]
  <2>1. (l.total + qty) % QMod \in Quantity
    BY <1>2, QModAssumption DEF PriceLevel, Quantity
  <2> QED
    BY <1>1, <1>2, <2>1 DEF rest_in_slot, Structure, BookTypes, PriceLevel, Link
<1>7. pool' \in [Handles -> Order]
  <2>1. pool'[h] \in Order
    BY <1>4, <1>5 DEF Order, Link
  <2>2. ASSUME NEW g \in Handles \ {h} PROVE pool'[g] \in Order
    <3>1. pool[g] \in Order
      BY DEF Structure, BookTypes
    <3>2. CASE g = last
      <4>1. pool'[g] = [pool[g] EXCEPT !.next = h] /\ h \in Link
        BY <1>1, <1>5, <3>2 DEF Link
      <4> QED
        BY <3>1, <4>1 DEF Order
    <3>3. CASE g # last
      BY <1>5, <3>1, <3>3
    <3> QED
      BY <3>2, <3>3
  <2>3. pool' = [g \in Handles |-> pool'[g]]
    BY <1>slots
  <2> QED
    BY <2>1, <2>2, <2>3
<1>8. \A g \in Live : /\ g # h
                      /\ pool'[g].id = pool[g].id
                      /\ pool'[g].price = pool[g].price
                      /\ pool'[g].side = pool[g].side
                      /\ pool'[g].prev = pool[g].prev
                      /\ pool'[g].next = IF g = last THEN h ELSE pool[g].next
  <2> SUFFICES ASSUME NEW g \in Live
               PROVE  /\ g # h
                      /\ pool'[g].id = pool[g].id
                      /\ pool'[g].price = pool[g].price
                      /\ pool'[g].side = pool[g].side
                      /\ pool'[g].prev = pool[g].prev
                      /\ pool'[g].next = IF g = last THEN h ELSE pool[g].next
    OBVIOUS
  <2>1. pool[g] \in Order /\ g \in Handles \ {h}
    BY <1>1 DEF Structure, BookTypes
  <2> QED
    BY <2>1, <1>5 DEF Order
<1>9. /\ pool'[h].prev = last /\ pool'[h].next = Null /\ pool'[h].price = price
      /\ pool'[h].side = side /\ pool'[h].id = id
      /\ levels'[price].tail = h
      /\ levels'[price].head = IF l.head = Null THEN h ELSE l.head
  BY <1>5, <1>6
<1> HIDE DEF last
<1>10. Linked'
  <2>1. \A g \in Live : pool[g].price \in Ticks
    BY <1>1 DEF Structure, BookTypes, Order
  <2>2. \A g \in Live : pool[g].prev # h /\ pool[g].next # h
    BY <1>1, NullAssumption DEF Structure, Linked
  <2>3. ASSUME NEW g \in Live
        PROVE  /\ pool'[g].prev = Null => levels'[pool'[g].price].head = g
               /\ pool'[g].next = Null => levels'[pool'[g].price].tail = g
               /\ pool'[g].prev # Null => /\ pool'[g].prev \in Live'
                                          /\ pool'[pool'[g].prev].next = g
                                          /\ pool'[pool'[g].prev].price = pool'[g].price
               /\ pool'[g].next # Null => /\ pool'[g].next \in Live'
                                          /\ pool'[pool'[g].next].prev = g
                                          /\ pool'[pool'[g].next].price = pool'[g].price
    <3>1. /\ pool[g].prev = Null => levels[pool[g].price].head = g
          /\ pool[g].next = Null => levels[pool[g].price].tail = g
          /\ pool[g].prev # Null => /\ pool[g].prev \in Live
                                    /\ pool[pool[g].prev].next = g
                                    /\ pool[pool[g].prev].price = pool[g].price
          /\ pool[g].next # Null => /\ pool[g].next \in Live
                                    /\ pool[pool[g].next].prev = g
                                    /\ pool[pool[g].next].price = pool[g].price
      BY DEF Structure, Linked
    <3>2. pool[g].price = price => (l.head # Null /\ (pool[g].next = Null => g = last))
      <4>1. HasHeads
        BY HeadExists DEF Structure
      <4> QED
        BY <4>1, <3>1, <1>3 DEF HasHeads
    <3> QED
      BY <1>1, <1>3, <1>4, <1>6, <1>8, <1>9, <2>1, <2>2, <3>1, <3>2
  <2>4. /\ pool'[h].prev = Null => levels'[pool'[h].price].head = h
        /\ pool'[h].next = Null => levels'[pool'[h].price].tail = h
        /\ pool'[h].prev # Null => /\ pool'[h].prev \in Live'
                                   /\ pool'[pool'[h].prev].next = h
                                   /\ pool'[pool'[h].prev].price = pool'[h].price
        /\ pool'[h].next = Null
    BY <1>1, <1>3, <1>4, <1>8, <1>9
  <2>5. ASSUME NEW p \in Ticks
        PROVE  /\ levels'[p].head # Null => /\ levels'[p].head \in Live'
                                            /\ pool'[levels'[p].head].price = p
                                            /\ pool'[levels'[p].head].prev = Null
               /\ levels'[p].tail # Null => /\ levels'[p].tail \in Live'
                                            /\ pool'[levels'[p].tail].price = p
                                            /\ pool'[levels'[p].tail].next = Null
               /\ levels'[p].head = Null <=> levels'[p].tail = Null
    <3>1. /\ levels[p].head # Null => /\ levels[p].head \in Live
                                      /\ pool[levels[p].head].price = p
                                      /\ pool[levels[p].head].prev = Null
          /\ levels[p].tail # Null => /\ levels[p].tail \in Live
                                      /\ pool[levels[p].tail].price = p
                                      /\ pool[levels[p].tail].next = Null
          /\ levels[p].head = Null <=> levels[p].tail = Null
      BY DEF Structure, Linked
    <3>2. CASE p = price
      BY <3>1, <3>2, <1>1, <1>3, <1>4, <1>8, <1>9
    <3>3. CASE p # price
      BY <3>1, <3>3, <1>1, <1>3, <1>4, <1>6, <1>8
    <3> QED
      BY <3>2, <3>3
  <2> QED
    BY <1>1, <1>4, <2>3, <2>4, <2>5 DEF Linked
<1>11. Grounded'
  <2> SUFFICES ASSUME NEW S \in SUBSET Live', S # {}
               PROVE  \E g \in S : pool'[g].prev \notin S
    BY DEF Grounded
  <2>1. CASE S = {h}
    BY <2>1, <1>4, <1>9
  <2>2. CASE S # {h}
    <3> DEFINE T == S \ {h}
    <3>1. T \in SUBSET Live /\ T # {}
      BY <2>2, <1>1
    <3>2. PICK g \in T : pool[g].prev \notin T
      BY <3>1 DEF Structure, Grounded
    <3>3. g \in Live /\ pool[g].prev # h
      BY <3>1, <3>2, <1>1, <1>4 DEF Structure, Linked
    <3> QED
      BY <3>2, <3>3, <1>8
  <2> QED
    BY <2>1, <2>2
<1>12. BestPrices' /\ best_bid' \in Ticks \cup {NoPrice} /\ best_ask' \in Ticks \cup {NoPrice}
  <2>1. /\ best_bid \in Ticks \cup {NoPrice} /\ best_ask \in Ticks \cup {NoPrice}
        /\ \A g \in Live : pool[g].side = "Buy" => pool[g].price <= best_bid
        /\ \A g \in Live : pool[g].side = "Sell" => best_ask # NoPrice /\ best_ask <= pool[g].price
        /\ best_bid # NoPrice => \E g \in Live : pool[g].side = "Buy" /\ pool[g].price = best_bid
        /\ best_ask # NoPrice => \E g \in Live : pool[g].side = "Sell" /\ pool[g].price = best_ask
        /\ best_bid # NoPrice /\ best_ask # NoPrice => best_bid < best_ask
    BY DEF Structure, BookTypes, BestPrices, OnSide
  <2>2. \A g \in Live : pool[g].price \in Ticks
    BY <1>1 DEF Structure, BookTypes, Order
  <2>3. CASE side = "Buy"
    <3>1. /\ best_ask' = best_ask
          /\ best_bid' = IF best_bid = NoPrice \/ price > best_bid THEN price ELSE best_bid
      BY <2>3 DEF rest_in_slot
    <3> QED
      BY <1>1, <1>8, <1>9, <2>1, <2>2, <2>3, <3>1
         DEF BestPrices, OnSide, Ticks, NoPrice
  <2>4. CASE side = "Sell"
    <3>1. /\ best_bid' = best_bid
          /\ best_ask' = IF best_ask = NoPrice \/ price < best_ask THEN price ELSE best_ask
      BY <2>4 DEF rest_in_slot
    <3> QED
      BY <1>1, <1>8, <1>9, <2>1, <2>2, <2>4, <3>1
         DEF BestPrices, OnSide, Ticks, NoPrice
  <2> QED
    BY <2>3, <2>4 DEF Side
<1> QED
  BY <1>1, <1>6, <1>7, <1>8, <1>9, <1>10, <1>11, <1>12 DEF Structure, BookTypes

-----------------------------------------------------------------------------
(* The index, the call in progress and the inductive invariant.            *)

(* Removing an order from its level, its slot and the index keeps the      *)
(* index exact; no other entry is lost.                                    *)
LEMMA UnlinkIndex ==
    ASSUME Structure, IndexExact, id_index \in [Ids -> Link],
           NEW h \in Live, NEW pl, NEW lv, SameShape(pl, lv),
           unlink_and_free(h, pl, lv), id_index' = erase(pool[h].id)
    PROVE  /\ IndexExact'
           /\ id_index' \in [Ids -> Link]
           /\ id_index'[pool[h].id] = Null
           /\ \A i \in Ids : id_index[i] = Null => id_index'[i] = Null
<1>1. Live' = Live \ {h} /\ \A g \in Live' : pool'[g].id = pool[g].id
  BY UnlinkLinks
<1>2. pool[h].id \in Ids
  BY DEF IndexExact
<1>3. id_index' = [id_index EXCEPT ![pool[h].id] = Null]
  BY DEF erase
<1> QED
  BY <1>1, <1>2, <1>3 DEF IndexExact, Link

(* Resting an order with a fresh id keeps the index exact.                 *)
LEMMA RestIndex ==
    ASSUME IndexExact, id_index \in [Ids -> Link], free \in SUBSET Handles,
           NEW id \in Ids, id_index[id] = Null, NEW h \in free,
           Live' = Live \cup {h}, pool'[h].id = id,
           \A g \in Live : pool'[g].id = pool[g].id,
           id_index' = [id_index EXCEPT ![id] = h]
    PROVE  IndexExact' /\ id_index' \in [Ids -> Link]
<1>1. h \notin Live /\ h \in Handles /\ h # Null
  BY NullAssumption DEF Live
<1>2. \A g \in Live : pool[g].id # id /\ g # Null
  BY NullAssumption DEF IndexExact, Live
<1> QED
  BY <1>1, <1>2 DEF IndexExact, Link

(* The part of the type invariant that is about the call in progress.      *)
ClientTypes ==
    /\ pc \in {"idle", "sweep", "done"}
    /\ call \in Call
    /\ (call.type = "Limit" => call.price \in Ticks)
    /\ (pc = "sweep" => call.id \in Ids)
    /\ res \in ExecResult
    /\ trade \in Trade \cup {NoTrade}

(* The type invariant splits into the book, the index and the client.      *)
LEMMA TypeSplit == TypeOK <=> BookTypes /\ id_index \in [Ids -> Link] /\ ClientTypes
BY DEF TypeOK, BookTypes, ClientTypes

(* The same in the state after a step.                                     *)
LEMMA TypeSplitNext ==
    TypeOK' <=> BookTypes' /\ id_index' \in [Ids -> Link] /\ ClientTypes'
BY DEF TypeOK, BookTypes, ClientTypes

(* Every call a client starts is well formed.                              *)
LEMMA CallTypes ==
    /\ NoCall \in Call /\ EmptyResult \in ExecResult
    /\ NoCall.type = "Limit" => NoCall.price \in Ticks
    /\ \A op \in {"cancel", "modify"}, id \in Ids :
         /\ CancelCall(op, id) \in Call
         /\ CancelCall(op, id).price \in Ticks
    /\ \A op \in {"submit", "modify"}, id \in Ids, side \in Side,
          type \in OrderType, price \in AnyPrice, qty \in Quantities,
          owner \in Owners \cup {0} :
         /\ SubmitCall(op, id, side, type, price, qty, owner) \in Call
<1> USE QModAssumption, TickRangeAssumption, QuantitiesAssumption
<1>1. NoCall \in Call /\ NoCall.price \in Ticks /\ EmptyResult \in ExecResult
  BY DEF NoCall, Call, EmptyResult, ExecResult, Ticks, Quantity, Side, OrderType,
         AnyPrice, NoPrice
<1>2. ASSUME NEW op \in {"cancel", "modify"}, NEW id \in Ids
      PROVE  CancelCall(op, id) \in Call /\ CancelCall(op, id).price \in Ticks
  BY <1>1 DEF CancelCall, Call
<1>3. ASSUME NEW op \in {"submit", "modify"}, NEW id \in Ids, NEW side \in Side,
             NEW type \in OrderType, NEW price \in AnyPrice,
             NEW qty \in Quantities, NEW owner \in Owners \cup {0}
      PROVE  SubmitCall(op, id, side, type, price, qty, owner) \in Call
  BY DEF SubmitCall, Call, Quantity
<1> QED
  BY <1>1, <1>2, <1>3

(* A price a client may pass with a type is a price; a Limit price is a    *)
(* tick.                                                                   *)
LEMMA CallPriceTypes ==
    ASSUME NEW type \in OrderType, NEW price \in CallPrices(type)
    PROVE  price \in AnyPrice /\ (type = "Limit" => price \in Ticks)
BY TickRangeAssumption DEF CallPrices, AnyPrice, Ticks, NoPrice, OrderType

(* The book parts of the invariant hold again when no variable of the book *)
(* changed.                                                                *)
LEMMA SameBook ==
    ASSUME BookInv, UNCHANGED book
    PROVE  Structure' /\ IndexExact' /\ id_index' \in [Ids -> Link]
BY DEF BookInv, TypeOK, book, Structure, BookTypes, Linked, Grounded, BestPrices,
       OnSide, IndexExact, Live

(* The invariant as the lemmas above need it.                              *)
LEMMA InvParts ==
    ASSUME BookInv
    PROVE  /\ Structure /\ IndexExact /\ id_index \in [Ids -> Link] /\ ClientTypes
           /\ SweepSound /\ SameShape(pool, levels)
BY TypeSplit DEF BookInv, Structure, SameShape, BookTypes

(* The parts put together again after a step.                              *)
LEMMA InvFromParts ==
    ASSUME Structure', IndexExact', id_index' \in [Ids -> Link], ClientTypes',
           SweepSound'
    PROVE  BookInv'
BY TypeSplitNext DEF BookInv, Structure

(* The initial book satisfies the invariant.                               *)
LEMMA InitBookInv == Init => BookInv
<1> SUFFICES ASSUME Init PROVE BookInv
  OBVIOUS
<1> USE QModAssumption, TickRangeAssumption DEF Init
<1>1. DefaultOrder \in Order
  BY DEF DefaultOrder, Order, Link, Quantity, Ticks, Side
<1>2. TypeOK
  <2>1. BookTypes
    BY <1>1 DEF BookTypes, PriceLevel, Link, Quantity, Ticks
  <2>2. ClientTypes
    BY CallTypes DEF ClientTypes
  <2>3. id_index \in [Ids -> Link]
    BY DEF Link
  <2> QED
    BY <2>1, <2>2, <2>3, TypeSplit
<1>3. Live = {}
  BY DEF Live
<1>4. Linked /\ Grounded /\ IndexExact /\ SweepSound
  BY <1>3 DEF Linked, Grounded, IndexExact, SweepSound
<1>5. BestPrices
  BY <1>3 DEF BestPrices, OnSide
<1> QED
  BY <1>2, <1>4, <1>5 DEF BookInv

(* The step that answers a call leaves a well-formed client.               *)
LEMMA AnswerClient ==
    ASSUME NEW c \in Call, NEW r \in ExecResult, Answer(c, r),
           c.type = "Limit" => c.price \in Ticks
    PROVE  ClientTypes' /\ SweepSound'
BY DEF Answer, ClientTypes, SweepSound

(* The step that starts a sweep leaves a well-formed client.               *)
LEMMA SweepClient ==
    ASSUME NEW c \in Call, StartSweep(c), c.type = "Limit" => c.price \in Ticks,
           c.id \in Ids, id_index'[c.id] = Null, c.filled + c.remaining = c.qty
    PROVE  ClientTypes' /\ SweepSound'
BY CallTypes DEF StartSweep, ClientTypes, SweepSound

(* submit up to the sweep.                                                 *)
LEMMA SubmitInv ==
    ASSUME BookInv, NEW id \in Ids, NEW side \in Side, NEW type \in OrderType,
           NEW qty \in Quantities, NEW owner \in Owners,
           NEW price \in CallPrices(type),
           submit(id, side, type, price, qty, owner)
    PROVE  BookInv'
<1> DEFINE c == SubmitCall("submit", id, side, type, price, qty, owner)
<1>1. c \in Call /\ (c.type = "Limit" => c.price \in Ticks)
  BY CallTypes, CallPriceTypes DEF SubmitCall
<1>2. c.id = id /\ c.filled + c.remaining = c.qty
  BY QuantitiesAssumption, QModAssumption DEF SubmitCall
<1>3. [EmptyResult EXCEPT !.id = id] \in ExecResult
  BY CallTypes DEF ExecResult
<1>4. Structure' /\ IndexExact' /\ id_index' \in [Ids -> Link] /\ id_index' = id_index
  BY SameBook DEF submit, book
<1>5. CASE Answer(c, [EmptyResult EXCEPT !.id = id])
  BY <1>1, <1>3, <1>4, <1>5, AnswerClient, InvFromParts
<1>6. CASE StartSweep(c)
  <2>1. id_index'[c.id] = Null
    BY <1>2, <1>4 DEF submit
  <2> QED
    BY <1>1, <1>2, <1>4, <1>6, <2>1, SweepClient, InvFromParts
<1> QED
  BY <1>5, <1>6 DEF submit

(* The live slot of an id, and the order an edit or an unlink works on.    *)
LEMMA IndexedOrder ==
    ASSUME BookInv, NEW id \in Ids, id_index[id] # Null
    PROVE  /\ id_index[id] \in Live /\ id_index[id] \in Handles
           /\ pool[id_index[id]] \in Order /\ pool[id_index[id]].id = id
BY InvParts DEF IndexExact, Structure, BookTypes, Live

(* Unlinking the order of an id and erasing the id.                        *)
LEMMA RemoveById ==
    ASSUME BookInv, NEW id \in Ids, id_index[id] # Null,
           unlink_and_free(id_index[id], pool, levels), id_index' = erase(id)
    PROVE  /\ Structure' /\ IndexExact' /\ id_index' \in [Ids -> Link]
           /\ id_index'[id] = Null
BY InvParts, IndexedOrder, UnlinkStructure, UnlinkIndex

(* cancel.                                                                 *)
LEMMA CancelInv ==
    ASSUME BookInv, NEW id \in Ids, cancel(id)
    PROVE  BookInv'
<1> DEFINE c == CancelCall("cancel", id)
<1>1. c \in Call /\ c.price \in Ticks
  BY CallTypes
<1>2. EmptyResult \in ExecResult /\ [EmptyResult EXCEPT !.accepted = TRUE] \in ExecResult
  BY CallTypes DEF ExecResult
<1>3. ClientTypes' /\ SweepSound'
  BY <1>1, <1>2, AnswerClient DEF cancel
<1>4. Structure' /\ IndexExact' /\ id_index' \in [Ids -> Link]
  BY SameBook, RemoveById DEF cancel
<1> QED
  BY <1>3, <1>4, InvFromParts

(* modify, in each of its four cases.                                      *)
LEMMA ModifyInv ==
    ASSUME BookInv, NEW id \in Ids, NEW price \in Ticks, NEW qty \in Quantities,
           modify(id, price, qty)
    PROVE  BookInv'
<1> DEFINE h == id_index[id]
           o == pool[h]
           d == CancelCall("modify", id)
           c == SubmitCall("modify", id, o.side, "Limit", price, qty, o.owner)
           accepted == [EmptyResult EXCEPT !.id = id, !.accepted = TRUE]
<1>1. d \in Call /\ d.price \in Ticks
  BY CallTypes
<1>2. qty \in Quantity
  BY QuantitiesAssumption DEF Quantity
<1>3. EmptyResult \in ExecResult /\ accepted \in ExecResult
      /\ [accepted EXCEPT !.resting = qty] \in ExecResult
  BY CallTypes, <1>2 DEF ExecResult
<1>4. ASSUME h # Null
      PROVE  /\ c \in Call /\ c.price \in Ticks /\ c.id = id
             /\ c.filled + c.remaining = c.qty
  <2>1. o.side \in Side /\ o.owner \in Owners \cup {0}
    BY <1>4, IndexedOrder DEF Order
  <2>2. price \in AnyPrice
    BY TickRangeAssumption DEF Ticks, AnyPrice, NoPrice
  <2>3. c \in Call
    BY <2>1, <2>2, CallTypes DEF OrderType
  <2>4. c.price = price /\ c.id = id /\ c.filled = 0 /\ c.remaining = qty /\ c.qty = qty
    BY DEF SubmitCall
  <2> QED
    BY <1>2, <2>3, <2>4, QModAssumption DEF Quantity
<1>5. CASE h = Null /\ Answer(d, EmptyResult) /\ UNCHANGED book
  BY <1>1, <1>3, <1>5, AnswerClient, SameBook, InvFromParts
<1>6. CASE /\ h # Null
           /\ unlink_and_free(h, pool, levels)
           /\ id_index' = erase(id)
           /\ Answer(d, accepted)
  BY <1>1, <1>3, <1>6, AnswerClient, RemoveById, InvFromParts
<1>7. CASE /\ h # Null
           /\ qty <= o.remaining
           /\ pool' = [pool EXCEPT ![h].remaining = qty]
           /\ levels' = [levels EXCEPT ![o.price].total =
                            (@ - (o.remaining - qty)) % QMod]
           /\ UNCHANGED <<free, id_index, best_bid, best_ask>>
           /\ Answer(c, [accepted EXCEPT !.resting = qty])
  <2>1. /\ h \in Handles /\ o \in Order
        /\ pool \in [Handles -> Order] /\ levels \in [Ticks -> PriceLevel]
    BY <1>7, IndexedOrder, InvParts DEF Structure, BookTypes
  <2>2. o.price \in Ticks /\ o.remaining \in Quantity
    BY <2>1 DEF Order
  <2>3. (levels[o.price].total - (o.remaining - qty)) % QMod \in Quantity
    BY <1>2, <2>1, <2>2, QModAssumption DEF PriceLevel, Quantity
  <2>4. SameShape(pool', levels')
    BY <1>2, <1>7, <2>1, <2>2, <2>3 DEF SameShape, Order, PriceLevel
  <2>5. Structure'
    BY <1>7, <2>4, InvParts, EditStructure
  <2>6. IndexExact' /\ id_index' \in [Ids -> Link]
    <3>1. /\ Live' = Live /\ id_index' = id_index
          /\ \A g \in Live : pool'[g].id = pool[g].id
      BY <1>7, <2>4 DEF SameShape, Live
    <3>2. IndexExact /\ id_index \in [Ids -> Link]
      BY InvParts
    <3> QED
      BY <3>1, <3>2 DEF IndexExact
  <2> QED
    BY <1>3, <1>4, <1>7, <2>5, <2>6, AnswerClient, InvFromParts
<1>8. CASE /\ h # Null
           /\ unlink_and_free(h, pool, levels)
           /\ id_index' = erase(id)
           /\ StartSweep(c)
  BY <1>4, <1>8, SweepClient, RemoveById, InvFromParts
<1> QED
  BY <1>5, <1>6, <1>7, <1>8 DEF modify

(* A sweep that crosses meets a live order of the opposite side.           *)
LEMMA MeetsLive ==
    ASSUME BookInv, Crosses(call, OppositeBest)
    PROVE  Meets \in Live /\ Meets \in Handles /\ pool[Meets] \in Order
<1>1. Structure /\ OppositeBest # NoPrice
  BY InvParts DEF Crosses
<1>2. \E h \in Live : pool[h].price = OppositeBest
  BY <1>1 DEF Structure, BestPrices, OnSide, OppositeBest
<1>3. HasHeads
  BY <1>1, HeadExists DEF Structure
<1>4. OppositeBest \in Ticks
  BY <1>1 DEF Structure, BookTypes, OppositeBest
<1>5. Meets # Null
  BY <1>2, <1>3 DEF HasHeads, Meets
<1>6. Meets \in Live
  BY <1>1, <1>4, <1>5 DEF Structure, Linked, Meets
<1> QED
  BY <1>1, <1>6 DEF Structure, BookTypes, Live

(* One trade of the sweep.                                                 *)
LEMMA MatchInv ==
    ASSUME BookInv, match
    PROVE  BookInv'
<1> DEFINE h == Meets
           o == pool[h]
           traded == Lesser(call.remaining, o.remaining)
           pool1 == [pool EXCEPT ![h].remaining = @ - traded]
           levels1 == [levels EXCEPT ![o.price].total = (@ - traded) % QMod]
<1>1. /\ h \in Live /\ h \in Handles /\ o \in Order
      /\ Structure /\ IndexExact /\ id_index \in [Ids -> Link] /\ ClientTypes /\ SweepSound
  BY MeetsLive, InvParts DEF match, Matches
<1>2. /\ pc = "sweep" /\ pc' = "sweep" /\ res' = res
      /\ call' = [call EXCEPT !.remaining = @ - traded, !.filled = @ + traded]
      /\ trade' = [resting_id |-> o.id, incoming_id |-> call.id,
                   price |-> o.price, quantity |-> traded]
  BY DEF match
<1>3. /\ o.price \in Ticks /\ o.remaining \in Quantity /\ o.id \in Ids
      /\ call \in Call /\ call.remaining \in Quantity /\ call.filled \in Quantity
      /\ call.qty \in Quantity /\ call.id \in Ids
      /\ call.filled + call.remaining = call.qty
  BY <1>1, <1>2 DEF Order, IndexExact, ClientTypes, Call, SweepSound
<1>4. /\ traded \in Quantity /\ o.remaining - traded \in Quantity
      /\ call.remaining - traded \in Quantity /\ call.filled + traded \in Quantity
      /\ (call.filled + traded) + (call.remaining - traded) = call.qty
  BY <1>3, QModAssumption DEF Lesser, Quantity
<1> HIDE DEF traded
<1>5. /\ call' \in Call
      /\ call'.id = call.id /\ call'.type = call.type /\ call'.price = call.price
      /\ call'.filled + call'.remaining = call'.qty
  BY <1>2, <1>3, <1>4 DEF Call
<1>6. trade' \in Trade
  BY <1>2, <1>3, <1>4 DEF Trade
<1>7. ClientTypes'
  BY <1>1, <1>2, <1>3, <1>5, <1>6 DEF ClientTypes
<1>8. SameShape(pool1, levels1)
  <2>1. pool \in [Handles -> Order] /\ levels \in [Ticks -> PriceLevel]
    BY <1>1 DEF Structure, BookTypes
  <2>2. (levels[o.price].total - traded) % QMod \in Quantity
    BY <1>3, <1>4, <2>1, QModAssumption DEF PriceLevel, Quantity
  <2> QED
    BY <1>1, <1>3, <1>4, <2>1, <2>2 DEF SameShape, Order, PriceLevel
<1>9. CASE unlink_and_free(h, pool1, levels1) /\ id_index' = erase(o.id)
  <2>1. Structure' /\ IndexExact' /\ id_index' \in [Ids -> Link]
        /\ (\A i \in Ids : id_index[i] = Null => id_index'[i] = Null)
    BY <1>1, <1>8, <1>9, UnlinkStructure, UnlinkIndex
  <2>2. SweepSound'
    BY <1>1, <1>2, <1>3, <1>5, <2>1 DEF SweepSound
  <2> QED
    BY <1>7, <2>1, <2>2, InvFromParts
<1>10. CASE pool' = pool1 /\ levels' = levels1
            /\ UNCHANGED <<free, id_index, best_bid, best_ask>>
  <2>1. Structure'
    BY <1>1, <1>8, <1>10, EditStructure
  <2>2. IndexExact' /\ id_index' \in [Ids -> Link]
    BY <1>1, <1>8, <1>10 DEF SameShape, IndexExact, Live, Structure, BookTypes
  <2>3. SweepSound'
    BY <1>1, <1>2, <1>5, <1>10 DEF SweepSound
  <2> QED
    BY <1>7, <2>1, <2>2, <2>3, InvFromParts
<1> QED
  BY <1>9, <1>10 DEF match, traded

(* The end of submit: the remainder rests only where it does not cross.    *)
LEMMA FinishInv ==
    ASSUME BookInv, finish_submit
    PROVE  BookInv'
<1>1. /\ Structure /\ IndexExact /\ id_index \in [Ids -> Link] /\ ClientTypes
      /\ SweepSound /\ pc = "sweep"
  BY InvParts DEF finish_submit
<1>2. /\ call \in Call /\ call.id \in Ids /\ call.side \in Side
      /\ call.remaining \in Quantity /\ call.filled \in Quantity
      /\ call.owner \in Owners \cup {0} /\ 0 \in Quantity
      /\ (call.type = "Limit" => call.price \in Ticks)
      /\ id_index[call.id] = Null
  BY <1>1, QModAssumption DEF ClientTypes, SweepSound, Call, Quantity
<1>3. SubmitResult \in ExecResult
  BY <1>2 DEF SubmitResult, ExecResult
<1>4. ClientTypes' /\ SweepSound'
  BY <1>2, <1>3, AnswerClient DEF finish_submit
<1>5. CASE UNCHANGED book
  BY <1>4, <1>5, SameBook, InvFromParts
<1>6. ASSUME Rests, NEW h \in free,
             rest_in_slot(h, call.id, call.side, call.price, call.remaining, call.owner)
      PROVE  BookInv'
  <2>1. /\ call.price \in Ticks /\ call.type = "Limit"
        /\ best_bid \in Ticks \cup {NoPrice} /\ best_ask \in Ticks \cup {NoPrice}
        /\ free \in SUBSET Handles
    BY <1>1, <1>2, <1>6 DEF Rests, Structure, BookTypes
  <2>2. /\ call.side = "Buy" /\ best_ask # NoPrice => call.price < best_ask
        /\ call.side = "Sell" /\ best_bid # NoPrice => call.price > best_bid
    BY <1>6, <2>1 DEF Rests, Crosses, LimitPrice, OppositeBest, Ticks, NoPrice
  <2>3. /\ Structure' /\ Live' = Live \cup {h} /\ pool'[h].id = call.id
        /\ \A g \in Live : pool'[g].id = pool[g].id
    BY <1>1, <1>2, <1>6, <2>1, <2>2, RestStructure
  <2>4. id_index' = [id_index EXCEPT ![call.id] = h]
    BY <1>6 DEF rest_in_slot
  <2>5. IndexExact' /\ id_index' \in [Ids -> Link]
    BY <1>1, <1>2, <2>1, <2>3, <2>4, RestIndex
  <2> QED
    BY <1>4, <2>3, <2>5, InvFromParts
<1> QED
  BY <1>5, <1>6 DEF finish_submit, rest_order

(* The return of a call.                                                   *)
LEMMA ReturnInv ==
    ASSUME BookInv, return
    PROVE  BookInv'
<1>1. ClientTypes' /\ SweepSound'
  BY CallTypes DEF return, ClientTypes, SweepSound
<1>2. Structure' /\ IndexExact' /\ id_index' \in [Ids -> Link]
  BY SameBook DEF return
<1> QED
  BY <1>1, <1>2, InvFromParts

(* A step that changes nothing.                                            *)
LEMMA StutterInv ==
    ASSUME BookInv, UNCHANGED vars
    PROVE  BookInv'
<1>1. Structure' /\ IndexExact' /\ id_index' \in [Ids -> Link]
  BY SameBook DEF vars, book
<1>2. ClientTypes' /\ SweepSound'
  BY InvParts DEF vars, ClientTypes, SweepSound
<1> QED
  BY <1>1, <1>2, InvFromParts

(* The inductive invariant holds in every reachable state of the book, for *)
(* every number of ticks, slots and identifiers.                           *)
THEOREM BookSafety == Spec => []BookInv
<1>1. BookInv /\ [Next]_vars => BookInv'
  <2> SUFFICES ASSUME BookInv, [Next]_vars PROVE BookInv'
    OBVIOUS
  <2>1. CASE Submit
    BY <2>1, SubmitInv DEF Submit
  <2>2. CASE match
    BY <2>2, MatchInv
  <2>3. CASE finish_submit
    BY <2>3, FinishInv
  <2>4. CASE Cancel
    BY <2>4, CancelInv DEF Cancel
  <2>5. CASE Modify
    BY <2>5, ModifyInv DEF Modify
  <2>6. CASE return
    BY <2>6, ReturnInv
  <2>7. CASE UNCHANGED vars
    BY <2>7, StutterInv
  <2> QED
    BY <2>1, <2>2, <2>3, <2>4, <2>5, <2>6, <2>7 DEF Next
<1> QED
  BY <1>1, InitBookInv, PTL DEF Spec

(* Every variable keeps its type; in particular no quantity underflows and *)
(* the best prices stay representable or absent.                           *)
THEOREM TypeCorrect == Spec => []TypeOK
BY BookSafety, PTL DEF BookInv

(* The intrusive lists of the levels stay well linked and acyclic.         *)
THEOREM ListsSound == Spec => [](Linked /\ Grounded)
BY BookSafety, PTL DEF BookInv

(* The links of a level form no cycle, so every walk along them ends.      *)
THEOREM GroundedSound == Spec => []Grounded
BY BookSafety, PTL DEF BookInv

(* The id index names exactly the live slots.                              *)
THEOREM IndexSound == Spec => []IndexExact
BY BookSafety, PTL DEF BookInv

(* The cached best prices are the best prices and the book never crosses.  *)
THEOREM BestSound == Spec => []BestPrices
BY BookSafety, PTL DEF BookInv

-----------------------------------------------------------------------------
(* What a call reports of the quantity it was given. *)

(* A modify that resubmits gave a slot back, and its sweep takes none: so  *)
(* there is room for what rests at the end.                                *)
RoomForModify == pc = "sweep" /\ call.op = "modify" => free # {}

(* unlink_and_free makes room.                                             *)
LEMMA UnlinkMakesRoom ==
    ASSUME NEW h, NEW pl, NEW lv, unlink_and_free(h, pl, lv)
    PROVE  free' # {}
BY DEF unlink_and_free, deallocate

(* The slot that a resubmitting modify gave back is there until its sweep  *)
(* has ended.                                                              *)
LEMMA NextRoom == RoomForModify /\ [Next]_vars => RoomForModify'
<1> SUFFICES ASSUME RoomForModify, [Next]_vars, pc' = "sweep", call'.op = "modify"
             PROVE  free' # {}
  BY DEF RoomForModify
<1>1. CASE Submit
  BY <1>1 DEF Submit, submit, Answer, StartSweep, SubmitCall
<1>2. CASE match
  <2>1. pc = "sweep" /\ call.op = "modify"
    BY <1>2 DEF match
  <2> QED
    BY <1>2, <2>1, UnlinkMakesRoom DEF match, RoomForModify
<1>3. CASE finish_submit \/ Cancel \/ return
  BY <1>3 DEF finish_submit, Cancel, cancel, return, Answer
<1>4. CASE Modify
  BY <1>4, UnlinkMakesRoom DEF Modify, modify, Answer
<1>5. CASE UNCHANGED vars
  BY <1>5 DEF vars, RoomForModify
<1> QED
  BY <1>1, <1>2, <1>3, <1>4, <1>5 DEF Next

(* A modify in place and a modify that resubmits both leave what they      *)
(* report in the book.                                                     *)
LEMMA NextModify ==
    BookInv /\ RoomForModify /\ ModifyKeepsOrder /\ [Next]_vars => ModifyKeepsOrder'
<1> SUFFICES ASSUME BookInv, RoomForModify, ModifyKeepsOrder, [Next]_vars,
                    pc' = "done", call'.op = "modify", res'.resting > 0
             PROVE  RestsInBook(call.id, res.resting)'
  BY DEF ModifyKeepsOrder
<1>1. CASE Submit
  BY <1>1 DEF Submit, submit, Answer, StartSweep, SubmitCall
<1>2. CASE match \/ Cancel \/ return
  BY <1>2 DEF match, Cancel, cancel, return, Answer, CancelCall, NoCall
<1>3. CASE finish_submit
  <2>1. /\ pc = "sweep" /\ call' = call /\ res' = SubmitResult
    BY <1>3 DEF finish_submit, Answer
  <2>2. Rests /\ res'.resting = call.remaining
    BY <2>1 DEF SubmitResult
  <2>3. free # {}
    BY <2>1 DEF RoomForModify
  <2>4. PICK h \in free : rest_in_slot(h, call.id, call.side, call.price,
                                       call.remaining, call.owner)
    BY <1>3, <2>2, <2>3 DEF finish_submit, rest_order
  <2>5. h \in Handles /\ call.id \in Ids /\ id_index \in [Ids -> Link]
    BY <2>1, InvParts DEF Structure, BookTypes, ClientTypes
  <2>6. id_index'[call.id] = h
    BY <2>4, <2>5 DEF rest_in_slot
  <2>7. pool'[h].remaining = call.remaining
    <3> DEFINE o == [remaining |-> call.remaining,
                     prev |-> OldTail(levels[call.price], h), next |-> Null,
                     id |-> call.id, price |-> call.price, side |-> call.side,
                     owner |-> call.owner]
    <3>1. call.price \in Ticks /\ call.type = "Limit"
      BY <2>1, <2>2, InvParts DEF Rests, ClientTypes
    <3>2. OldTail(levels[call.price], h) # h
      BY <2>5, <3>1, InvParts, NullAssumption
         DEF OldTail, Structure, Linked, Live
    <3>3. pool' = [g \in Handles |->
                     CASE g = h -> o
                       [] g = OldTail(levels[call.price], h) -> [pool[g] EXCEPT !.next = h]
                       [] OTHER -> pool[g]]
      BY <2>4 DEF rest_in_slot
    <3>4. pool'[h] = o
      BY <2>5, <3>2, <3>3
    <3> QED
      BY <3>4
  <2> QED
    BY <2>1, <2>2, <2>5, <2>6, <2>7, NullAssumption DEF RestsInBook
<1>4. CASE Modify
  <2>1. PICK id \in Ids, price \in Ticks, qty \in Quantities : modify(id, price, qty)
    BY <1>4 DEF Modify
  <2>2. CASE id_index[id] = Null \/ qty = 0
    <3> DEFINE accepted == [EmptyResult EXCEPT !.id = id, !.accepted = TRUE]
    <3>1. res' \in {EmptyResult, accepted}
      BY <2>1, <2>2 DEF modify, Answer, StartSweep
    <3>2. EmptyResult.resting = 0 /\ accepted.resting = 0
      BY DEF EmptyResult
    <3> HIDE DEF accepted
    <3> QED
      BY <3>1, <3>2
  <2>3. CASE /\ id_index[id] # Null /\ qty # 0
             /\ price = pool[id_index[id]].price /\ qty <= pool[id_index[id]].remaining
    <3>1. /\ pool' = [pool EXCEPT ![id_index[id]].remaining = qty]
          /\ id_index' = id_index
          /\ call' = SubmitCall("modify", id, pool[id_index[id]].side, "Limit", price,
                                qty, pool[id_index[id]].owner)
          /\ res' = [[EmptyResult EXCEPT !.id = id, !.accepted = TRUE]
                        EXCEPT !.resting = qty]
      BY <2>1, <2>3 DEF modify, Answer, StartSweep
    <3>3. call'.id = id /\ res'.resting = qty
      BY <3>1 DEF SubmitCall, EmptyResult
    <3>2. id_index[id] \in Handles /\ pool \in [Handles -> Order]
          /\ pool[id_index[id]] \in Order
      BY <2>3, IndexedOrder, InvParts DEF Structure, BookTypes
    <3> QED
      BY <2>3, <3>1, <3>2, <3>3 DEF RestsInBook, Order
  <2>4. CASE /\ id_index[id] # Null /\ qty # 0
             /\ price # pool[id_index[id]].price \/ ~(qty <= pool[id_index[id]].remaining)
    BY <2>1, <2>4 DEF modify, StartSweep
  <2> QED
    BY <2>2, <2>3, <2>4
<1>5. CASE UNCHANGED vars
  BY <1>5 DEF vars, ModifyKeepsOrder, RestsInBook
<1> QED
  BY <1>1, <1>2, <1>3, <1>4, <1>5 DEF Next

(* The end of a sweep drops quantity of a Limit order only at an order of  *)
(* the same owner.                                                         *)
LEMMA NextDropped ==
    BookInv /\ DroppedOnlyBySelfTrade /\ [Next]_vars => DroppedOnlyBySelfTrade'
<1> SUFFICES ASSUME BookInv, DroppedOnlyBySelfTrade, [Next]_vars,
                    pc' = "done", call'.type = "Limit", res'.accepted,
                    res'.filled + res'.resting < call'.qty
             PROVE  /\ Crosses(call, OppositeBest)'
                    /\ SelfTrade(call.owner, pool[Meets].owner)'
  BY DEF DroppedOnlyBySelfTrade
<1>1. CASE Submit
  BY <1>1 DEF Submit, submit, Answer, StartSweep, EmptyResult
<1>2. CASE match \/ return
  BY <1>2 DEF match, return
<1>6. CASE Cancel
  <2>1. PICK id \in Ids : cancel(id)
    BY <1>6 DEF Cancel
  <2>2. /\ call' = CancelCall("cancel", id)
        /\ res' = EmptyResult \/ res' = [EmptyResult EXCEPT !.accepted = TRUE]
    BY <2>1 DEF cancel, Answer
  <2>3. call'.qty = 0 /\ res'.filled = 0 /\ res'.resting = 0
    BY <2>2 DEF CancelCall, NoCall, EmptyResult
  <2> QED
    BY <2>3
<1>3. CASE finish_submit
  <2>1. /\ pc = "sweep" /\ call' = call /\ res' = SubmitResult /\ ~Matches
    BY <1>3 DEF finish_submit, Answer
  <2>2. /\ call.remaining \in Quantity /\ call.filled \in Quantity
        /\ call.filled + call.remaining = call.qty
    BY <2>1, InvParts DEF ClientTypes, SweepSound, Call
  <2>3. ~Rests /\ call.remaining > 0 /\ call.type = "Limit"
    BY <2>1, <2>2 DEF SubmitResult, Quantity
  <2>4. Crosses(call, OppositeBest) /\ SelfTrade(call.owner, pool[Meets].owner)
    BY <2>1, <2>3 DEF Rests, Matches
  <2>5. UNCHANGED book
    BY <1>3, <2>3 DEF finish_submit
  <2> QED
    BY <2>1, <2>4, <2>5 DEF book, Crosses, OppositeBest, Meets, LimitPrice
<1>4. CASE Modify
  <2>1. PICK id \in Ids, price \in Ticks, qty \in Quantities : modify(id, price, qty)
    BY <1>4 DEF Modify
  <2>2. qty \in Int
    BY QuantitiesAssumption
  <2> DEFINE o == pool[id_index[id]]
             c == SubmitCall("modify", id, o.side, "Limit", price, qty, o.owner)
             accepted == [EmptyResult EXCEPT !.id = id, !.accepted = TRUE]
  <2>3. \/ call' = CancelCall("modify", id) /\ res' \in {EmptyResult, accepted}
        \/ call' = c /\ res' = [accepted EXCEPT !.resting = qty]
    BY <2>1 DEF modify, Answer, StartSweep
  <2>4. EmptyResult.filled = 0 /\ EmptyResult.resting = 0
        /\ accepted.filled = 0 /\ accepted.resting = 0
        /\ [accepted EXCEPT !.resting = qty].filled = 0
        /\ [accepted EXCEPT !.resting = qty].resting = qty
    BY DEF EmptyResult
  <2>5. CancelCall("modify", id).qty = 0 /\ c.qty = qty
    BY DEF CancelCall, NoCall, SubmitCall
  <2> HIDE DEF accepted, c
  <2>6. CASE call' = CancelCall("modify", id) /\ res' \in {EmptyResult, accepted}
    BY <2>4, <2>5, <2>6
  <2>7. CASE call' = c /\ res' = [accepted EXCEPT !.resting = qty]
    BY <2>2, <2>4, <2>5, <2>7
  <2> QED
    BY <2>3, <2>6, <2>7
<1>5. CASE UNCHANGED vars
  BY <1>5 DEF vars, DroppedOnlyBySelfTrade, Crosses, OppositeBest, Meets, LimitPrice
<1> QED
  BY <1>1, <1>2, <1>3, <1>4, <1>5, <1>6 DEF Next

(* A modify that reports a resting quantity has the order in the book with *)
(* that quantity, however full the pool is.                                *)
THEOREM ModifyKeeps == Spec => []ModifyKeepsOrder
<1>1. Init => RoomForModify /\ ModifyKeepsOrder
  BY DEF Init, RoomForModify, ModifyKeepsOrder
<1> QED
  BY <1>1, NextRoom, NextModify, BookSafety, PTL DEF Spec

(* Self-trade prevention is the only reason for which quantity of a Limit  *)
(* order neither trades nor is reported as resting.                        *)
THEOREM DroppedOnlyForOwner == Spec => []DroppedOnlyBySelfTrade
<1>1. Init => DroppedOnlyBySelfTrade
  BY DEF Init, DroppedOnlyBySelfTrade
<1> QED
  BY <1>1, NextDropped, BookSafety, PTL DEF Spec

-----------------------------------------------------------------------------
(* The FIFO of a level as a sequence. *)

(* s is the FIFO of level p: the live orders of the level, each once, from *)
(* the head along the next links.                                          *)
IsFifo(p, s) ==
    /\ s \in Seq(Live)
    /\ \A i, j \in 1 .. Len(s) : s[i] = s[j] => i = j
    /\ \A h \in Live : pool[h].price = p <=> \E i \in 1 .. Len(s) : s[i] = h
    /\ levels[p].head = IF s = <<>> THEN Null ELSE s[1]
    /\ \A i \in 1 .. Len(s) :
         pool[s[i]].next = IF i = Len(s) THEN Null ELSE s[i + 1]

HasFifos == \A p \in Ticks : \E s : IsFifo(p, s)

(* A sequence without repetition has as many elements as positions.        *)
LEMMA DistinctCardinality ==
    ASSUME NEW S, NEW s \in Seq(S), \A i, j \in 1 .. Len(s) : s[i] = s[j] => i = j
    PROVE  /\ IsFiniteSet({s[i] : i \in 1 .. Len(s)})
           /\ Cardinality({s[i] : i \in 1 .. Len(s)}) = Len(s)
<1> DEFINE T == {s[i] : i \in 1 .. Len(s)}
<1>1. Len(s) \in Nat /\ s \in [1 .. Len(s) -> S] /\ DOMAIN s = 1 .. Len(s)
  BY LenProperties
<1>2. s \in Bijection(1 .. Len(s), T)
  <2>1. s \in [1 .. Len(s) -> T]
    BY <1>1
  <2>2. \A y \in T : \E i \in 1 .. Len(s) : s[i] = y
    OBVIOUS
  <2> QED
    BY <2>1, <2>2 DEF Bijection, Injection, Surjection, IsInjective
<1>3. IsFiniteSet(1 .. Len(s)) /\ Cardinality(1 .. Len(s)) = Len(s)
  BY <1>1, FS_Interval
<1>4. ExistsBijection(1 .. Len(s), T)
  BY <1>2 DEF ExistsBijection
<1> QED
  BY <1>3, <1>4, FS_Bijection

(* The live orders are finitely many.                                     *)
LEMMA LiveFinite ==
    /\ IsFiniteSet(Live) /\ \A S \in SUBSET Live : IsFiniteSet(S)
    /\ Cardinality(Handles) \in Nat
BY FiniteAssumption, FS_Subset, FS_CardinalityType DEF Live

(* What IsFifo says of the positions, in the form the proofs use it.       *)
LEMMA FifoPositions ==
    ASSUME NEW p, NEW s, IsFifo(p, s)
    PROVE  /\ s \in Seq(Live) /\ Len(s) \in Nat
           /\ s = <<>> <=> Len(s) = 0
           /\ \A i \in 1 .. Len(s) : s[i] \in Live /\ s[i] # Null /\ pool[s[i]].price = p
<1>1. s \in Seq(Live)
  BY DEF IsFifo
<1>2. Len(s) \in Nat /\ (s = <<>> <=> Len(s) = 0)
  BY <1>1, LenProperties, EmptySeq
<1>3. \A i \in 1 .. Len(s) : s[i] \in Live
  BY <1>1, ElementOfSeq
<1>4. \A i \in 1 .. Len(s) : s[i] # Null /\ pool[s[i]].price = p
  BY <1>3, NullAssumption DEF IsFifo, Live
<1> QED
  BY <1>1, <1>2, <1>3, <1>4

(* The FIFO holds the live orders of its level, as many as there are.      *)
LEMMA FifoFacts ==
    ASSUME NEW p, NEW s, IsFifo(p, s)
    PROVE  /\ {s[i] : i \in 1 .. Len(s)} = {h \in Live : pool[h].price = p}
           /\ Len(s) = Cardinality({h \in Live : pool[h].price = p})
           /\ Len(s) <= Cardinality(Handles)
<1> DEFINE T == {s[i] : i \in 1 .. Len(s)}
<1>1. s \in Seq(Live) /\ \A i \in 1 .. Len(s) : s[i] \in Live /\ pool[s[i]].price = p
  BY FifoPositions
<1>5. T = {h \in Live : pool[h].price = p}
  BY <1>1 DEF IsFifo
<1>6. IsFiniteSet(T) /\ Cardinality(T) = Len(s)
  BY <1>1, DistinctCardinality DEF IsFifo
<1>7. T \subseteq Handles
  BY <1>5 DEF Live
<1>8. Cardinality(T) <= Cardinality(Handles)
  BY <1>7, FiniteAssumption, FS_Subset
<1> HIDE DEF T
<1>9. Len(s) = Cardinality({h \in Live : pool[h].price = p}) /\ Len(s) <= Cardinality(Handles)
  BY <1>5, <1>6, <1>8
<1> QED
  BY <1>5, <1>9 DEF T

(* The recursion of Fifo: one more slot, until the links end.              *)
Walked(p, s) == LET h == IF s = <<>> THEN levels[p].head ELSE pool[s[Len(s)]].next
                IN  IF h = Null THEN s ELSE Append(s, h)

Walks(p, f) == f = [n \in 0 .. Cardinality(Handles) |->
                      IF n = 0 THEN <<>> ELSE Walked(p, f[n - 1])]

(* Fifo is a solution of that recursion.                                  *)
LEMMA FifoDef ==
    ASSUME NEW p
    PROVE  Fifo(p) = (CHOOSE f : Walks(p, f))[Cardinality(Handles)]
BY DEF Fifo, Walks, Walked

(* The first n slots of the FIFO, or all of them.                          *)
Front(s, n) == IF n <= Len(s) THEN SubSeq(s, 1, n) ELSE s

(* One step of the walk takes a front of the FIFO to the next one.         *)
LEMMA WalkedFront ==
    ASSUME NEW p, NEW s, IsFifo(p, s), NEW n \in Nat
    PROVE  Walked(p, Front(s, n)) = Front(s, n + 1)
<1>1. /\ s \in Seq(Live) /\ Len(s) \in Nat
      /\ s = <<>> <=> Len(s) = 0
      /\ \A i \in 1 .. Len(s) : s[i] \in Live /\ s[i] # Null
  BY FifoPositions
<1>2. CASE n >= Len(s)
  <2>1. Front(s, n) = s /\ Front(s, n + 1) = s
    BY <1>1, <1>2, SubSeqFull DEF Front
  <2>2. CASE s = <<>>
    BY <2>1, <2>2 DEF Walked, IsFifo
  <2>3. CASE s # <<>>
    <3>1. Len(s) \in 1 .. Len(s)
      BY <1>1, <2>3
    <3>2. pool[s[Len(s)]].next = Null
      BY <3>1 DEF IsFifo
    <3> QED
      BY <2>1, <2>3, <3>2 DEF Walked
  <2> QED
    BY <2>2, <2>3
<1>3. CASE n < Len(s)
  <2> DEFINE u == SubSeq(s, 1, n)
  <2>1. u \in Seq(Live) /\ Len(u) = n /\ \A i \in 1 .. n : u[i] = s[i]
    BY <1>1, <1>3, SubSeqProperties
  <2>2. SubSeq(s, 1, n + 1) = Append(u, s[n + 1])
    <3>1. SubSeq(s, 1, n + 1) = SubSeq(s, 1, n) \o <<s[n + 1]>>
      BY <1>1, <1>3, SubSeqRecursiveSecond
    <3>2. s[n + 1] \in Live
      BY <1>1, <1>3
    <3> HIDE DEF u
    <3>3. Append(u, s[n + 1]) = u \o <<s[n + 1]>>
      BY <2>1, <3>2, AppendIsConcat
    <3> QED
      BY <3>1, <3>3 DEF u
  <2>3. Front(s, n) = u /\ Front(s, n + 1) = Append(u, s[n + 1])
    BY <1>1, <1>3, <2>2 DEF Front
  <2> HIDE DEF u
  <2>4. u = <<>> <=> n = 0
    BY <2>1, EmptySeq
  <2>5. CASE n = 0
    <3>1. levels[p].head = s[1] /\ s[1] # Null
      BY <1>1, <1>3, <2>5 DEF IsFifo
    <3> QED
      BY <2>3, <2>4, <2>5, <3>1 DEF Walked
  <2>6. CASE n > 0
    <3>1. u # <<>> /\ u[Len(u)] = s[n]
      BY <2>1, <2>4, <2>6
    <3>2. pool[s[n]].next = s[n + 1] /\ s[n + 1] # Null
      BY <1>1, <1>3, <2>6 DEF IsFifo
    <3> QED
      BY <2>3, <3>1, <3>2 DEF Walked
  <2> QED
    BY <2>5, <2>6
<1> QED
  BY <1>1, <1>2, <1>3

(* The walk of Fifo meets exactly the slots of the level, in its order.    *)
LEMMA FifoIs == \A p, s : IsFifo(p, s) => Fifo(p) = s
<1> SUFFICES ASSUME NEW p, NEW s, IsFifo(p, s) PROVE Fifo(p) = s
  OBVIOUS
<1> DEFINE N == Cardinality(Handles)
           f == CHOOSE g : Walks(p, g)
           w == [n \in 0 .. N |-> Front(s, n)]
<1>1. N \in Nat
  BY LiveFinite
<1>2. s \in Seq(Live) /\ Len(s) \in Nat /\ Len(s) <= N
  BY FifoPositions, FifoFacts
<1> HIDE DEF N
<1>3. Front(s, 0) = <<>> /\ Front(s, N) = s
  BY <1>1, <1>2, SubSeqEmpty, SubSeqFull DEF Front
<1>4. Walks(p, w)
  <2>1. ASSUME NEW n \in 0 .. N
        PROVE  w[n] = IF n = 0 THEN <<>> ELSE Walked(p, w[n - 1])
    <3>1. CASE n = 0
      BY <1>1, <1>3, <3>1
    <3>2. CASE n > 0
      <4>1. n - 1 \in 0 .. N /\ n - 1 \in Nat /\ (n - 1) + 1 = n
        BY <1>1, <3>2
      <4>2. Walked(p, Front(s, n - 1)) = Front(s, (n - 1) + 1)
        BY <4>1, WalkedFront
      <4> QED
        BY <3>2, <4>1, <4>2
    <3> QED
      BY <1>1, <3>1, <3>2
  <2> QED
    BY <2>1 DEF Walks, N
<1>5. Walks(p, f)
  BY <1>4
<1> HIDE DEF f, w
<1>6. \A n \in 0 .. N : f[n] = IF n = 0 THEN <<>> ELSE Walked(p, f[n - 1])
  BY <1>5 DEF Walks, N
<1>7. \A n \in 0 .. N : f[n] = Front(s, n)
  <2> DEFINE Bad == {n \in 0 .. N : f[n] # Front(s, n)}
  <2>1. SUFFICES ASSUME Bad # {} PROVE FALSE
    OBVIOUS
  <2>2. PICK n \in Bad : \A m \in Bad : n <= m
    <3>1. Bad \in SUBSET Nat
      BY <1>1
    <3> HIDE DEF Bad
    <3> QED
      BY <2>1, <3>1, LeastExists
  <2>3. n # 0
    BY <1>1, <1>3, <1>6
  <2>4. n - 1 \in 0 .. N /\ n - 1 \notin Bad /\ (n - 1) + 1 = n /\ n - 1 \in Nat
    BY <1>1, <2>2, <2>3
  <2>5. f[n - 1] = Front(s, n - 1) /\ f[n] = Walked(p, f[n - 1])
    BY <1>6, <2>3, <2>4
  <2>6. f[n] = Front(s, n)
    BY <2>4, <2>5, WalkedFront
  <2> QED
    BY <2>6
<1>8. f[N] = s
  BY <1>1, <1>3, <1>7
<1> QED
  BY <1>8, FifoDef DEF f, N

-----------------------------------------------------------------------------
(* What the operations do to a FIFO. *)

(* The sequence without its i-th element.                                  *)
Without(s, i) == SubSeq(s, 1, i - 1) \o SubSeq(s, i + 1, Len(s))

(* Its length and its elements.                                           *)
LEMMA WithoutProperties ==
    ASSUME NEW S, NEW s \in Seq(S), NEW i \in 1 .. Len(s)
    PROVE  /\ Without(s, i) \in Seq(S)
           /\ Len(Without(s, i)) = Len(s) - 1
           /\ \A j \in 1 .. Len(s) - 1 :
                Without(s, i)[j] = IF j < i THEN s[j] ELSE s[j + 1]
<1> DEFINE a == SubSeq(s, 1, i - 1)
           b == SubSeq(s, i + 1, Len(s))
<1>1. Len(s) \in Nat /\ \A j \in 1 .. Len(s) : s[j] \in S
  BY LenProperties, ElementOfSeq
<1>2. a \in Seq(S) /\ Len(a) = i - 1 /\ \A j \in 1 .. i - 1 : a[j] = s[j]
  BY <1>1, SubSeqProperties
<1>3. /\ b \in Seq(S) /\ Len(b) = Len(s) - i
      /\ \A j \in 1 .. Len(s) - i : b[j] = s[i + j]
  <2>1. \A j \in i + 1 .. Len(s) : s[j] \in S
    BY <1>1
  <2>2. /\ b \in Seq(S) /\ Len(b) = IF i + 1 <= Len(s) THEN Len(s) - (i + 1) + 1 ELSE 0
        /\ \A j \in 1 .. Len(s) - (i + 1) + 1 : b[j] = s[i + 1 + j - 1]
    BY <1>1, <2>1, SubSeqProperties
  <2> HIDE DEF b
  <2> QED
    BY <1>1, <2>2
<1> HIDE DEF a, b
<1>4. /\ a \o b \in Seq(S) /\ Len(a \o b) = Len(a) + Len(b)
      /\ \A j \in 1 .. Len(a) + Len(b) :
           (a \o b)[j] = IF j <= Len(a) THEN a[j] ELSE b[j - Len(a)]
  BY <1>2, <1>3, ConcatProperties
<1> DEFINE t == a \o b
<1> HIDE DEF t
<1>5. t \in Seq(S) /\ Len(t) = Len(s) - 1
  BY <1>1, <1>2, <1>3, <1>4 DEF t
<1>6. ASSUME NEW j \in 1 .. Len(s) - 1
      PROVE  t[j] = IF j < i THEN s[j] ELSE s[j + 1]
  <2>1. t[j] = IF j <= Len(a) THEN a[j] ELSE b[j - Len(a)]
    BY <1>1, <1>2, <1>3, <1>4 DEF t
  <2>2. CASE j < i
    BY <1>1, <1>2, <2>1, <2>2
  <2>3. CASE j >= i
    <3>1. ~(j <= Len(a)) /\ j - Len(a) \in 1 .. Len(s) - i /\ i + (j - Len(a)) = j + 1
      BY <1>1, <1>2, <2>3
    <3>2. b[j - Len(a)] = s[i + (j - Len(a))]
      BY <1>3, <3>1
    <3> QED
      BY <1>1, <2>1, <2>3, <3>1, <3>2
  <2> QED
    BY <1>1, <2>2, <2>3
<1>7. t = Without(s, i)
  BY DEF t, a, b, Without
<1> QED
  BY <1>5, <1>6, <1>7

(* A sequence whose elements all lie in T.                                 *)
LEMMA SeqInto ==
    ASSUME NEW S, NEW T, NEW s \in Seq(S), \A i \in 1 .. Len(s) : s[i] \in T
    PROVE  s \in Seq(T)
<1>1. Len(s) \in Nat /\ s \in [1 .. Len(s) -> S] /\ DOMAIN s = 1 .. Len(s)
  BY LenProperties
<1>2. s \in [1 .. Len(s) -> T]
  BY <1>1
<1> QED
  BY <1>1, <1>2, SeqDef

(* Where the neighbours of the i-th order of a FIFO are.                   *)
LEMMA Neighbours ==
    ASSUME Structure, NEW p \in Ticks, NEW s, IsFifo(p, s), NEW i \in 1 .. Len(s)
    PROVE  /\ pool[s[i]].prev = IF i = 1 THEN Null ELSE s[i - 1]
           /\ pool[s[i]].next = IF i = Len(s) THEN Null ELSE s[i + 1]
<1>1. /\ s \in Seq(Live) /\ Len(s) \in Nat
      /\ s = <<>> <=> Len(s) = 0
      /\ \A j \in 1 .. Len(s) : s[j] \in Live /\ s[j] # Null /\ pool[s[j]].price = p
  BY FifoPositions
<1>2. CASE i = 1
  <2>1. levels[p].head = s[1] /\ s[1] # Null
    BY <1>1, <1>2 DEF IsFifo
  <2>2. pool[s[1]].prev = Null
    BY <2>1 DEF Structure, Linked
  <2> QED
    BY <1>2, <2>2 DEF IsFifo
<1>3. CASE i # 1
  <2>1. i - 1 \in 1 .. Len(s) /\ i - 1 # Len(s) /\ (i - 1) + 1 = i
    BY <1>1, <1>3
  <2>2. pool[s[i - 1]].next = s[i]
    BY <2>1 DEF IsFifo
  <2>3. s[i - 1] \in Live /\ s[i] # Null
    BY <1>1, <2>1
  <2> QED
    BY <1>3, <2>2, <2>3 DEF IsFifo, Structure, Linked
<1> QED
  BY <1>2, <1>3

(* unlink_and_free takes the order out of its FIFO and leaves the others   *)
(* in their places.                                                        *)
LEMMA UnlinkFifo ==
    ASSUME Structure, NEW h \in Live, NEW pl, NEW lv, SameShape(pl, lv),
           unlink_and_free(h, pl, lv),
           NEW p, p = pool[h].price, NEW s, IsFifo(p, s),
           NEW i \in 1 .. Len(s), s[i] = h
    PROVE  IsFifo(p, Without(s, i))'
<1> DEFINE t == Without(s, i)
           o == pool[h]
<1>1. /\ s \in Seq(Live) /\ Len(s) \in Nat
      /\ s = <<>> <=> Len(s) = 0
      /\ \A j \in 1 .. Len(s) : s[j] \in Live /\ s[j] # Null /\ pool[s[j]].price = p
  BY FifoPositions
<1>2. p \in Ticks
  BY DEF Structure, BookTypes, Order, Live
<1>3. /\ Live' = Live \ {h}
      /\ \A g \in Live' :
           /\ pool'[g].price = pool[g].price
           /\ pool'[g].next = IF g = o.prev THEN o.next ELSE pool[g].next
      /\ levels'[p].head = IF o.prev = Null THEN o.next ELSE levels[p].head
  BY <1>2, UnlinkLinks
<1>4. /\ o.prev = IF i = 1 THEN Null ELSE s[i - 1]
      /\ o.next = IF i = Len(s) THEN Null ELSE s[i + 1]
  BY <1>2, Neighbours
<1>5. /\ t \in Seq(Live) /\ Len(t) = Len(s) - 1
      /\ \A j \in 1 .. Len(s) - 1 : t[j] = IF j < i THEN s[j] ELSE s[j + 1]
  BY <1>1, WithoutProperties
<1>6. t = <<>> <=> Len(t) = 0
  BY <1>5, EmptySeq
<1> HIDE DEF t
<1>7. \A j, k \in 1 .. Len(s) : s[j] = s[k] => j = k
  BY DEF IsFifo
<1>8. \A j \in 1 .. Len(t) : t[j] # h
  BY <1>1, <1>5, <1>7
<1>9. t \in Seq(Live')
  <2>1. \A j \in 1 .. Len(t) : t[j] \in Live'
    BY <1>3, <1>5, <1>8, ElementOfSeq
  <2> QED
    BY <1>5, <2>1, SeqInto
<1>10. \A j, k \in 1 .. Len(t) : t[j] = t[k] => j = k
  <2> SUFFICES ASSUME NEW j \in 1 .. Len(t), NEW k \in 1 .. Len(t), t[j] = t[k]
               PROVE  j = k
    OBVIOUS
  <2> DEFINE at(m) == IF m < i THEN m ELSE m + 1
  <2>1. \A m \in 1 .. Len(t) : at(m) \in 1 .. Len(s) /\ t[m] = s[at(m)]
    BY <1>1, <1>5
  <2>2. at(j) = at(k)
    <3>1. at(j) \in 1 .. Len(s) /\ at(k) \in 1 .. Len(s) /\ s[at(j)] = s[at(k)]
      BY <2>1
    <3> HIDE DEF at
    <3> QED
      BY <1>7, <3>1
  <2> QED
    BY <1>1, <1>5, <2>2
<1>11. \A g \in Live' : pool'[g].price = p <=> \E j \in 1 .. Len(t) : t[j] = g
  <2> TAKE g \in Live'
  <2>1. ASSUME pool'[g].price = p
        PROVE  \E j \in 1 .. Len(t) : t[j] = g
    <3>1. PICK j \in 1 .. Len(s) : s[j] = g
      BY <1>3, <2>1 DEF IsFifo
    <3>2. j # i
      BY <1>3, <3>1
    <3>3. CASE j < i
      <4>1. j \in 1 .. Len(t) /\ t[j] = s[j]
        BY <1>1, <1>5, <3>3
      <4> QED
        BY <3>1, <4>1
    <3>4. CASE j > i
      <4>1. j - 1 \in 1 .. Len(t) /\ ~(j - 1 < i) /\ (j - 1) + 1 = j
        BY <1>1, <1>5, <3>4
      <4>2. t[j - 1] = s[j]
        BY <1>5, <4>1
      <4> QED
        BY <3>1, <4>1, <4>2
    <3> QED
      BY <1>1, <3>2, <3>3, <3>4
  <2>2. ASSUME NEW j \in 1 .. Len(t), t[j] = g
        PROVE  pool'[g].price = p
    <3>1. pool[g].price = p
      BY <1>1, <1>5, <2>2
    <3> QED
      BY <1>3, <3>1
  <2> QED
    BY <2>1, <2>2
<1>12. levels'[p].head = IF t = <<>> THEN Null ELSE t[1]
  <2>1. CASE i = 1
    BY <1>1, <1>3, <1>4, <1>5, <1>6, <2>1
  <2>2. CASE i # 1
    <3>1. o.prev # Null
      BY <1>1, <1>4, <2>2
    <3>2. levels[p].head = s[1]
      BY <1>1 DEF IsFifo
    <3>3. t # <<>> /\ t[1] = s[1]
      BY <1>1, <1>5, <1>6, <2>2
    <3> QED
      BY <1>3, <3>1, <3>2, <3>3
  <2> QED
    BY <2>1, <2>2
<1>13. \A j \in 1 .. Len(t) :
         pool'[t[j]].next = IF j = Len(t) THEN Null ELSE t[j + 1]
  <2> TAKE j \in 1 .. Len(t)
  <2>0. t[j] \in Live'
    BY <1>9, ElementOfSeq
  <2>1. CASE j < i - 1
    <3>1. /\ t[j] = s[j] /\ j # Len(t) /\ t[j + 1] = s[j + 1] /\ j \in 1 .. Len(s)
          /\ j # Len(s) /\ i - 1 \in 1 .. Len(s) /\ i # 1 /\ j # i - 1
      BY <1>1, <1>5, <2>1
    <3>2. t[j] # o.prev
      BY <1>4, <1>7, <3>1
    <3>3. pool[s[j]].next = s[j + 1]
      BY <3>1 DEF IsFifo
    <3> QED
      BY <1>3, <2>0, <3>1, <3>2, <3>3
  <2>2. CASE j = i - 1
    <3>1. t[j] = s[i - 1] /\ i # 1 /\ (j = Len(t) <=> i = Len(s))
          /\ (j # Len(t) => t[j + 1] = s[i + 1])
      BY <1>1, <1>5, <2>2
    <3>2. t[j] = o.prev
      BY <1>4, <3>1
    <3> QED
      BY <1>3, <1>4, <2>0, <3>1, <3>2
  <2>3. CASE j >= i
    <3>1. /\ t[j] = s[j + 1] /\ j + 1 \in 1 .. Len(s)
          /\ j = Len(t) <=> j + 1 = Len(s)
          /\ j # Len(t) => t[j + 1] = s[j + 1 + 1]
          /\ i # 1 => i - 1 \in 1 .. Len(s) /\ j + 1 # i - 1
      BY <1>1, <1>5, <2>3
    <3>2. t[j] # o.prev
      BY <1>1, <1>4, <1>7, <3>1
    <3>3. pool[s[j + 1]].next = IF j + 1 = Len(s) THEN Null ELSE s[j + 1 + 1]
      BY <3>1 DEF IsFifo
    <3> QED
      BY <1>3, <2>0, <3>1, <3>2, <3>3
  <2> QED
    BY <1>1, <1>5, <2>1, <2>2, <2>3
<1>14. IsFifo(p, t)'
  BY <1>9, <1>10, <1>11, <1>12, <1>13 DEF IsFifo
<1> QED
  BY <1>14 DEF t

(* The FIFOs of the other levels stay as they are.                         *)
LEMMA UnlinkOtherFifo ==
    ASSUME Structure, NEW h \in Live, NEW pl, NEW lv, SameShape(pl, lv),
           unlink_and_free(h, pl, lv),
           NEW p \in Ticks, p # pool[h].price, NEW s, IsFifo(p, s)
    PROVE  IsFifo(p, s)'
<1> DEFINE o == pool[h]
<1>1. /\ s \in Seq(Live) /\ Len(s) \in Nat
      /\ \A j \in 1 .. Len(s) : s[j] \in Live /\ s[j] # Null /\ pool[s[j]].price = p
  BY FifoPositions
<1>2. /\ Live' = Live \ {h}
      /\ \A g \in Live' :
           /\ pool'[g].price = pool[g].price
           /\ pool'[g].next = IF g = o.prev THEN o.next ELSE pool[g].next
      /\ levels'[p].head = levels[p].head
  BY UnlinkLinks
<1>3. o.prev # Null => pool[o.prev].price = o.price
  BY DEF Structure, Linked
<1>4. \A j \in 1 .. Len(s) : s[j] \in Live' /\ s[j] # o.prev
  BY <1>1, <1>2, <1>3
<1>5. s \in Seq(Live')
  BY <1>1, <1>4, SeqInto
<1>6. \A g \in Live' : pool'[g].price = p <=> \E i \in 1 .. Len(s) : s[i] = g
  BY <1>2 DEF IsFifo
<1>7. \A i \in 1 .. Len(s) : pool'[s[i]].next = pool[s[i]].next
  BY <1>2, <1>4
<1> QED
  BY <1>2, <1>5, <1>6, <1>7 DEF IsFifo

(* An edit of quantities leaves every FIFO as it is.                       *)
LEMMA EditFifo ==
    ASSUME SameShape(pool', levels'), free' = free, NEW p \in Ticks, NEW s, IsFifo(p, s)
    PROVE  IsFifo(p, s)'
<1>1. /\ s \in Seq(Live) /\ \A j \in 1 .. Len(s) : s[j] \in Live
  BY FifoPositions
<1>2. /\ Live' = Live /\ Live \subseteq Handles
      /\ levels'[p].head = levels[p].head
      /\ \A g \in Handles : pool'[g].price = pool[g].price /\ pool'[g].next = pool[g].next
  BY DEF SameShape, Live
<1> QED
  BY <1>1, <1>2 DEF IsFifo

(* A book that does not change.                                            *)
LEMMA SameFifo ==
    ASSUME UNCHANGED book, NEW p, NEW s, IsFifo(p, s)
    PROVE  IsFifo(p, s)'
BY DEF book, IsFifo, Live

(* rest_order puts the order behind those of its price.                    *)
LEMMA RestFifo ==
    ASSUME Structure, call.price \in Ticks, NEW h \in free,
           rest_in_slot(h, call.id, call.side, call.price, call.remaining, call.owner),
           NEW p \in Ticks, NEW s, IsFifo(p, s)
    PROVE  IF p = call.price THEN IsFifo(p, Append(s, h))' ELSE IsFifo(p, s)'
<1> DEFINE l == levels[call.price]
           last == IF l.head = Null THEN Null ELSE l.tail
           o == [remaining |-> call.remaining, prev |-> last, next |-> Null,
                 id |-> call.id, price |-> call.price, side |-> call.side,
                 owner |-> call.owner]
<1>1. /\ h \in Handles /\ h \notin Live /\ Live' = Live \cup {h} /\ h # Null
      /\ pool \in [Handles -> Order] /\ levels \in [Ticks -> PriceLevel]
      /\ Live \subseteq Handles
  BY NullAssumption DEF rest_in_slot, Structure, BookTypes, Live
<1>2. /\ last # Null <=> l.head # Null
      /\ last # Null => last \in Live /\ last = l.tail /\ pool[last].price = call.price
  BY DEF Structure, Linked
<1>3. last # h
  BY <1>1, <1>2
<1>4. pool' = [g \in Handles |-> CASE g = h    -> o
                                   [] g = last -> [pool[g] EXCEPT !.next = h]
                                   [] OTHER    -> pool[g]]
  BY DEF rest_in_slot, OldTail
<1>5. /\ pool'[h].price = call.price /\ pool'[h].next = Null
      /\ \A g \in Handles \ {h} :
           pool'[g] = IF g = last THEN [pool[g] EXCEPT !.next = h] ELSE pool[g]
  BY <1>1, <1>3, <1>4
<1>6. \A g \in Live : /\ pool'[g].price = pool[g].price
                      /\ pool'[g].next = IF g = last THEN h ELSE pool[g].next
  <2> TAKE g \in Live
  <2>1. pool[g] \in Order /\ g \in Handles \ {h}
    BY <1>1
  <2> QED
    BY <1>5, <2>1 DEF Order
<1>7. /\ levels'[call.price].head = IF l.head = Null THEN h ELSE l.head
      /\ p # call.price => levels'[p].head = levels[p].head
  BY <1>1 DEF rest_in_slot
<1> HIDE DEF last, o
<1>8. /\ s \in Seq(Live) /\ Len(s) \in Nat
      /\ s = <<>> <=> Len(s) = 0
      /\ \A j \in 1 .. Len(s) : s[j] \in Live /\ s[j] # Null /\ pool[s[j]].price = p
  BY FifoPositions
<1>9. CASE p # call.price
  <2>1. s \in Seq(Live')
    BY <1>1, <1>8, SeqInto
  <2>2. \A g \in Live' : pool'[g].price = p <=> \E i \in 1 .. Len(s) : s[i] = g
    BY <1>1, <1>5, <1>6, <1>8, <1>9 DEF IsFifo
  <2>3. \A i \in 1 .. Len(s) : pool'[s[i]].next = pool[s[i]].next
    BY <1>2, <1>6, <1>8, <1>9
  <2>4. IsFifo(p, s)'
    BY <1>7, <1>9, <2>1, <2>2, <2>3 DEF IsFifo
  <2> QED
    BY <1>9, <2>4
<1>10. CASE p = call.price
  <2> DEFINE t == Append(s, h)
  <2>1. s \in Seq(Live') /\ h \in Live'
    BY <1>1, <1>8, SeqInto
  <2>2. /\ t \in Seq(Live') /\ t # <<>> /\ Len(t) = Len(s) + 1
        /\ \A i \in 1 .. Len(s) : t[i] = s[i]
        /\ t[Len(s) + 1] = h
    BY <2>1, AppendProperties
  <2> HIDE DEF t
  <2>3. last = IF s = <<>> THEN Null ELSE s[Len(s)]
    <3>1. CASE s = <<>>
      BY <1>2, <1>10, <3>1 DEF IsFifo
    <3>2. CASE s # <<>>
      <4>1. Len(s) \in 1 .. Len(s) /\ levels[p].head # Null
        BY <1>8, <3>2 DEF IsFifo
      <4>2. pool[s[Len(s)]].next = Null /\ s[Len(s)] \in Live /\ pool[s[Len(s)]].price = p
        BY <1>8, <4>1 DEF IsFifo
      <4>3. levels[p].tail = s[Len(s)]
        BY <4>2 DEF Structure, Linked
      <4> QED
        BY <1>2, <1>10, <3>2, <4>1, <4>3
    <3> QED
      BY <3>1, <3>2
  <2>4. \A i, j \in 1 .. Len(t) : t[i] = t[j] => i = j
    <3> SUFFICES ASSUME NEW i \in 1 .. Len(t), NEW j \in 1 .. Len(t), t[i] = t[j]
                 PROVE  i = j
      OBVIOUS
    <3>1. \A k \in 1 .. Len(t) : k # Len(t) => k \in 1 .. Len(s) /\ t[k] = s[k] /\ t[k] # h
      BY <1>1, <1>8, <2>2
    <3>2. CASE i = Len(t) \/ j = Len(t)
      BY <2>2, <3>1, <3>2
    <3>3. CASE i # Len(t) /\ j # Len(t)
      BY <3>1, <3>3 DEF IsFifo
    <3> QED
      BY <3>2, <3>3
  <2>5. \A g \in Live' : pool'[g].price = p <=> \E i \in 1 .. Len(t) : t[i] = g
    <3> TAKE g \in Live'
    <3>1. CASE g = h
      <4>1. Len(s) + 1 \in 1 .. Len(t)
        BY <1>8, <2>2
      <4> QED
        BY <1>5, <1>10, <2>2, <3>1, <4>1
    <3>2. CASE g # h
      <4>1. g \in Live /\ pool'[g].price = pool[g].price
        BY <1>1, <1>6, <3>2
      <4>2. (\E i \in 1 .. Len(t) : t[i] = g) <=> (\E i \in 1 .. Len(s) : s[i] = g)
        BY <1>8, <2>2, <3>2
      <4> QED
        BY <4>1, <4>2 DEF IsFifo
    <3> QED
      BY <3>1, <3>2
  <2>6. levels'[p].head = t[1]
    <3>1. CASE s = <<>>
      <4>1. l.head = Null
        BY <1>10, <3>1 DEF IsFifo
      <4> QED
        BY <1>7, <1>8, <1>10, <2>2, <3>1, <4>1
    <3>2. CASE s # <<>>
      <4>1. l.head = s[1] /\ s[1] # Null /\ t[1] = s[1]
        BY <1>8, <1>10, <2>2, <3>2 DEF IsFifo
      <4> QED
        BY <1>7, <1>10, <4>1
    <3> QED
      BY <3>1, <3>2
  <2>7. \A i \in 1 .. Len(t) :
          pool'[t[i]].next = IF i = Len(t) THEN Null ELSE t[i + 1]
    <3> TAKE i \in 1 .. Len(t)
    <3>1. CASE i = Len(t)
      BY <1>5, <2>2, <3>1
    <3>2. CASE i = Len(s)
      <4>1. s # <<>> /\ t[i] = s[Len(s)] /\ s[Len(s)] \in Live /\ i # Len(t) /\ t[i + 1] = h
        BY <1>8, <2>2, <3>2
      <4> QED
        BY <1>6, <2>3, <4>1
    <3>3. CASE i # Len(t) /\ i # Len(s)
      <4>1. /\ i \in 1 .. Len(s) /\ i + 1 \in 1 .. Len(s) /\ Len(s) \in 1 .. Len(s)
            /\ t[i] = s[i] /\ t[i + 1] = s[i + 1] /\ s # <<>>
        BY <1>8, <2>2, <3>3
      <4>2. s[i] # s[Len(s)] /\ pool[s[i]].next = s[i + 1]
        BY <3>3, <4>1 DEF IsFifo
      <4> QED
        BY <1>6, <1>8, <2>3, <3>3, <4>1, <4>2
    <3> QED
      BY <3>1, <3>2, <3>3
  <2>8. IsFifo(p, t)'
    BY <2>2, <2>4, <2>5, <2>6, <2>7 DEF IsFifo
  <2> QED
    BY <1>10, <2>8 DEF t
<1> QED
  BY <1>9, <1>10

-----------------------------------------------------------------------------
(* Every step as what it does to one order. *)

(* The live order in slot h leaves the book, and no other order changes    *)
(* its quantity.                                                           *)
Removes(h) ==
    /\ \E pl, lv : SameShape(pl, lv) /\ unlink_and_free(h, pl, lv)
    /\ \A g \in Live \ {h} : pool'[g].remaining = pool[g].remaining
    /\ \A p \in Ticks :
         levels'[p].total = IF p = pool[h].price
                              THEN (levels[p].total - pool[h].remaining) % QMod
                              ELSE levels[p].total
    /\ \/ pc = "idle" /\ call'.id = pool[h].id
       \/ /\ pc = "sweep" /\ trade'.resting_id = pool[h].id
          /\ h = Meets /\ pool[h].price = OppositeBest

(* The live order in slot h is reduced to q.                               *)
Reduces(h, q) ==
    /\ SameShape(pool', levels')
    /\ free' = free
    /\ pool'[h].remaining = q
    /\ \A g \in Live \ {h} : pool'[g].remaining = pool[g].remaining
    /\ \A p \in Ticks :
         levels'[p].total = IF p = pool[h].price
                              THEN (levels[p].total - (pool[h].remaining - q)) % QMod
                              ELSE levels[p].total

(* What is left of the order of the call rests in slot h.                  *)
Adds(h) ==
    /\ pc = "sweep" /\ call.price \in Ticks /\ call.remaining \in Quantity \ {0}
    /\ rest_in_slot(h, call.id, call.side, call.price, call.remaining, call.owner)

(* The quantities once h is unlinked.                                      *)
LEMMA UnlinkQuantities ==
    ASSUME Structure, NEW h \in Live, NEW pl, NEW lv, SameShape(pl, lv),
           unlink_and_free(h, pl, lv)
    PROVE  /\ \A g \in Live \ {h} : pool'[g].remaining = pl[g].remaining
           /\ \A p \in Ticks :
                levels'[p].total = IF p = pool[h].price
                                     THEN (lv[p].total - pl[h].remaining) % QMod
                                     ELSE lv[p].total
<1>1. /\ h \in Handles /\ pl[h].price = pool[h].price /\ pool[h].price \in Ticks
      /\ lv \in [Ticks -> PriceLevel] /\ Live \subseteq Handles
  BY DEF SameShape, Structure, BookTypes, Order, Live
<1>2. /\ levels' = [lv EXCEPT ![pool[h].price] = Spliced(lv[pool[h].price], pl[h])]
      /\ pool' = [g \in Handles |-> Relinked(g, h, pl[h], pl)]
  BY <1>1 DEF unlink_and_free
<1>3. ASSUME NEW g \in Live \ {h}
      PROVE  pool'[g].remaining = pl[g].remaining
  <2>1. pl[g] \in Order /\ pool'[g] = Relinked(g, h, pl[h], pl)
    BY <1>1, <1>2 DEF SameShape
  <2> QED
    BY <2>1 DEF Relinked, Order
<1> QED
  BY <1>1, <1>2, <1>3 DEF Spliced

(* Taking 0 off a remainder changes nothing.                               *)
LEMMA ModIdempotent ==
    ASSUME NEW a \in Int
    PROVE  ((a % QMod) - 0) % QMod = a % QMod
<1>1. a % QMod \in 0 .. QMod - 1
  BY QModAssumption
<1> DEFINE r == a % QMod
<1> HIDE DEF r
<1>2. r \in 0 .. QMod - 1
  BY <1>1 DEF r
<1>3. (r - 0) % QMod = r
  BY <1>2, QModAssumption
<1> QED
  BY <1>3 DEF r

(* The order of an id leaves by a cancel or a modify.                      *)
LEMMA ClientRemoves ==
    ASSUME BookInv, NEW id \in Ids, id_index[id] # Null, pc = "idle", call'.id = id,
           unlink_and_free(id_index[id], pool, levels)
    PROVE  id_index[id] \in Live /\ Removes(id_index[id])
<1>1. id_index[id] \in Live /\ pool[id_index[id]].id = id
  BY IndexedOrder
<1>2. Structure /\ SameShape(pool, levels)
  BY InvParts
<1> QED
  BY <1>1, <1>2, UnlinkQuantities DEF Removes

(* One trade of the sweep removes or reduces the order it meets.           *)
LEMMA MatchStep ==
    ASSUME BookInv, match
    PROVE  LET traded == Lesser(call.remaining, pool[Meets].remaining)
           IN  /\ Meets \in Live
               /\ traded \in 0 .. pool[Meets].remaining
               /\ call' = [call EXCEPT !.remaining = @ - traded, !.filled = @ + traded]
               /\ \/ traded = pool[Meets].remaining /\ Removes(Meets)
                  \/ /\ traded < pool[Meets].remaining
                     /\ Reduces(Meets, pool[Meets].remaining - traded)
                     /\ UNCHANGED <<id_index, best_bid, best_ask>>
<1> DEFINE h == Meets
           o == pool[h]
           traded == Lesser(call.remaining, o.remaining)
           pool1 == [pool EXCEPT ![h].remaining = @ - traded]
           levels1 == [levels EXCEPT ![o.price].total = (@ - traded) % QMod]
<1>1. /\ h \in Live /\ h \in Handles /\ o \in Order /\ Structure /\ ClientTypes
      /\ pool \in [Handles -> Order] /\ levels \in [Ticks -> PriceLevel]
      /\ Live \subseteq Handles
  BY MeetsLive, InvParts DEF match, Matches, Structure, BookTypes, Live
<1>2. /\ pc = "sweep" /\ Crosses(call, OppositeBest)
      /\ call' = [call EXCEPT !.remaining = @ - traded, !.filled = @ + traded]
      /\ trade'.resting_id = o.id
  BY DEF match, Matches
<1>3. /\ o.price \in Ticks /\ o.remaining \in Quantity /\ call.remaining \in Quantity
      /\ levels[o.price].total \in Quantity
  BY <1>1 DEF Order, ClientTypes, Call, PriceLevel
<1>4. o.price = OppositeBest
  <2>1. OppositeBest \in Ticks
    BY <1>1, <1>2 DEF Crosses, OppositeBest, Structure, BookTypes
  <2> QED
    BY <1>1, <2>1, NullAssumption DEF Structure, Linked, Meets, Live
<1>5. traded \in Quantity /\ traded <= o.remaining /\ o.remaining - traded \in Quantity
  BY <1>3, QModAssumption DEF Lesser, Quantity
<1> HIDE DEF traded
<1>6. (levels[o.price].total - traded) % QMod \in Quantity
  BY <1>3, <1>5, QModAssumption DEF Quantity
<1>7. SameShape(pool1, levels1)
  BY <1>1, <1>3, <1>5, <1>6 DEF SameShape, Order, PriceLevel
<1>8. /\ pool1[h].remaining = o.remaining - traded
      /\ \A g \in Live \ {h} : pool1[g].remaining = pool[g].remaining
      /\ \A p \in Ticks : levels1[p].total = IF p = o.price THEN (levels[p].total - traded) % QMod
                                                            ELSE levels[p].total
  BY <1>1, <1>3 DEF Order, PriceLevel
<1> HIDE DEF pool1, levels1
<1>9. CASE o.remaining = traded /\ unlink_and_free(h, pool1, levels1)
  <2>1. \A g \in Live \ {h} : pool'[g].remaining = pool[g].remaining
    BY <1>1, <1>7, <1>8, <1>9, UnlinkQuantities
  <2>2. \A p \in Ticks :
          levels'[p].total = IF p = o.price THEN (levels1[p].total - pool1[h].remaining) % QMod
                                            ELSE levels1[p].total
    BY <1>1, <1>7, <1>9, UnlinkQuantities
  <2>3. pool1[h].remaining = 0
    BY <1>5, <1>8, <1>9 DEF Quantity
  <2>4. levels'[o.price].total = (levels[o.price].total - traded) % QMod
    <3>1. levels'[o.price].total = (((levels[o.price].total - traded) % QMod) - 0) % QMod
      BY <1>3, <1>8, <2>2, <2>3
    <3>2. levels[o.price].total - traded \in Int
      BY <1>3, <1>5 DEF Quantity
    <3> QED
      BY <3>1, <3>2, ModIdempotent
  <2>5. Removes(h)
    BY <1>2, <1>4, <1>7, <1>8, <1>9, <2>1, <2>2, <2>4 DEF Removes
  <2> QED
    BY <1>1, <1>2, <1>5, <1>9, <2>5 DEF traded, Quantity
<1>10. CASE /\ o.remaining # traded /\ pool' = pool1 /\ levels' = levels1
            /\ UNCHANGED <<free, id_index, best_bid, best_ask>>
  <2>1. traded < o.remaining
    BY <1>3, <1>5, <1>10 DEF Quantity
  <2>2. o.remaining - (o.remaining - traded) = traded
    BY <1>3, <1>5 DEF Quantity
  <2>3. Reduces(h, o.remaining - traded)
    BY <1>7, <1>8, <1>10, <2>2 DEF Reduces
  <2> QED
    BY <1>1, <1>2, <1>5, <1>10, <2>1, <2>3 DEF traded, Quantity
<1> QED
  BY <1>9, <1>10 DEF match, traded, pool1, levels1

(* What a step does to the orders of the book: nothing, or it removes,     *)
(* reduces or adds one.                                                    *)
LEMMA Steps ==
    ASSUME BookInv, [Next]_vars
    PROVE  \/ UNCHANGED book
           \/ \E h \in Live : Removes(h)
           \/ \E h \in Live, q \in Quantity \ {0} : Reduces(h, q)
           \/ \E h \in free : Adds(h)
<1>1. CASE Submit \/ return \/ UNCHANGED vars
  <2>1. Submit => UNCHANGED book
    BY DEF Submit, submit
  <2>2. return => UNCHANGED book
    BY DEF return
  <2>3. UNCHANGED vars => UNCHANGED book
    BY DEF vars, book
  <2> QED
    BY <1>1, <2>1, <2>2, <2>3
<1>2. CASE match
  <2> DEFINE h == Meets
             traded == Lesser(call.remaining, pool[h].remaining)
  <2>1. /\ h \in Live /\ traded \in 0 .. pool[h].remaining
        /\ \/ Removes(h)
           \/ traded < pool[h].remaining /\ Reduces(h, pool[h].remaining - traded)
    BY <1>2, MatchStep
  <2>2. pool[h].remaining \in Quantity
    BY <2>1, InvParts DEF Structure, BookTypes, Order, Live
  <2> HIDE DEF h, traded
  <2>3. traded < pool[h].remaining => pool[h].remaining - traded \in Quantity \ {0}
    BY <2>1, <2>2, QModAssumption DEF Quantity
  <2> QED
    BY <2>1, <2>3
<1>3. CASE finish_submit
  <2>1. CASE UNCHANGED book
    BY <2>1
  <2>2. ASSUME Rests, NEW h \in free,
               rest_in_slot(h, call.id, call.side, call.price, call.remaining, call.owner)
        PROVE  Adds(h)
    <3>1. call.remaining \in Quantity \ {0} /\ call.price \in Ticks /\ pc = "sweep"
      BY <1>3, <2>2, InvParts, QModAssumption
         DEF Rests, ClientTypes, Call, Quantity, finish_submit
    <3> QED
      BY <2>2, <3>1 DEF Adds
  <2> QED
    BY <1>3, <2>1, <2>2 DEF finish_submit, rest_order
<1>4. ASSUME NEW id \in Ids, cancel(id)
      PROVE  UNCHANGED book \/ \E h \in Live : Removes(h)
  <2>1. CASE UNCHANGED book
    BY <2>1
  <2>2. CASE id_index[id] # Null /\ unlink_and_free(id_index[id], pool, levels)
    <3>1. pc = "idle" /\ call'.id = id
      BY <1>4 DEF cancel, Answer, CancelCall, NoCall
    <3> QED
      BY <2>2, <3>1, ClientRemoves
  <2> QED
    BY <1>4, <2>1, <2>2 DEF cancel
<1>5. ASSUME NEW id \in Ids, NEW price \in Ticks, NEW qty \in Quantities,
             modify(id, price, qty)
      PROVE  \/ UNCHANGED book
             \/ \E h \in Live : Removes(h)
             \/ \E h \in Live, q \in Quantity \ {0} : Reduces(h, q)
  <2> DEFINE h == id_index[id]
             o == pool[h]
  <2>1. pc = "idle" /\ call'.id = id
    <3>1. /\ CancelCall("modify", id).id = id
          /\ \A side, owner : SubmitCall("modify", id, side, "Limit", price, qty, owner).id = id
      BY DEF CancelCall, SubmitCall, NoCall
    <3>2. pc = "idle"
      BY <1>5 DEF modify
    <3>3. \/ call' = CancelCall("modify", id)
          \/ call' = SubmitCall("modify", id, o.side, "Limit", price, qty, o.owner)
      BY <1>5 DEF modify, Answer, StartSweep
    <3> QED
      BY <3>1, <3>2, <3>3
  <2>2. CASE h # Null /\ unlink_and_free(h, pool, levels)
    BY <2>1, <2>2, ClientRemoves
  <2>3. CASE /\ h # Null /\ qty # 0 /\ qty <= o.remaining
             /\ pool' = [pool EXCEPT ![h].remaining = qty]
             /\ levels' = [levels EXCEPT ![o.price].total =
                              (@ - (o.remaining - qty)) % QMod]
             /\ free' = free
    <3>1. /\ h \in Live /\ h \in Handles /\ o \in Order /\ Live \subseteq Handles
          /\ pool \in [Handles -> Order] /\ levels \in [Ticks -> PriceLevel]
      BY <2>3, IndexedOrder, InvParts DEF Structure, BookTypes, Live
    <3>2. o.price \in Ticks /\ o.remaining \in Quantity /\ qty \in Quantity
      BY <3>1, QuantitiesAssumption DEF Order, Quantity
    <3>3. (levels[o.price].total - (o.remaining - qty)) % QMod \in Quantity
      BY <3>1, <3>2, QModAssumption DEF PriceLevel, Quantity
    <3>4. SameShape(pool', levels')
      BY <2>3, <3>1, <3>2, <3>3 DEF SameShape, Order, PriceLevel
    <3>5. Reduces(h, qty)
      BY <2>3, <3>1, <3>2, <3>4 DEF Reduces, Order, PriceLevel
    <3> QED
      BY <2>3, <3>1, <3>2, <3>5
  <2>4. CASE UNCHANGED book
    BY <2>4
  <2> QED
    BY <1>5, <2>2, <2>3, <2>4 DEF modify
<1> QED
  BY <1>1, <1>2, <1>3, <1>4, <1>5 DEF Next, Cancel, Modify

(* The orders and quantities once an order rests in slot h.                *)
LEMMA AddsOrder ==
    ASSUME Structure, NEW h \in free, Adds(h)
    PROVE  /\ Live' = Live \cup {h} /\ h \notin Live
           /\ pool'[h].id = call.id /\ pool'[h].price = call.price
           /\ pool'[h].remaining = call.remaining
           /\ pool'[h].side = call.side /\ pool'[h].owner = call.owner
           /\ \A g \in Live : /\ pool'[g].price = pool[g].price
                              /\ pool'[g].remaining = pool[g].remaining
                              /\ pool'[g].id = pool[g].id
                              /\ pool'[g].side = pool[g].side
                              /\ pool'[g].owner = pool[g].owner
           /\ \A p \in Ticks :
                levels'[p].total = IF p = call.price
                                     THEN (levels[p].total + call.remaining) % QMod
                                     ELSE levels[p].total
<1> DEFINE l == levels[call.price]
           last == IF l.head = Null THEN Null ELSE l.tail
           o == [remaining |-> call.remaining, prev |-> last, next |-> Null,
                 id |-> call.id, price |-> call.price, side |-> call.side,
                 owner |-> call.owner]
<1>1. /\ call.price \in Ticks
      /\ rest_in_slot(h, call.id, call.side, call.price, call.remaining, call.owner)
  BY DEF Adds
<1>2. /\ h \in Handles /\ h \notin Live /\ Live' = Live \cup {h} /\ h # Null
      /\ pool \in [Handles -> Order] /\ levels \in [Ticks -> PriceLevel]
      /\ Live \subseteq Handles
  BY <1>1, NullAssumption DEF rest_in_slot, Structure, BookTypes, Live
<1>3. last # h
  BY <1>1, <1>2 DEF Structure, Linked
<1>4. pool' = [g \in Handles |-> CASE g = h    -> o
                                   [] g = last -> [pool[g] EXCEPT !.next = h]
                                   [] OTHER    -> pool[g]]
  BY <1>1 DEF rest_in_slot, OldTail
<1>5. /\ pool'[h] = o
      /\ \A g \in Handles \ {h} :
           pool'[g] = IF g = last THEN [pool[g] EXCEPT !.next = h] ELSE pool[g]
  BY <1>2, <1>3, <1>4
<1>6. ASSUME NEW g \in Live
      PROVE  /\ pool'[g].price = pool[g].price /\ pool'[g].remaining = pool[g].remaining
             /\ pool'[g].id = pool[g].id /\ pool'[g].side = pool[g].side
             /\ pool'[g].owner = pool[g].owner
  <2>1. pool[g] \in Order /\ g \in Handles \ {h}
    BY <1>2
  <2> QED
    BY <1>5, <2>1 DEF Order
<1>7. \A p \in Ticks :
        levels'[p].total = IF p = call.price THEN (levels[p].total + call.remaining) % QMod
                                             ELSE levels[p].total
  BY <1>1, <1>2 DEF rest_in_slot
<1> QED
  BY <1>2, <1>5, <1>6, <1>7

(* What a step does to the FIFO of a level: an order leaves it only for a  *)
(* reason TimePriority names, a new one comes at its end.                  *)
LEMMA StepFifo ==
    ASSUME BookInv, [Next]_vars, NEW p \in Ticks, NEW s, IsFifo(p, s)
    PROVE  \/ IsFifo(p, s)'
           \/ \E i \in 1 .. Len(s) :
                /\ IsFifo(p, Without(s, i))'
                /\ \/ pc = "idle" /\ call'.id = pool[s[i]].id
                   \/ /\ pc = "sweep" /\ i = 1
                      /\ trade'.resting_id = pool[s[1]].id
                      /\ p = OppositeBest
           \/ \E h \in free : /\ pc = "sweep"
                              /\ IsFifo(p, Append(s, h))'
                              /\ pool'[h].id = call.id
<1>1. Structure
  BY InvParts
<1>2. CASE UNCHANGED book
  BY <1>2, SameFifo
<1>3. ASSUME NEW h \in Live, Removes(h)
      PROVE  \/ IsFifo(p, s)'
             \/ \E i \in 1 .. Len(s) :
                  /\ IsFifo(p, Without(s, i))'
                  /\ \/ pc = "idle" /\ call'.id = pool[s[i]].id
                     \/ /\ pc = "sweep" /\ i = 1
                        /\ trade'.resting_id = pool[s[1]].id
                        /\ p = OppositeBest
  <2>1. PICK pl, lv : SameShape(pl, lv) /\ unlink_and_free(h, pl, lv)
    BY <1>3 DEF Removes
  <2>2. CASE p # pool[h].price
    BY <1>1, <2>1, <2>2, UnlinkOtherFifo
  <2>3. CASE p = pool[h].price
    <3>1. PICK i \in 1 .. Len(s) : s[i] = h
      BY <2>3 DEF IsFifo
    <3>2. IsFifo(p, Without(s, i))'
      BY <1>1, <2>1, <2>3, <3>1, UnlinkFifo
    <3>3. CASE pc = "idle" /\ call'.id = pool[h].id
      BY <3>1, <3>2, <3>3
    <3>4. CASE /\ pc = "sweep" /\ trade'.resting_id = pool[h].id
               /\ h = Meets /\ pool[h].price = OppositeBest
      <4>1. levels[p].head = h /\ p = OppositeBest
        BY <2>3, <3>4 DEF Meets
      <4>2. /\ Len(s) \in Nat /\ (s = <<>> <=> Len(s) = 0) /\ h # Null
        BY <3>1, FifoPositions
      <4>3. 1 \in 1 .. Len(s) /\ s # <<>>
        BY <4>2
      <4>4. s[1] = s[i]
        BY <3>1, <4>1, <4>3 DEF IsFifo
      <4>5. i = 1
        BY <4>3, <4>4 DEF IsFifo
      <4> QED
        BY <3>1, <3>2, <3>4, <4>1, <4>5
    <3> QED
      BY <1>3, <3>3, <3>4 DEF Removes
  <2> QED
    BY <2>2, <2>3
<1>4. ASSUME NEW h \in Live, NEW q, Reduces(h, q)
      PROVE  IsFifo(p, s)'
  BY <1>4, EditFifo DEF Reduces
<1>5. ASSUME NEW h \in free, Adds(h)
      PROVE  \/ IsFifo(p, s)'
             \/ pc = "sweep" /\ IsFifo(p, Append(s, h))' /\ pool'[h].id = call.id
  <2>1. /\ pc = "sweep" /\ call.price \in Ticks
        /\ rest_in_slot(h, call.id, call.side, call.price, call.remaining, call.owner)
    BY <1>5 DEF Adds
  <2>2. pool'[h].id = call.id
    BY <1>1, <1>5, AddsOrder
  <2>3. IF p = call.price THEN IsFifo(p, Append(s, h))' ELSE IsFifo(p, s)'
    BY <1>1, <2>1, RestFifo
  <2> QED
    BY <2>1, <2>2, <2>3
<1> QED
  BY <1>2, <1>3, <1>4, <1>5, Steps

-----------------------------------------------------------------------------
(* The invariant of the levels. *)

(* No live order is empty.                                                 *)
Positive == \A h \in Live : pool[h].remaining > 0

LevelInv == BookInv /\ HasFifos /\ Positive

(* An empty book has empty FIFOs.                                         *)
LEMMA InitLevels == Init => LevelInv
<1> SUFFICES ASSUME Init PROVE LevelInv
  OBVIOUS
<1>1. Live = {}
  BY DEF Init, Live
<1>2. ASSUME NEW p \in Ticks PROVE IsFifo(p, <<>>)
  <2>1. <<>> \in Seq(Live) /\ Len(<<>>) = 0
    BY EmptySeq
  <2>2. levels[p].head = Null
    BY DEF Init
  <2> QED
    BY <1>1, <2>1, <2>2 DEF IsFifo
<1> QED
  BY <1>1, <1>2, InitBookInv DEF LevelInv, HasFifos, Positive

(* A trade that uses an order up removes it in the same step.             *)
LEMMA NextPositive == BookInv /\ Positive /\ [Next]_vars => Positive'
<1> SUFFICES ASSUME BookInv, Positive, [Next]_vars PROVE Positive'
  OBVIOUS
<1>1. Structure
  BY InvParts
<1>2. CASE UNCHANGED book
  BY <1>2 DEF Positive, book, Live
<1>3. ASSUME NEW h \in Live, Removes(h) PROVE Positive'
  <2>1. Live' = Live \ {h}
    BY <1>1, <1>3, UnlinkLinks DEF Removes
  <2> QED
    BY <1>3, <2>1 DEF Positive, Removes
<1>4. ASSUME NEW h \in Live, NEW q \in Quantity \ {0}, Reduces(h, q) PROVE Positive'
  <2>1. Live' = Live /\ q > 0
    BY <1>4, QModAssumption DEF Reduces, Live, Quantity
  <2> QED
    BY <1>4, <2>1 DEF Positive, Reduces
<1>5. ASSUME NEW h \in free, Adds(h) PROVE Positive'
  <2>1. call.remaining > 0
    BY <1>5, QModAssumption DEF Adds, Quantity
  <2> QED
    BY <1>1, <1>5, <2>1, AddsOrder DEF Positive
<1> QED
  BY <1>2, <1>3, <1>4, <1>5, Steps

(* Every step leaves every level with a FIFO.                             *)
LEMMA NextLevels == LevelInv /\ BookInv' /\ [Next]_vars => LevelInv'
<1> SUFFICES ASSUME LevelInv, BookInv', [Next]_vars PROVE LevelInv'
  OBVIOUS
<1>1. ASSUME NEW p \in Ticks PROVE \E s : IsFifo(p, s)'
  <2>1. PICK s : IsFifo(p, s)
    BY DEF LevelInv, HasFifos
  <2> QED
    BY <2>1, StepFifo DEF LevelInv
<1> QED
  BY <1>1, NextPositive DEF LevelInv, HasFifos

(* The levels keep their FIFOs in every reachable state.                   *)
THEOREM LevelSafety == Spec => []LevelInv
BY BookSafety, InitLevels, NextLevels, PTL DEF Spec

(* Following the links of a level from its head meets each of its live     *)
(* orders once, and none of them is empty: no slot of the pool leaks from  *)
(* a level and none is linked twice.                                       *)
THEOREM FifosSound == Spec => []FifosHoldTheLiveOrders
<1>1. LevelInv => FifosHoldTheLiveOrders
  <2> SUFFICES ASSUME LevelInv PROVE FifosHoldTheLiveOrders
    OBVIOUS
  <2>1. ASSUME NEW p \in Ticks
        PROVE  LET here == {h \in Live : pool[h].price = p}
               IN  /\ {Fifo(p)[i] : i \in 1 .. Len(Fifo(p))} = here
                   /\ Len(Fifo(p)) = Cardinality(here)
    <3>1. PICK s : IsFifo(p, s)
      BY DEF LevelInv, HasFifos
    <3>2. Fifo(p) = s
      BY <3>1, FifoIs
    <3> QED
      <4>1. s \in Seq(Live) /\ \A i \in 1 .. Len(s) : s[i] \in Live /\ pool[s[i]].price = p
        BY <3>1, FifoPositions
      <4>2. {s[i] : i \in 1 .. Len(s)} = {h \in Live : pool[h].price = p}
        BY <3>1, <4>1 DEF IsFifo
      <4>3. Len(s) = Cardinality({h \in Live : pool[h].price = p})
        BY <3>1, FifoFacts
      <4> QED
        BY <3>2, <4>2, <4>3
  <2> QED
    BY <2>1 DEF FifosHoldTheLiveOrders, LevelInv, Positive
<1> QED
  BY <1>1, LevelSafety, PTL

(* Time priority at every level: orders leave a FIFO only when they are    *)
(* traded away at its head or cancelled or modified by their client, come  *)
(* in at the tail, and keep their place otherwise.                         *)
THEOREM Priority == Spec => TimePriority
<1> DEFINE Kept ==
      \A p \in Ticks :
         LET old == Fifo(p)
             new == Fifo(p)'
             gone(i) == SubSeq(old, 1, i - 1) \o SubSeq(old, i + 1, Len(old))
         IN  \/ new = old
             \/ \E i \in 1 .. Len(old) :
                  /\ new = gone(i)
                  /\ \/ pc = "idle" /\ call'.id = pool[old[i]].id
                     \/ /\ pc = "sweep" /\ i = 1
                        /\ trade'.resting_id = pool[old[1]].id
                        /\ p = OppositeBest
             \/ \E h \in free : /\ pc = "sweep"
                                /\ new = Append(old, h)
                                /\ pool'[h].id = call.id
<1>1. (\A p, s : IsFifo(p, s) => Fifo(p) = s)'
  BY FifoIs, PTL
<1>2. LevelInv /\ [Next]_vars => [Kept]_vars
  <2> SUFFICES ASSUME LevelInv, [Next]_vars PROVE Kept
    OBVIOUS
  <2> SUFFICES ASSUME NEW p \in Ticks
               PROVE  \/ Fifo(p)' = Fifo(p)
                      \/ \E i \in 1 .. Len(Fifo(p)) :
                           /\ Fifo(p)' = Without(Fifo(p), i)
                           /\ \/ pc = "idle" /\ call'.id = pool[Fifo(p)[i]].id
                              \/ /\ pc = "sweep" /\ i = 1
                                 /\ trade'.resting_id = pool[Fifo(p)[1]].id
                                 /\ p = OppositeBest
                      \/ \E h \in free : /\ pc = "sweep"
                                         /\ Fifo(p)' = Append(Fifo(p), h)
                                         /\ pool'[h].id = call.id
    BY DEF Without
  <2>1. PICK s : IsFifo(p, s)
    BY DEF LevelInv, HasFifos
  <2>2. Fifo(p) = s
    BY <2>1, FifoIs
  <2>3. \A t : IsFifo(p, t)' => Fifo(p)' = t
    BY <1>1
  <2> QED
    BY <2>1, <2>2, <2>3, StepFifo DEF LevelInv
<1> QED
  BY <1>2, LevelSafety, PTL DEF Spec, TimePriority

-----------------------------------------------------------------------------
(* Sums over finite sets. *)

Picked(s) == CHOOSE x \in s : TRUE

(* The recursion of MapThenSumSet, for the values f[x].                    *)
Sums(f, S, g) ==
    g = [s \in SUBSET S |-> IF s = {} THEN 0 ELSE f[Picked(s)] + g[s \ {Picked(s)}]]

Total(f, S) == (CHOOSE g : Sums(f, S, g))[S]

Counts(f, S) == IsFiniteSet(S) /\ \A x \in S : f[x] \in Nat

(* What one less element is to a finite set.                               *)
LEMMA OneLess ==
    ASSUME NEW S, IsFiniteSet(S), NEW x \in S
    PROVE  /\ IsFiniteSet(S \ {x})
           /\ Cardinality(S) \in Nat \ {0}
           /\ Cardinality(S \ {x}) = Cardinality(S) - 1
<1>1. /\ IsFiniteSet(S \ {x}) /\ Cardinality(S \ {x}) = Cardinality(S) - 1
  BY FS_RemoveElement
<1>2. Cardinality(S) \in Nat /\ Cardinality(S \ {x}) \in Nat
  BY <1>1, FS_CardinalityType
<1> QED
  BY <1>1, <1>2

(* A non-empty set has an element to pick.                                *)
LEMMA PickedIn == \A s : s # {} => Picked(s) \in s
BY DEF Picked

(* The recursion has a solution: one for the sets of up to n elements      *)
(* extends to those of n + 1.                                              *)
LEMMA SumsExist ==
    ASSUME NEW f, NEW S, Counts(f, S)
    PROVE  \E g \in [SUBSET S -> Nat] : Sums(f, S, g)
<1> DEFINE rest(s) == s \ {Picked(s)}
           UpTo(n, g) == \A s \in SUBSET S : Cardinality(s) <= n =>
                            g[s] = IF s = {} THEN 0 ELSE f[Picked(s)] + g[rest(s)]
           Bad == {n \in Nat : ~ \E g \in [SUBSET S -> Nat] : UpTo(n, g)}
<1>1. /\ IsFiniteSet(S) /\ Cardinality(S) \in Nat
      /\ \A s \in SUBSET S : /\ IsFiniteSet(s) /\ Cardinality(s) \in Nat
                             /\ Cardinality(s) <= Cardinality(S)
      /\ \A s \in SUBSET S : Cardinality(s) = 0 => s = {}
  BY FS_Subset, FS_CardinalityType, FS_EmptySet DEF Counts
<1>2. \A s \in SUBSET S : s # {} =>
        /\ rest(s) \in SUBSET S /\ f[Picked(s)] \in Nat
        /\ Cardinality(rest(s)) = Cardinality(s) - 1
  BY <1>1, PickedIn, OneLess DEF Counts
<1> HIDE DEF rest
<1>3. Bad = {}
  <2>1. SUFFICES ASSUME Bad # {} PROVE FALSE
    OBVIOUS
  <2>2. PICK n \in Bad : \A m \in Bad : n <= m
    <3>1. Bad \in SUBSET Nat
      OBVIOUS
    <3> HIDE DEF Bad
    <3> QED
      BY <2>1, <3>1, LeastExists
  <2>3. n # 0
    <3> DEFINE z == [s \in SUBSET S |-> 0]
    <3>1. z \in [SUBSET S -> Nat] /\ \A s \in SUBSET S : z[s] = 0
      OBVIOUS
    <3> HIDE DEF z
    <3>2. UpTo(0, z)
      <4> SUFFICES ASSUME NEW s \in SUBSET S, Cardinality(s) <= 0
                   PROVE  s = {} /\ z[s] = 0
        OBVIOUS
      <4> QED
        BY <1>1, <3>1
    <3> HIDE DEF UpTo
    <3>3. 0 \notin Bad
      BY <3>1, <3>2
    <3> QED
      BY <3>3
  <2>4. n - 1 \in Nat /\ n - 1 \notin Bad
    <3>1. n \in Nat
      OBVIOUS
    <3> HIDE DEF Bad
    <3> QED
      BY <2>2, <2>3, <3>1
  <2>5. PICK g \in [SUBSET S -> Nat] : UpTo(n - 1, g)
    BY <2>4
  <2> DEFINE k == [s \in SUBSET S |-> IF Cardinality(s) = n
                                        THEN f[Picked(s)] + g[rest(s)] ELSE g[s]]
  <2>6. \A s \in SUBSET S : Cardinality(s) = n => s # {}
    BY <1>1, <2>3, FS_EmptySet
  <2>7. k \in [SUBSET S -> Nat]
    BY <1>2, <2>6
  <2>8. \A s \in SUBSET S : k[s] = IF Cardinality(s) = n
                                     THEN f[Picked(s)] + g[rest(s)] ELSE g[s]
    OBVIOUS
  <2> HIDE DEF k
  <2>9. UpTo(n, k)
    <3> SUFFICES ASSUME NEW s \in SUBSET S, Cardinality(s) <= n
                 PROVE  k[s] = IF s = {} THEN 0 ELSE f[Picked(s)] + k[rest(s)]
      OBVIOUS
    <3>1. s # {} => k[rest(s)] = g[rest(s)] /\ Cardinality(rest(s)) <= n - 1
      BY <1>1, <1>2, <2>8
    <3>2. CASE Cardinality(s) = n
      BY <2>6, <2>8, <3>1, <3>2
    <3>3. CASE Cardinality(s) # n
      <4>1. Cardinality(s) <= n - 1 /\ k[s] = g[s]
        BY <1>1, <2>8, <3>3
      <4>2. g[s] = IF s = {} THEN 0 ELSE f[Picked(s)] + g[rest(s)]
        BY <2>5, <4>1
      <4> QED
        BY <3>1, <4>1, <4>2
    <3> QED
      BY <3>2, <3>3
  <2> HIDE DEF UpTo
  <2> QED
    BY <2>2, <2>7, <2>9
<1>4. PICK g \in [SUBSET S -> Nat] : UpTo(Cardinality(S), g)
  BY <1>1, <1>3
<1>5. \A s \in SUBSET S : g[s] = IF s = {} THEN 0 ELSE f[Picked(s)] + g[rest(s)]
  BY <1>1, <1>4
<1>6. Sums(f, S, g)
  BY <1>5 DEF Sums, rest
<1> QED
  BY <1>6

(* Any element may be taken off first.                                     *)
LEMMA SumsAnyOrder ==
    ASSUME NEW f, NEW S, Counts(f, S), NEW g, Sums(f, S, g)
    PROVE  /\ g[{}] = 0
           /\ \A s \in SUBSET S : g[s] \in Nat /\ \A x \in s : g[s] = f[x] + g[s \ {x}]
<1> DEFINE Fine(s) == g[s] \in Nat /\ \A x \in s : g[s] = f[x] + g[s \ {x}]
           Bad == {n \in Nat : \E s \in SUBSET S : Cardinality(s) = n /\ ~Fine(s)}
<1>1. /\ g[{}] = 0
      /\ \A s \in SUBSET S : s # {} => g[s] = f[Picked(s)] + g[s \ {Picked(s)}]
  BY DEF Sums
<1>2. \A s \in SUBSET S : IsFiniteSet(s) /\ Cardinality(s) \in Nat
  BY FS_Subset, FS_CardinalityType DEF Counts
<1>3. \A s \in SUBSET S : \A x \in s :
         s \ {x} \in SUBSET S /\ Cardinality(s \ {x}) = Cardinality(s) - 1 /\ f[x] \in Nat
  BY <1>2, OneLess DEF Counts
<1>4. Bad = {}
  <2>1. SUFFICES ASSUME Bad # {} PROVE FALSE
    OBVIOUS
  <2>2. PICK n \in Bad : \A m \in Bad : n <= m
    <3>1. Bad \in SUBSET Nat
      OBVIOUS
    <3> HIDE DEF Bad
    <3> QED
      BY <2>1, <3>1, LeastExists
  <2>3. PICK s \in SUBSET S : Cardinality(s) = n /\ ~Fine(s)
    BY <2>2
  <2>4. \A t \in SUBSET S : Cardinality(t) < n => Fine(t)
    BY <1>2, <2>2
  <2> HIDE DEF Fine
  <2>5. \A x \in s : s \ {x} \in SUBSET S /\ Fine(s \ {x})
    BY <1>2, <1>3, <2>3, <2>4
  <2> DEFINE y == Picked(s)
  <2>6. CASE s = {}
    BY <1>1, <2>3, <2>6 DEF Fine
  <2>7. CASE s # {}
    <3>1. y \in s /\ g[s] = f[y] + g[s \ {y}]
      BY <1>1, <2>7, PickedIn
    <3> HIDE DEF y
    <3>4. f[y] \in Nat /\ g[s \ {y}] \in Nat
      BY <2>5, <3>1 DEF Fine, Counts
    <3>2. g[s] \in Nat
      BY <3>1, <3>4
    <3>3. ASSUME NEW x \in s, x # y
          PROVE  g[s] = f[x] + g[s \ {x}]
      <4>1. x \in s \ {y} /\ y \in s \ {x} /\ (s \ {y}) \ {x} = (s \ {x}) \ {y}
        BY <3>1, <3>3
      <4>2. g[s \ {y}] = f[x] + g[(s \ {y}) \ {x}]
        BY <2>5, <3>1, <4>1 DEF Fine
      <4>3. g[s \ {x}] = f[y] + g[(s \ {x}) \ {y}]
        BY <2>5, <4>1 DEF Fine
      <4> DEFINE w == g[(s \ {x}) \ {y}]
      <4>4. w \in Nat
        <5>1. /\ (s \ {x}) \ {y} \in SUBSET S
              /\ Cardinality((s \ {x}) \ {y}) = (Cardinality(s) - 1) - 1
          <6>1. s \ {x} \in SUBSET S /\ Cardinality(s \ {x}) = Cardinality(s) - 1
            BY <1>3
          <6>2. Cardinality((s \ {x}) \ {y}) = Cardinality(s \ {x}) - 1
            BY <1>3, <4>1, <6>1
          <6> QED
            BY <6>1, <6>2
        <5>2. Cardinality((s \ {x}) \ {y}) < n
          BY <2>3, <5>1, <1>2
        <5> QED
          BY <2>4, <5>1, <5>2 DEF Fine
      <4>5. f[x] \in Nat /\ g[s \ {y}] = f[x] + w /\ g[s \ {x}] = f[y] + w
        BY <4>1, <4>2, <4>3 DEF Counts
      <4> HIDE DEF w
      <4> QED
        BY <3>1, <3>4, <4>4, <4>5
    <3> QED
      BY <2>3, <3>1, <3>2, <3>3 DEF Fine
  <2> QED
    BY <2>6, <2>7
<1>5. \A s \in SUBSET S : Fine(s)
  BY <1>2, <1>4
<1> QED
  BY <1>1, <1>5

(* What the recursion computes for a set does not depend on the set it is  *)
(* started from.                                                           *)
LEMMA SumsAgree ==
    ASSUME NEW f, NEW S, Counts(f, S), NEW g, Sums(f, S, g),
           NEW e, NEW T, Counts(e, T), NEW k, Sums(e, T, k),
           \A x \in S \cap T : f[x] = e[x]
    PROVE  \A s \in SUBSET (S \cap T) : g[s] = k[s]
<1> DEFINE U == S \cap T
           Bad == {n \in Nat : \E s \in SUBSET U : Cardinality(s) = n /\ g[s] # k[s]}
<1>1. /\ g[{}] = 0 /\ k[{}] = 0
      /\ \A s \in SUBSET U : s # {} => /\ g[s] = f[Picked(s)] + g[s \ {Picked(s)}]
                                       /\ k[s] = e[Picked(s)] + k[s \ {Picked(s)}]
  BY DEF Sums
<1>2. \A s \in SUBSET U : IsFiniteSet(s) /\ Cardinality(s) \in Nat
  BY FS_Subset, FS_CardinalityType DEF Counts
<1>3. Bad = {}
  <2>1. SUFFICES ASSUME Bad # {} PROVE FALSE
    OBVIOUS
  <2>2. PICK n \in Bad : \A m \in Bad : n <= m
    <3>1. Bad \in SUBSET Nat
      OBVIOUS
    <3> HIDE DEF Bad
    <3> QED
      BY <2>1, <3>1, LeastExists
  <2>3. PICK s \in SUBSET U : Cardinality(s) = n /\ g[s] # k[s]
    BY <2>2
  <2>4. \A t \in SUBSET U : Cardinality(t) < n => g[t] = k[t]
    BY <1>2, <2>2
  <2>5. s # {}
    BY <1>1, <2>3
  <2> DEFINE y == Picked(s)
  <2>6. y \in s /\ g[s] = f[y] + g[s \ {y}] /\ k[s] = e[y] + k[s \ {y}]
    BY <1>1, <2>5, PickedIn
  <2> HIDE DEF y
  <2>7. s \ {y} \in SUBSET U /\ Cardinality(s \ {y}) < n
    BY <1>2, <2>3, <2>6, OneLess
  <2>8. f[y] = e[y]
    BY <2>6
  <2> QED
    BY <2>3, <2>4, <2>6, <2>7, <2>8
<1> QED
  BY <1>2, <1>3

(* The total is what any solution of the recursion says.                   *)
LEMMA TotalIs ==
    ASSUME NEW f, NEW S, Counts(f, S), NEW g, Sums(f, S, g)
    PROVE  \A s \in SUBSET S : Total(f, s) = g[s]
<1> SUFFICES ASSUME NEW s \in SUBSET S PROVE Total(f, s) = g[s]
  OBVIOUS
<1> DEFINE k == CHOOSE w : Sums(f, s, w)
<1>1. Counts(f, s)
  BY FS_Subset DEF Counts
<1>2. Sums(f, s, k)
  BY <1>1, SumsExist
<1>3. Total(f, s) = k[s]
  BY DEF Total
<1> HIDE DEF k
<1>4. s \in SUBSET (S \cap s)
  OBVIOUS
<1> QED
  BY <1>1, <1>2, <1>3, <1>4, SumsAgree

(* The laws of the total: nothing, and one element at a time, in any order.*)
LEMMA TotalLaws ==
    ASSUME NEW f, NEW S, Counts(f, S)
    PROVE  /\ Total(f, S) \in Nat
           /\ S = {} => Total(f, S) = 0
           /\ \A x \in S : Total(f, S) = f[x] + Total(f, S \ {x})
<1>1. PICK g \in [SUBSET S -> Nat] : Sums(f, S, g)
  BY SumsExist
<1>2. \A s \in SUBSET S : Total(f, s) = g[s]
  BY <1>1, TotalIs
<1>3. /\ g[{}] = 0
      /\ \A s \in SUBSET S : g[s] \in Nat /\ \A x \in s : g[s] = f[x] + g[s \ {x}]
  BY <1>1, SumsAnyOrder
<1>4. S \in SUBSET S /\ \A x \in S : S \ {x} \in SUBSET S
  OBVIOUS
<1> QED
  BY <1>2, <1>3, <1>4

(* Only the values on the set count.                                       *)
LEMMA TotalSame ==
    ASSUME NEW f, NEW S, Counts(f, S), NEW e, \A x \in S : e[x] = f[x]
    PROVE  Total(e, S) = Total(f, S)
<1>1. Counts(e, S)
  BY DEF Counts
<1>2. PICK g \in [SUBSET S -> Nat] : Sums(f, S, g)
  BY SumsExist
<1>3. PICK k \in [SUBSET S -> Nat] : Sums(e, S, k)
  BY <1>1, SumsExist
<1>4. Total(f, S) = g[S] /\ Total(e, S) = k[S]
  BY <1>1, <1>2, <1>3, TotalIs
<1>5. S \in SUBSET (S \cap S)
  OBVIOUS
<1>6. g[S] = k[S]
  BY <1>1, <1>2, <1>3, <1>5, SumsAgree
<1> QED
  BY <1>4, <1>6

-----------------------------------------------------------------------------
(* Arithmetic in the width of Quantity. *)

(* Quotient and remainder of the width.                                   *)
LEMMA DivMod ==
    ASSUME NEW a \in Int
    PROVE  /\ a \div QMod \in Int /\ a % QMod \in 0 .. QMod - 1
           /\ a = QMod * (a \div QMod) + (a % QMod)
BY QModAssumption

(* Remainders are unique.                                                  *)
LEMMA OneRemainder ==
    ASSUME NEW q \in Int, NEW r \in 0 .. QMod - 1, NEW t \in Int, NEW u \in 0 .. QMod - 1,
           QMod * q + r = QMod * t + u
    PROVE  r = u
<1>1. QMod \in Nat /\ QMod > 0
  BY QModAssumption
<1>2. ASSUME NEW i \in Int, NEW j \in Int, i < j
      PROVE  QMod * i + QMod <= QMod * j
  <2>1. QMod * (i + 1) = QMod * i + QMod
    BY <1>1
  <2>2. QMod * (j - (i + 1)) >= 0
    BY <1>1, <1>2
  <2>3. QMod * (j - (i + 1)) = QMod * j - QMod * (i + 1)
    BY <1>1
  <2> QED
    BY <1>1, <2>1, <2>2, <2>3
<1>3. QMod * q \in Int /\ QMod * t \in Int
  BY <1>1
<1>4. ~(q < t)
  <2>1. SUFFICES ASSUME q < t PROVE FALSE
    OBVIOUS
  <2>2. QMod * q + QMod <= QMod * t
    BY <1>2, <2>1
  <2> QED
    BY <1>1, <1>3, <2>2
<1>5. ~(t < q)
  <2>1. SUFFICES ASSUME t < q PROVE FALSE
    OBVIOUS
  <2>2. QMod * t + QMod <= QMod * q
    BY <1>2, <2>1
  <2> QED
    BY <1>1, <1>3, <2>2
<1>6. q = t
  BY <1>4, <1>5
<1> QED
  BY <1>1, <1>3, <1>6

(* Wrapping early or late is the same.                                     *)
LEMMA ModAdd ==
    ASSUME NEW a \in Int, NEW b \in Int
    PROVE  ((a % QMod) + b) % QMod = (a + b) % QMod
<1> DEFINE r == a % QMod
           d == r + b
           c == a + b
           i == a \div QMod
           j == d \div QMod
           k == c \div QMod
<1>1. QMod \in Nat /\ QMod > 0
  BY QModAssumption
<1>2. i \in Int /\ r \in Int /\ a = QMod * i + r
  BY DivMod
<1> HIDE DEF r, i
<1>3. d \in Int /\ c \in Int
  BY <1>2
<1>4. j \in Int /\ d % QMod \in 0 .. QMod - 1 /\ d = QMod * j + (d % QMod)
  BY <1>3, DivMod
<1>5. k \in Int /\ c % QMod \in 0 .. QMod - 1 /\ c = QMod * k + (c % QMod)
  BY <1>3, DivMod
<1>6. c = QMod * i + d
  BY <1>2, <1>1
<1> DEFINE x == d % QMod
           y == c % QMod
<1> HIDE DEF j, k, d, c, x, y
<1>7. x \in 0 .. QMod - 1 /\ d = QMod * j + x /\ y \in 0 .. QMod - 1 /\ c = QMod * k + y
  BY <1>4, <1>5 DEF x, y
<1>8. QMod * (i + j) = QMod * i + QMod * j /\ i + j \in Int
  BY <1>1, <1>2, <1>4
<1>9. QMod * (i + j) + x = QMod * k + y
  <2>1. QMod * i \in Int /\ QMod * j \in Int /\ QMod * k \in Int
    BY <1>1, <1>2, <1>4, <1>5
  <2> QED
    BY <1>6, <1>7, <1>8, <2>1
<1>10. x = y
  BY <1>5, <1>7, <1>8, <1>9, OneRemainder
<1> QED
  BY <1>10 DEF x, y, d, c, r

(* The same for a subtraction.                                            *)
LEMMA ModSubtract ==
    ASSUME NEW a \in Int, NEW b \in Int
    PROVE  ((a % QMod) - b) % QMod = (a - b) % QMod
<1> DEFINE r == a % QMod
<1>1. r \in Int /\ -b \in Int
  BY QModAssumption
<1> HIDE DEF r
<1>2. r + (-b) = r - b /\ a + (-b) = a - b
  BY <1>1
<1>3. (r + (-b)) % QMod = (a + (-b)) % QMod
  BY <1>1, ModAdd DEF r
<1>4. (r - b) % QMod = (a - b) % QMod
  BY <1>2, <1>3
<1> QED
  BY <1>4 DEF r

(* A quantity in range is its own remainder.                               *)
LEMMA ModBelow ==
    ASSUME NEW a \in Nat
    PROVE  /\ a % QMod \in Quantity /\ a % QMod <= a
           /\ a < QMod => a % QMod = a
BY QModAssumption DEF Quantity

-----------------------------------------------------------------------------
(* The aggregates of the levels. *)

(* The quantity in each slot, and the live orders of a level.              *)
Left == [h \in Handles |-> pool[h].remaining]

Here(p) == {h \in Live : pool[h].price = p}

(* MapThenSumSet over slots is the total of what is left in them.          *)
SumsLeft(S, g) ==
    g = [s \in SUBSET S |->
           IF s = {} THEN 0
           ELSE pool[CHOOSE x \in s : TRUE].remaining + g[s \ {CHOOSE x \in s : TRUE}]]

(* Sets of slots can be summed over.                                      *)
LEMMA LeftCounts ==
    ASSUME pool \in [Handles -> Order], NEW S \in SUBSET Handles
    PROVE  Counts(Left, S)
<1>1. IsFiniteSet(S)
  BY FiniteAssumption, FS_Subset
<1>2. \A h \in S : pool[h].remaining \in Nat
  BY QModAssumption DEF Order, Quantity
<1> QED
  BY <1>1, <1>2 DEF Counts, Left

(* The sum that LevelTotals takes is a total.                             *)
LEMMA LeftSum ==
    ASSUME pool \in [Handles -> Order], NEW S \in SUBSET Handles
    PROVE  MapThenSumSet(LAMBDA h : pool[h].remaining, S) = Total(Left, S)
<1> DEFINE g == CHOOSE w : SumsLeft(S, w)
<1>1. MapThenSumSet(LAMBDA h : pool[h].remaining, S) = g[S]
  BY DEF MapThenSumSet, MapThenFoldSet, SumsLeft
<1>2. Counts(Left, S)
  BY LeftCounts
<1>3. ASSUME NEW w PROVE SumsLeft(S, w) <=> Sums(Left, S, w)
  <2>1. \A s \in SUBSET S : s # {} =>
          pool[CHOOSE x \in s : TRUE].remaining = Left[Picked(s)]
    BY DEF Left, Picked
  <2> QED
    BY <2>1 DEF SumsLeft, Sums, Picked
<1>4. \E w : SumsLeft(S, w)
  BY <1>2, <1>3, SumsExist
<1>5. SumsLeft(S, g)
  BY <1>4
<1> HIDE DEF g
<1>6. Sums(Left, S, g) /\ S \in SUBSET S
  BY <1>3, <1>5
<1> QED
  BY <1>1, <1>2, <1>6, TotalIs

(* LevelTotals in terms of totals.                                        *)
LEMMA TotalsForm ==
    ASSUME pool \in [Handles -> Order]
    PROVE  LevelTotals <=> \A p \in Ticks : levels[p].total = Total(Left, Here(p)) % QMod
<1>1. \A p : MapThenSumSet(LAMBDA h : pool[h].remaining, {h \in Live : pool[h].price = p})
               = Total(Left, Here(p))
  <2> TAKE p
  <2>1. Here(p) \in SUBSET Handles
    BY DEF Here, Live
  <2>2. MapThenSumSet(LAMBDA h : pool[h].remaining, Here(p)) = Total(Left, Here(p))
    BY <2>1, LeftSum
  <2> QED
    BY <2>2 DEF Here
<1> QED
  BY <1>1 DEF LevelTotals

(* The quantities in the slots after a step, for the slots it may change.  *)
LEMMA LeftValues ==
    ASSUME pool \in [Handles -> Order], pool' \in [Handles -> Order]
    PROVE  \A h \in Handles : /\ Left[h] = pool[h].remaining
                              /\ Left'[h] = pool'[h].remaining
                              /\ Left[h] \in Nat /\ Left'[h] \in Nat
BY QModAssumption DEF Left, Order, Quantity

(* A step that takes an order out takes its quantity off its level.        *)
LEMMA RemovesTotal ==
    ASSUME Structure, pool' \in [Handles -> Order], NEW h \in Live, Removes(h),
           NEW p \in Ticks, levels[p].total = Total(Left, Here(p)) % QMod
    PROVE  levels'[p].total = Total(Left', Here(p)') % QMod
<1>1. /\ pool \in [Handles -> Order] /\ Live \subseteq Handles
      /\ Here(p) \in SUBSET Handles
  BY DEF Structure, BookTypes, Live, Here
<1>2. Live' = Live \ {h} /\ \A g \in Live' : pool'[g].price = pool[g].price
  BY UnlinkLinks DEF Removes
<1>3. /\ \A g \in Live \ {h} : pool'[g].remaining = pool[g].remaining
      /\ levels'[p].total = IF p = pool[h].price
                              THEN (levels[p].total - pool[h].remaining) % QMod
                              ELSE levels[p].total
  BY DEF Removes
<1>4. Here(p)' = Here(p) \ {h}
  BY <1>2 DEF Here
<1>5. \A g \in Handles : /\ Left[g] = pool[g].remaining
                         /\ Left'[g] = pool'[g].remaining
                         /\ Left[g] \in Nat
  BY <1>1, LeftValues
<1>6. Counts(Left, Here(p)) /\ Counts(Left, Here(p) \ {h})
  BY <1>1, LeftCounts
<1>7. Total(Left', Here(p) \ {h}) = Total(Left, Here(p) \ {h})
  <2>1. \A g \in Here(p) \ {h} : Left'[g] = Left[g]
    BY <1>1, <1>3, <1>5 DEF Here
  <2> QED
    BY <1>6, <2>1, TotalSame
<1>8. CASE p = pool[h].price
  <2> DEFINE a == Total(Left, Here(p))
             b == Total(Left, Here(p) \ {h})
             q == pool[h].remaining
  <2>1. h \in Here(p)
    BY <1>8 DEF Here
  <2>2. a \in Nat /\ b \in Nat /\ a = q + b
    <3>1. a \in Nat /\ b \in Nat
      BY <1>6, TotalLaws
    <3>2. a = Left[h] + b
      BY <1>6, <2>1, TotalLaws, Zenon
    <3>3. Left[h] = q
      BY <1>1, <1>5
    <3> QED
      BY <3>1, <3>2, <3>3
  <2>3. q \in Nat
    BY <1>1, <1>5
  <2> HIDE DEF a, b, q
  <2>4. ((a % QMod) - q) % QMod = (a - q) % QMod
    BY <2>2, <2>3, ModSubtract
  <2>5. a - q = b
    BY <2>2, <2>3
  <2>6. levels'[p].total = ((a % QMod) - q) % QMod
    BY <1>3, <1>8 DEF a, q
  <2> QED
    BY <1>4, <1>7, <2>4, <2>5, <2>6 DEF b
<1>9. CASE p # pool[h].price
  <2>1. Here(p) \ {h} = Here(p)
    BY <1>9 DEF Here
  <2> QED
    BY <1>3, <1>4, <1>7, <1>9, <2>1
<1> QED
  BY <1>8, <1>9

(* A step that reduces an order takes the difference off its level.        *)
LEMMA ReducesTotal ==
    ASSUME Structure, pool' \in [Handles -> Order], NEW h \in Live, NEW q \in Quantity,
           Reduces(h, q),
           NEW p \in Ticks, levels[p].total = Total(Left, Here(p)) % QMod
    PROVE  levels'[p].total = Total(Left', Here(p)') % QMod
<1>1. /\ pool \in [Handles -> Order] /\ Live \subseteq Handles
      /\ Here(p) \in SUBSET Handles
  BY DEF Structure, BookTypes, Live, Here
<1>2. Live' = Live /\ \A g \in Handles : pool'[g].price = pool[g].price
  BY DEF Reduces, SameShape, Live
<1>3. /\ \A g \in Live \ {h} : pool'[g].remaining = pool[g].remaining
      /\ pool'[h].remaining = q
      /\ levels'[p].total = IF p = pool[h].price
                              THEN (levels[p].total - (pool[h].remaining - q)) % QMod
                              ELSE levels[p].total
  BY DEF Reduces
<1>4. Here(p)' = Here(p)
  BY <1>1, <1>2 DEF Here
<1>5. \A g \in Handles : /\ Left[g] = pool[g].remaining
                         /\ Left'[g] = pool'[g].remaining
                         /\ Left[g] \in Nat /\ Left'[g] \in Nat
  BY <1>1, LeftValues
<1>6. /\ Counts(Left, Here(p)) /\ Counts(Left, Here(p) \ {h})
      /\ Counts(Left', Here(p))
  <2>1. Counts(Left, Here(p)) /\ Counts(Left, Here(p) \ {h})
    BY <1>1, LeftCounts
  <2> QED
    BY <1>1, <1>5, <2>1 DEF Counts
<1>7. Total(Left', Here(p) \ {h}) = Total(Left, Here(p) \ {h})
  <2>1. \A g \in Here(p) \ {h} : Left'[g] = Left[g]
    BY <1>1, <1>3, <1>5 DEF Here
  <2> QED
    BY <1>6, <2>1, TotalSame
<1>8. CASE p = pool[h].price
  <2> DEFINE a == Total(Left, Here(p))
             b == Total(Left, Here(p) \ {h})
             c == Total(Left', Here(p))
             r == pool[h].remaining
  <2>1. h \in Here(p)
    BY <1>8 DEF Here
  <2>2. a \in Nat /\ a = r + b
    BY <1>1, <1>5, <1>6, <2>1, TotalLaws
  <2>3. b \in Nat
    BY <1>6, TotalLaws
  <2>4. c = q + b
    <3>1. c = Left'[h] + Total(Left', Here(p) \ {h})
      BY <1>6, <2>1, TotalLaws
    <3> QED
      BY <1>1, <1>3, <1>5, <1>7, <3>1
  <2>5. q \in Nat /\ r \in Nat
    BY <1>1, <1>5, QModAssumption DEF Quantity
  <2> HIDE DEF a, b, c, r
  <2>6. ((a % QMod) - (r - q)) % QMod = (a - (r - q)) % QMod
    BY <2>2, <2>5, ModSubtract
  <2>7. a - (r - q) = c
    BY <2>2, <2>3, <2>4, <2>5
  <2>8. levels'[p].total = ((a % QMod) - (r - q)) % QMod
    BY <1>3, <1>8 DEF a, r
  <2> QED
    BY <1>4, <2>6, <2>7, <2>8 DEF c
<1>9. CASE p # pool[h].price
  <2>1. Here(p) \ {h} = Here(p)
    BY <1>9 DEF Here
  <2> QED
    BY <1>3, <1>4, <1>7, <1>9, <2>1
<1> QED
  BY <1>8, <1>9

(* An order that rests adds its quantity to its level.                     *)
LEMMA AddsTotal ==
    ASSUME Structure, pool' \in [Handles -> Order], NEW h \in free, Adds(h),
           NEW p \in Ticks, levels[p].total = Total(Left, Here(p)) % QMod
    PROVE  levels'[p].total = Total(Left', Here(p)') % QMod
<1>1. /\ pool \in [Handles -> Order] /\ Live \subseteq Handles /\ h \in Handles
      /\ Here(p) \in SUBSET Handles
  BY DEF Structure, BookTypes, Live, Here
<1>2. /\ Live' = Live \cup {h} /\ h \notin Live
      /\ pool'[h].price = call.price /\ pool'[h].remaining = call.remaining
      /\ \A g \in Live : /\ pool'[g].price = pool[g].price
                         /\ pool'[g].remaining = pool[g].remaining
      /\ levels'[p].total = IF p = call.price
                              THEN (levels[p].total + call.remaining) % QMod
                              ELSE levels[p].total
  BY AddsOrder
<1>3. \A g \in Handles : /\ Left[g] = pool[g].remaining
                         /\ Left'[g] = pool'[g].remaining
                         /\ Left'[g] \in Nat
  BY <1>1, LeftValues
<1>4. Counts(Left, Here(p))
  BY <1>1, LeftCounts
<1>5. Total(Left', Here(p)) = Total(Left, Here(p))
  <2>1. \A g \in Here(p) : Left'[g] = Left[g]
    BY <1>1, <1>2, <1>3 DEF Here
  <2> QED
    BY <1>4, <2>1, TotalSame
<1>6. CASE p = call.price
  <2> DEFINE a == Total(Left, Here(p))
             q == call.remaining
             S == Here(p) \cup {h}
  <2>1. Here(p)' = S /\ S \ {h} = Here(p) /\ h \in S /\ S \in SUBSET Handles
    BY <1>1, <1>2, <1>6 DEF Here
  <2> HIDE DEF S
  <2>2. Counts(Left', S)
    <3>1. IsFiniteSet(S)
      BY <2>1, FiniteAssumption, FS_Subset
    <3> QED
      BY <1>3, <2>1, <3>1 DEF Counts
  <2>3. Total(Left', S) = Left'[h] + Total(Left', S \ {h})
    BY <2>1, <2>2, TotalLaws
  <2>4. Total(Left', S) = q + a /\ q \in Nat
    BY <1>1, <1>2, <1>3, <1>5, <2>1, <2>3
  <2>5. a \in Nat
    BY <1>4, TotalLaws
  <2> HIDE DEF a, q
  <2>6. ((a % QMod) + q) % QMod = (a + q) % QMod
    BY <2>4, <2>5, ModAdd
  <2>7. a + q = Total(Left', S)
    BY <2>4, <2>5
  <2>8. levels'[p].total = ((a % QMod) + q) % QMod
    BY <1>2, <1>6 DEF a, q
  <2> QED
    BY <2>1, <2>6, <2>7, <2>8
<1>7. CASE p # call.price
  <2>1. Here(p)' = Here(p)
    BY <1>2, <1>7 DEF Here
  <2> QED
    BY <1>2, <1>5, <1>7, <2>1
<1> QED
  BY <1>6, <1>7

(* The same in the state after a step.                                    *)
LEMMA TotalsFormNext ==
    pool' \in [Handles -> Order] =>
      (LevelTotals' <=> \A p \in Ticks : levels'[p].total = Total(Left', Here(p)') % QMod)
<1>1. pool \in [Handles -> Order] =>
        (LevelTotals <=> \A p \in Ticks : levels[p].total = Total(Left, Here(p)) % QMod)
  BY TotalsForm
<1>2. (pool \in [Handles -> Order] =>
        (LevelTotals <=> \A p \in Ticks : levels[p].total = Total(Left, Here(p)) % QMod))'
  BY <1>1, PTL
<1> QED
  BY <1>2

(* The four updates of a level's aggregate keep it exact.                  *)
LEMMA NextTotals == BookInv /\ BookInv' /\ LevelTotals /\ [Next]_vars => LevelTotals'
<1> SUFFICES ASSUME BookInv, BookInv', LevelTotals, [Next]_vars PROVE LevelTotals'
  OBVIOUS
<1>1. /\ Structure /\ pool \in [Handles -> Order] /\ pool' \in [Handles -> Order]
  BY InvParts DEF BookInv, TypeOK
<1> SUFFICES ASSUME NEW p \in Ticks
             PROVE  levels'[p].total = Total(Left', Here(p)') % QMod
  BY <1>1, TotalsFormNext
<1>2. levels[p].total = Total(Left, Here(p)) % QMod
  BY <1>1, TotalsForm
<1>3. CASE UNCHANGED book
  <2>1. Left' = Left /\ Here(p)' = Here(p) /\ levels' = levels
    BY <1>3 DEF book, Left, Here, Live
  <2> QED
    BY <1>2, <2>1
<1>4. ASSUME NEW h \in Live, Removes(h)
      PROVE  levels'[p].total = Total(Left', Here(p)') % QMod
  BY <1>1, <1>2, <1>4, RemovesTotal
<1>5. ASSUME NEW h \in Live, NEW q \in Quantity \ {0}, Reduces(h, q)
      PROVE  levels'[p].total = Total(Left', Here(p)') % QMod
  BY <1>1, <1>2, <1>5, ReducesTotal
<1>6. ASSUME NEW h \in free, Adds(h)
      PROVE  levels'[p].total = Total(Left', Here(p)') % QMod
  BY <1>1, <1>2, <1>6, AddsTotal
<1> QED
  BY <1>3, <1>4, <1>5, <1>6, Steps

(* The aggregates of an empty book are zero.                              *)
LEMMA InitTotals == Init => LevelTotals
<1> SUFFICES ASSUME Init PROVE LevelTotals
  OBVIOUS
<1>1. pool \in [Handles -> Order]
  BY InitBookInv DEF BookInv, TypeOK
<1> SUFFICES ASSUME NEW p \in Ticks PROVE levels[p].total = Total(Left, Here(p)) % QMod
  BY <1>1, TotalsForm
<1>2. Here(p) = {} /\ levels[p].total = 0
  BY DEF Init, Here, Live
<1>3. Counts(Left, {})
  BY FS_EmptySet DEF Counts
<1>4. Total(Left, {}) = 0
  BY <1>3, TotalLaws
<1> QED
  BY <1>2, <1>4, QModAssumption

(* The aggregate of every level is the sum of the quantities of its orders *)
(* in the width of Quantity, whatever mix of trades, cancels, edits and    *)
(* new orders led there: depth and the walk of a Fok can rely on it.       *)
THEOREM TotalsExact == Spec => []LevelTotals
BY InitTotals, NextTotals, BookSafety, PTL DEF Spec

-----------------------------------------------------------------------------
(* More laws of sums, for the walk of a Fok. *)

(* Two disjoint sets.                                                      *)
LEMMA TotalDisjoint ==
    ASSUME NEW f, NEW A, NEW B, Counts(f, A \cup B), A \cap B = {}
    PROVE  Total(f, A \cup B) = Total(f, A) + Total(f, B)
<1> DEFINE Fine(X) == Total(f, X \cup B) = Total(f, X) + Total(f, B)
           Bad == {n \in Nat : \E X \in SUBSET A : Cardinality(X) = n /\ ~Fine(X)}
<1>1. /\ \A X \in SUBSET A : Counts(f, X) /\ IsFiniteSet(X) /\ Cardinality(X) \in Nat
      /\ \A X \in SUBSET A : Counts(f, X \cup B)
      /\ Counts(f, B)
  <2>1. \A X \in SUBSET (A \cup B) : IsFiniteSet(X) /\ Cardinality(X) \in Nat
    BY FS_Subset, FS_CardinalityType DEF Counts
  <2>2. \A X \in SUBSET (A \cup B) : Counts(f, X)
    BY <2>1 DEF Counts
  <2>3. \A X \in SUBSET A : X \in SUBSET (A \cup B) /\ X \cup B \in SUBSET (A \cup B)
    OBVIOUS
  <2> QED
    BY <2>1, <2>2, <2>3
<1>2. Bad = {}
  <2>1. SUFFICES ASSUME Bad # {} PROVE FALSE
    OBVIOUS
  <2>2. PICK n \in Bad : \A m \in Bad : n <= m
    <3>1. Bad \in SUBSET Nat
      OBVIOUS
    <3> HIDE DEF Bad
    <3> QED
      BY <2>1, <3>1, LeastExists
  <2>3. PICK X \in SUBSET A : Cardinality(X) = n /\ ~Fine(X)
    BY <2>2
  <2> HIDE DEF Fine
  <2>4. \A Y \in SUBSET A : Cardinality(Y) < n => Fine(Y)
    BY <1>1, <2>2
  <2>5. Total(f, B) \in Nat
    BY <1>1, TotalLaws
  <2>6. X # {}
    <3>1. SUFFICES ASSUME X = {} PROVE Fine(X)
      BY <2>3
    <3>2. Total(f, X) = 0 /\ X \cup B = B
      BY <1>1, <3>1, TotalLaws
    <3>3. Total(f, X \cup B) = Total(f, B)
      BY <3>2
    <3> QED
      BY <2>5, <3>2, <3>3 DEF Fine
  <2>7. PICK x \in X : TRUE
    BY <2>6
  <2>8. x \notin B /\ (X \cup B) \ {x} = (X \ {x}) \cup B /\ X \ {x} \in SUBSET A
    BY <2>7
  <2>9. Fine(X \ {x})
    <3>1. Cardinality(X \ {x}) < n
      BY <1>1, <2>3, <2>7, OneLess
    <3> QED
      BY <2>4, <2>8, <3>1
  <2>10. /\ Total(f, X \cup B) = f[x] + Total(f, (X \ {x}) \cup B)
         /\ Total(f, X) = f[x] + Total(f, X \ {x})
         /\ Total(f, X \ {x}) \in Nat /\ f[x] \in Nat
    <3>1. Total(f, X \cup B) = f[x] + Total(f, (X \cup B) \ {x})
      BY <1>1, <2>7, TotalLaws
    <3>2. Total(f, X) = f[x] + Total(f, X \ {x})
      BY <1>1, <2>7, TotalLaws
    <3>3. Total(f, X \ {x}) \in Nat
      BY <1>1, <2>8, TotalLaws
    <3>4. f[x] \in Nat
      BY <2>7 DEF Counts
    <3> QED
      BY <2>8, <3>1, <3>2, <3>3, <3>4
  <2>11. Fine(X)
    BY <2>5, <2>9, <2>10 DEF Fine
  <2> QED
    BY <2>3, <2>11
<1>3. Fine(A)
  BY <1>1, <1>2
<1> QED
  BY <1>3

(* A family of disjoint sets: the sum of the totals is the total of the    *)
(* union.                                                                  *)
LEMMA TotalUnion ==
    ASSUME NEW f, NEW T, IsFiniteSet(T), NEW K, NEW H, Counts(f, H),
           \A q \in T : K[q] \in SUBSET H,
           \A q, r \in T : q # r => K[q] \cap K[r] = {},
           NEW e, \A q \in T : e[q] = Total(f, K[q])
    PROVE  Total(e, T) = Total(f, UNION {K[q] : q \in T})
<1> DEFINE All(U) == UNION {K[q] : q \in U}
           Fine(U) == Total(e, U) = Total(f, All(U))
           Bad == {n \in Nat : \E U \in SUBSET T : Cardinality(U) = n /\ ~Fine(U)}
<1>1. \A X \in SUBSET H : Counts(f, X)
  BY FS_Subset DEF Counts
<1>2. \A q \in T : e[q] \in Nat
  BY <1>1, TotalLaws
<1>3. \A U \in SUBSET T : Counts(e, U) /\ IsFiniteSet(U) /\ Cardinality(U) \in Nat
  BY <1>2, FS_Subset, FS_CardinalityType DEF Counts
<1>4. \A U \in SUBSET T : All(U) \in SUBSET H
  OBVIOUS
<1>5. Bad = {}
  <2>1. SUFFICES ASSUME Bad # {} PROVE FALSE
    OBVIOUS
  <2>2. PICK n \in Bad : \A m \in Bad : n <= m
    <3>1. Bad \in SUBSET Nat
      OBVIOUS
    <3> HIDE DEF Bad
    <3> QED
      BY <2>1, <3>1, LeastExists
  <2>3. PICK U \in SUBSET T : Cardinality(U) = n /\ ~Fine(U)
    BY <2>2
  <2> HIDE DEF Fine
  <2>4. \A V \in SUBSET T : Cardinality(V) < n => Fine(V)
    BY <1>3, <2>2
  <2>5. U # {}
    <3>1. SUFFICES ASSUME U = {} PROVE Fine(U)
      BY <2>3
    <3>2. Total(e, U) = 0
      BY <1>3, <3>1, TotalLaws
    <3>3. All(U) = {}
      BY <3>1
    <3>4. Total(f, All(U)) = 0
      BY <1>1, <1>4, <3>3, TotalLaws
    <3> QED
      BY <3>2, <3>4 DEF Fine
  <2>6. PICK x \in U : TRUE
    BY <2>5
  <2> DEFINE V == U \ {x}
  <2>7. V \in SUBSET T /\ Cardinality(V) < n
    BY <1>3, <2>3, <2>6, OneLess
  <2>8. Total(e, V) = Total(f, All(V))
    BY <2>4, <2>7 DEF Fine
  <2>9. All(U) = K[x] \cup All(V)
    BY <2>6
  <2>10. K[x] \cap All(V) = {}
    BY <2>6
  <2>11. Total(e, U) = e[x] + Total(e, V)
    BY <1>3, <2>6, TotalLaws
  <2>12. K[x] \cup All(V) \in SUBSET H
    BY <1>4, <2>9
  <2> HIDE DEF All, V
  <2>13. Total(f, K[x] \cup All(V)) = Total(f, K[x]) + Total(f, All(V))
    BY <1>1, <2>10, <2>12, TotalDisjoint
  <2>14. e[x] = Total(f, K[x])
    BY <2>6
  <2>15. Fine(U)
    BY <2>8, <2>9, <2>11, <2>13, <2>14 DEF Fine
  <2> QED
    BY <2>3, <2>15
<1>6. Fine(T)
  BY <1>3, <1>5
<1> QED
  BY <1>6

(* Smaller values have a smaller total.                                    *)
LEMMA TotalAtMost ==
    ASSUME NEW e, NEW f, NEW T, Counts(e, T), Counts(f, T), \A q \in T : e[q] <= f[q]
    PROVE  Total(e, T) <= Total(f, T)
<1> DEFINE Fine(U) == Total(e, U) <= Total(f, U)
           Bad == {n \in Nat : \E U \in SUBSET T : Cardinality(U) = n /\ ~Fine(U)}
<1>1. \A U \in SUBSET T : /\ Counts(e, U) /\ Counts(f, U)
                          /\ IsFiniteSet(U) /\ Cardinality(U) \in Nat
  BY FS_Subset, FS_CardinalityType DEF Counts
<1>2. Bad = {}
  <2>1. SUFFICES ASSUME Bad # {} PROVE FALSE
    OBVIOUS
  <2>2. PICK n \in Bad : \A m \in Bad : n <= m
    <3>1. Bad \in SUBSET Nat
      OBVIOUS
    <3> HIDE DEF Bad
    <3> QED
      BY <2>1, <3>1, LeastExists
  <2>3. PICK U \in SUBSET T : Cardinality(U) = n /\ ~Fine(U)
    BY <2>2
  <2>4. \A V \in SUBSET T : Cardinality(V) < n => Fine(V)
    BY <1>1, <2>2
  <2>5. U # {}
    BY <1>1, <2>3, TotalLaws
  <2>6. PICK x \in U : TRUE
    BY <2>5
  <2> DEFINE V == U \ {x}
  <2>7. V \in SUBSET T /\ Cardinality(V) < n
    BY <1>1, <2>3, <2>6, OneLess
  <2>8. Total(e, V) <= Total(f, V) /\ Total(e, V) \in Nat /\ Total(f, V) \in Nat
    BY <1>1, <2>4, <2>7, TotalLaws
  <2>9. Total(e, U) = e[x] + Total(e, V) /\ Total(f, U) = f[x] + Total(f, V)
    BY <1>1, <2>6, TotalLaws
  <2>10. e[x] \in Nat /\ f[x] \in Nat /\ e[x] <= f[x]
    BY <2>6 DEF Counts
  <2> HIDE DEF V
  <2>11. Fine(U)
    BY <2>8, <2>9, <2>10
  <2> QED
    BY <2>3, <2>11
<1>3. Fine(T)
  BY <1>1, <1>2
<1> QED
  BY <1>3

-----------------------------------------------------------------------------
(* The walk of can_fill. *)

(* How many orders of level p, from its head, an order of this owner can   *)
(* trade with, and which.                                                  *)
Reachable(p, owner) ==
    IF FirstOwn(p, owner) = 0 THEN Len(Fifo(p)) ELSE FirstOwn(p, owner) - 1

Reach(p, owner) == {Fifo(p)[i] : i \in 1 .. Reachable(p, owner)}

(* FirstOwn finds the first order of the owner, if there is one.          *)
LEMMA FirstOwnIs ==
    ASSUME NEW p, NEW owner, Len(Fifo(p)) \in Nat
    PROVE  /\ FirstOwn(p, owner) \in 0 .. Len(Fifo(p))
           /\ Reachable(p, owner) \in 0 .. Len(Fifo(p))
           /\ \A i \in 1 .. Reachable(p, owner) : ~SelfTrade(owner, pool[Fifo(p)[i]].owner)
<1> DEFINE s == Fifo(p)
           own == {i \in 1 .. Len(s) : SelfTrade(owner, pool[s[i]].owner)}
           f == FirstOwn(p, owner)
<1>1. f = IF own = {} THEN 0 ELSE CHOOSE i \in own : \A j \in own : i <= j
  BY DEF FirstOwn
<1>2. own \in SUBSET Nat /\ \A i \in own : i > 0 /\ i <= Len(s)
  OBVIOUS
<1>3. \A i \in 1 .. Len(s) : i \notin own => ~SelfTrade(owner, pool[s[i]].owner)
  OBVIOUS
<1>6. Len(s) \in Nat
  OBVIOUS
<1> HIDE DEF own, f, s
<1>4. own # {} => f \in own /\ \A j \in own : f <= j
  BY <1>1, <1>2, LeastExists
<1>5. own = {} => f = 0
  BY <1>1
<1> DEFINE r == IF f = 0 THEN Len(s) ELSE f - 1
<1>7. /\ f \in 0 .. Len(s) /\ r \in 0 .. Len(s)
      /\ \A i \in 1 .. r : i \notin own /\ i \in 1 .. Len(s)
  <2>1. CASE own = {}
    BY <1>5, <1>6, <2>1
  <2>2. CASE own # {}
    <3>4. f \in own
      BY <1>4, <2>2
    <3>5. f \in Nat /\ f > 0 /\ f <= Len(s)
      BY <1>2, <3>4
    <3>1. f \in Nat /\ f > 0 /\ f <= Len(s) /\ r = f - 1
      BY <3>5
    <3>2. \A i \in 1 .. r : ~(f <= i)
      BY <3>1
    <3>3. \A i \in 1 .. r : i \notin own
      BY <1>4, <2>2, <3>2
    <3> HIDE DEF r
    <3> QED
      BY <1>6, <3>1, <3>3
  <2> QED
    BY <2>1, <2>2
<1>9. r = Reachable(p, owner)
  BY DEF Reachable, f, s
<1> HIDE DEF r
<1> QED
  BY <1>3, <1>7, <1>9 DEF f, s

(* The orders the walk counts at a level: a front of its FIFO, up to the   *)
(* first order of the same owner.                                          *)
LEMMA ReachFacts ==
    ASSUME LevelInv, NEW p \in Ticks, NEW owner
    PROVE  /\ Reach(p, owner) \subseteq Here(p)
           /\ \A h \in Reach(p, owner) : ~SelfTrade(owner, pool[h].owner)
           /\ \A h \in Reach(p, owner) :
                pool[h].prev # Null => pool[h].prev \in Reach(p, owner)
           /\ FirstOwn(p, owner) = 0 => Reach(p, owner) = Here(p)
<1>1. PICK s : IsFifo(p, s)
  BY DEF LevelInv, HasFifos
<1>2. Fifo(p) = s /\ Structure
  BY <1>1, FifoIs, InvParts DEF LevelInv
<1>3. Len(s) \in Nat /\ \A i \in 1 .. Len(s) : s[i] \in Live /\ pool[s[i]].price = p
  BY <1>1, FifoPositions
<1> DEFINE n == Reachable(p, owner)
<1>4. n \in 0 .. Len(s) /\ \A i \in 1 .. n : ~SelfTrade(owner, pool[s[i]].owner)
  BY <1>2, <1>3, FirstOwnIs
<1>5. Reach(p, owner) = {s[i] : i \in 1 .. n}
  BY <1>2 DEF Reach
<1>6. FirstOwn(p, owner) = 0 => n = Len(s)
  BY <1>2 DEF Reachable
<1>7. \A i \in 1 .. Len(s) : pool[s[i]].prev = IF i = 1 THEN Null ELSE s[i - 1]
  BY <1>1, <1>2, Neighbours
<1> HIDE DEF n
<1>8. \A i \in 1 .. n : i \in 1 .. Len(s) /\ (i # 1 => i - 1 \in 1 .. n)
  BY <1>3, <1>4
<1>9. {s[i] : i \in 1 .. Len(s)} = Here(p)
  <2>1. {s[i] : i \in 1 .. Len(s)} = {h \in Live : pool[h].price = p}
    BY <1>1, <1>3 DEF IsFifo
  <2> QED
    BY <2>1 DEF Here
<1>10. Reach(p, owner) \subseteq Here(p)
  BY <1>5, <1>8, <1>9
<1>11. \A h \in Reach(p, owner) : ~SelfTrade(owner, pool[h].owner)
  BY <1>4, <1>5
<1>12. ASSUME NEW h \in Reach(p, owner), pool[h].prev # Null
       PROVE  pool[h].prev \in Reach(p, owner)
  <2>1. PICK i \in 1 .. n : h = s[i]
    BY <1>5
  <2>2. i # 1 /\ pool[h].prev = s[i - 1]
    BY <1>7, <1>8, <1>12, <2>1
  <2> QED
    BY <1>5, <1>8, <2>2
<1>13. FirstOwn(p, owner) = 0 => Reach(p, owner) = Here(p)
  BY <1>5, <1>6, <1>9
<1> QED
  BY <1>10, <1>11, <1>12, <1>13

(* MapThenSumSet over positions is the total of what they hold.            *)
SumsAt(s, S, g) ==
    g = [t \in SUBSET S |->
           IF t = {} THEN 0
           ELSE pool[s[CHOOSE x \in t : TRUE]].remaining + g[t \ {CHOOSE x \in t : TRUE}]]

(* The sum that RemainingOf takes is a total.                             *)
LEMMA RemainingOfIs ==
    ASSUME NEW s, NEW n \in Nat, NEW e, \A i \in 1 .. n : e[i] = pool[s[i]].remaining,
           Counts(e, 1 .. n)
    PROVE  RemainingOf(s, n) = Total(e, 1 .. n)
<1> DEFINE S == 1 .. n
           g == CHOOSE w : SumsAt(s, S, w)
<1>1. RemainingOf(s, n) = g[S]
  BY DEF RemainingOf, MapThenSumSet, MapThenFoldSet, SumsAt
<1>2. \A i \in S : e[i] = pool[s[i]].remaining
  OBVIOUS
<1>3. Counts(e, S)
  OBVIOUS
<1> HIDE DEF S
<1>4. ASSUME NEW w PROVE SumsAt(s, S, w) <=> Sums(e, S, w)
  <2>1. \A t \in SUBSET S : t # {} =>
          pool[s[CHOOSE x \in t : TRUE]].remaining = e[Picked(t)]
    BY <1>2 DEF Picked
  <2> QED
    BY <2>1 DEF SumsAt, Sums, Picked
<1>5. \E w : SumsAt(s, S, w)
  BY <1>3, <1>4, SumsExist
<1>6. SumsAt(s, S, g)
  BY <1>5
<1> HIDE DEF g
<1>7. Sums(e, S, g) /\ S \in SUBSET S
  BY <1>4, <1>6
<1>8. g[S] = Total(e, S)
  BY <1>3, <1>7, TotalIs
<1> QED
  BY <1>1, <1>8 DEF S

(* The front of a FIFO holds what its slots hold.                          *)
LEMMA FrontTotal ==
    ASSUME LevelInv, NEW p \in Ticks, NEW owner
    PROVE  /\ RemainingOf(Fifo(p), Reachable(p, owner)) = Total(Left, Reach(p, owner))
           /\ Total(Left, Reach(p, owner)) \in Nat
<1>1. PICK s : IsFifo(p, s)
  BY DEF LevelInv, HasFifos
<1>2. Fifo(p) = s /\ pool \in [Handles -> Order]
  BY <1>1, FifoIs DEF LevelInv, BookInv, TypeOK
<1>3. Len(s) \in Nat /\ \A i \in 1 .. Len(s) : s[i] \in Handles
  BY <1>1, FifoPositions DEF Live
<1> DEFINE n == Reachable(p, owner)
<1>4. n \in 0 .. Len(s)
  BY <1>2, <1>3, FirstOwnIs
<1> DEFINE e == [i \in 1 .. n |-> pool[s[i]].remaining]
           K == [i \in 1 .. n |-> {s[i]}]
<1>5. n \in Nat /\ \A i \in 1 .. n : i \in 1 .. Len(s)
  BY <1>3, <1>4
<1>6. Reach(p, owner) = {s[i] : i \in 1 .. n}
  BY <1>2 DEF Reach
<1> HIDE DEF n
<1>7. \A i \in 1 .. n : s[i] \in Handles /\ e[i] = pool[s[i]].remaining
                        /\ e[i] = Left[s[i]] /\ e[i] \in Nat /\ K[i] = {s[i]}
  BY <1>2, <1>3, <1>5, QModAssumption DEF Left, Order, Quantity
<1>8. UNION {K[i] : i \in 1 .. n} = {s[i] : i \in 1 .. n}
  OBVIOUS
<1> HIDE DEF e, K
<1>9. IsFiniteSet(1 .. n) /\ Counts(e, 1 .. n)
  <2>1. IsFiniteSet(1 .. n)
    BY <1>5, FS_Interval
  <2> QED
    BY <1>7, <2>1 DEF Counts
<1>10. RemainingOf(s, n) = Total(e, 1 .. n) /\ Total(e, 1 .. n) \in Nat
  BY <1>5, <1>7, <1>9, RemainingOfIs, TotalLaws
<1>11. Counts(Left, Handles)
  BY <1>2, LeftCounts
<1>12. \A i \in 1 .. n : e[i] = Total(Left, K[i])
  <2> TAKE i \in 1 .. n
  <2>1. Counts(Left, {s[i]}) /\ {s[i]} \ {s[i]} = {} /\ Counts(Left, {})
    BY <1>2, <1>7, LeftCounts
  <2>2. Total(Left, {s[i]}) = Left[s[i]] + Total(Left, {}) /\ Total(Left, {}) = 0
    BY <2>1, TotalLaws
  <2>3. Left[s[i]] \in Nat /\ K[i] = {s[i]} /\ e[i] = Left[s[i]]
    BY <1>7
  <2>4. Total(Left, {s[i]}) = Left[s[i]]
    BY <2>2, <2>3
  <2> QED
    BY <2>3, <2>4
<1>13. \A i, j \in 1 .. n : i # j => K[i] \cap K[j] = {}
  <2> TAKE i, j \in 1 .. n
  <2> HAVE i # j
  <2>1. s[i] # s[j]
    BY <1>1, <1>5 DEF IsFifo
  <2> QED
    BY <1>7, <2>1
<1>14. \A i \in 1 .. n : K[i] \in SUBSET Handles
  BY <1>7
<1>15. Total(e, 1 .. n) = Total(Left, UNION {K[i] : i \in 1 .. n})
  <2> DEFINE T == 1 .. n
  <2>1. /\ IsFiniteSet(T) /\ \A q \in T : K[q] \in SUBSET Handles
        /\ \A q, r \in T : q # r => K[q] \cap K[r] = {}
        /\ \A q \in T : e[q] = Total(Left, K[q])
    BY <1>9, <1>12, <1>13, <1>14
  <2> HIDE DEF T
  <2>2. Total(e, T) = Total(Left, UNION {K[q] : q \in T})
    BY <1>11, <2>1, TotalUnion
  <2> QED
    BY <2>2 DEF T
<1>16. Reach(p, owner) = UNION {K[i] : i \in 1 .. n}
  BY <1>6, <1>8
<1>17. RemainingOf(s, n) = Total(Left, Reach(p, owner)) /\ RemainingOf(s, n) \in Nat
  BY <1>10, <1>15, <1>16
<1> QED
  BY <1>2, <1>17 DEF n

(* What count_level counts is there to trade with: all of it for an owner, *)
(* all of it in the width of Quantity for an anonymous order.              *)
LEMMA CountLevel ==
    ASSUME LevelInv, LevelTotals, NEW p \in Ticks, NEW owner
    PROVE  /\ count_level(p, owner) \in Nat
           /\ Total(Left, Reach(p, owner)) \in Nat
           /\ count_level(p, owner) <= Total(Left, Reach(p, owner))
           /\ count_level(p, owner) = IF owner = 0 THEN Total(Left, Reach(p, owner)) % QMod
                                                   ELSE Total(Left, Reach(p, owner))
<1>1. CASE owner = 0
  <2>1. FirstOwn(p, owner) = 0
    BY <1>1 DEF FirstOwn, SelfTrade
  <2>2. Reach(p, owner) = Here(p)
    BY <2>1, ReachFacts
  <2> DEFINE a == Total(Left, Here(p))
  <2>3. levels[p].total = a % QMod
    BY TotalsForm DEF LevelInv, BookInv, TypeOK
  <2>5. a \in Nat
    BY <2>2, FrontTotal
  <2> HIDE DEF a
  <2>6. a % QMod \in Nat /\ a % QMod <= a
    BY <2>5, ModBelow, QModAssumption DEF Quantity
  <2> QED
    BY <1>1, <2>2, <2>3, <2>5, <2>6 DEF count_level, a
<1>2. CASE owner # 0
  <2>1. count_level(p, owner) = RemainingOf(Fifo(p), Reachable(p, owner))
    BY <1>2 DEF count_level, Reachable
  <2> QED
    BY <1>2, <2>1, FrontTotal
<1> QED
  BY <1>1, <1>2

(* MapThenSumSet over levels is the total of what count_level counts.      *)
SumsCounts(owner, W, g) ==
    g = [t \in SUBSET W |->
           IF t = {} THEN 0
           ELSE count_level(CHOOSE x \in t : TRUE, owner) + g[t \ {CHOOSE x \in t : TRUE}]]

(* The sum that can_fill takes is a total.                                *)
LEMMA CountSum ==
    ASSUME NEW owner, NEW W, NEW e, \A q \in W : e[q] = count_level(q, owner), Counts(e, W)
    PROVE  MapThenSumSet(LAMBDA q : count_level(q, owner), W) = Total(e, W)
<1> DEFINE g == CHOOSE w : SumsCounts(owner, W, w)
<1>1. MapThenSumSet(LAMBDA q : count_level(q, owner), W) = g[W]
  BY DEF MapThenSumSet, MapThenFoldSet, SumsCounts
<1>2. ASSUME NEW w PROVE SumsCounts(owner, W, w) <=> Sums(e, W, w)
  <2>1. \A t \in SUBSET W : t # {} =>
          count_level(CHOOSE x \in t : TRUE, owner) = e[Picked(t)]
    BY DEF Picked
  <2> QED
    BY <2>1 DEF SumsCounts, Sums, Picked
<1>3. \E w : SumsCounts(owner, W, w)
  BY <1>2, SumsExist
<1>4. SumsCounts(owner, W, g)
  BY <1>3
<1> HIDE DEF g
<1>5. Sums(e, W, g) /\ W \in SUBSET W
  BY <1>2, <1>4
<1> QED
  BY <1>1, <1>5, TotalIs

(* A better price for an order of this side to trade at.                   *)
Better(side, p, q) == IF side = "Buy" THEN p < q ELSE p > q

(* The orders of A are enough to fill the call c and the sweep meets them  *)
(* before any other: they are within its limit, none is of its owner, and  *)
(* with an order A has those in front of it and those at better prices.    *)
Covers(c, A) ==
    /\ A \subseteq Live
    /\ \A h \in A :
         /\ pool[h].side = Opposite(c.side)
         /\ Crosses(c, pool[h].price)
         /\ ~SelfTrade(c.owner, pool[h].owner)
         /\ pool[h].prev # Null => pool[h].prev \in A
         /\ \A g \in OnSide(Opposite(c.side)) :
              Better(c.side, pool[g].price, pool[h].price) => g \in A
    /\ c.remaining <= Total(Left, A)

(* The levels the walk passes hold orders of the opposite side only.       *)
LEMMA WalkedSide ==
    ASSUME Structure, NEW side \in Side, NEW best,
           best = IF side = "Buy" THEN best_ask ELSE best_bid, best # NoPrice,
           NEW h \in Live
    PROVE  /\ pool[h].price \in Ticks
           /\ (IF side = "Buy" THEN best <= pool[h].price ELSE pool[h].price <= best)
                <=> pool[h].side = Opposite(side)
<1>1. /\ pool[h].side \in {"Buy", "Sell"} /\ pool[h].price \in Ticks
      /\ best_bid \in Ticks \cup {NoPrice} /\ best_ask \in Ticks \cup {NoPrice}
  BY DEF Structure, BookTypes, Order, Side, Live
<1>2. /\ pool[h].side = "Buy" => pool[h].price <= best_bid
      /\ pool[h].side = "Sell" => best_ask # NoPrice /\ best_ask <= pool[h].price
      /\ best_bid # NoPrice /\ best_ask # NoPrice => best_bid < best_ask
  BY DEF Structure, BestPrices, OnSide
<1>3. CASE side = "Buy"
  BY <1>1, <1>2, <1>3, TickRangeAssumption DEF Opposite, Ticks, NoPrice
<1>4. CASE side = "Sell"
  BY <1>1, <1>2, <1>4, TickRangeAssumption DEF Opposite, Ticks, NoPrice
<1> QED
  BY <1>1, <1>3, <1>4 DEF Side

(* A walk that finds enough has found orders the sweep will meet.          *)
LEMMA CanFillCovers ==
    ASSUME LevelInv, LevelTotals, NEW c \in Call, c.remaining = c.qty, can_fill(c)
    PROVE  \E A : Covers(c, A)
<1> DEFINE best == IF c.side = "Buy" THEN best_ask ELSE best_bid
           walked(p) == {q \in Ticks : IF c.side = "Buy" THEN best <= q /\ q <= p
                                                         ELSE p <= q /\ q <= best}
<1>1. PICK p \in Ticks :
        /\ Crosses(c, p) /\ p \in walked(p)
        /\ \A q \in walked(p) \ {p} : FirstOwn(q, c.owner) = 0
        /\ MapThenSumSet(LAMBDA q : count_level(q, c.owner), walked(p)) % QMod >= c.qty
  BY DEF can_fill
<1>2. best # NoPrice
  BY DEF can_fill, Crosses
<1>3. /\ Structure /\ pool \in [Handles -> Order] /\ c.side \in Side /\ c.qty \in Nat
      /\ best \in Ticks
  BY <1>2, InvParts, QModAssumption DEF LevelInv, Structure, BookTypes, Call, Quantity
<1> DEFINE W == walked(p)
           K == [q \in W |-> Reach(q, c.owner)]
           e == [q \in W |-> count_level(q, c.owner)]
           t == [q \in W |-> Total(Left, Reach(q, c.owner))]
           A == UNION {K[q] : q \in W}
<1>4. /\ W \subseteq Ticks /\ p \in W
      /\ \A q \in W : IF c.side = "Buy" THEN best <= q /\ q <= p
                                        ELSE p <= q /\ q <= best
      /\ \A q \in Ticks : (IF c.side = "Buy" THEN best <= q /\ q <= p
                                             ELSE p <= q /\ q <= best) => q \in W
  BY <1>1
<1>5. \A q \in W \ {p} : FirstOwn(q, c.owner) = 0
  BY <1>1
<1>6. MapThenSumSet(LAMBDA q : count_level(q, c.owner), W) % QMod >= c.qty
  BY <1>1
<1> HIDE DEF W, walked
<1>7. IsFiniteSet(W)
  <2>1. IsFiniteSet(Ticks)
    <3>1. 0 \in Int /\ TickRange - 1 \in Int
      BY TickRangeAssumption
    <3> QED
      BY <3>1, FS_Interval DEF Ticks
  <2> QED
    BY <1>4, <2>1, FS_Subset
<1>8. /\ \A q \in W : /\ K[q] = Reach(q, c.owner) /\ e[q] = count_level(q, c.owner)
                      /\ t[q] = Total(Left, K[q])
      /\ \A h \in A : \E q \in W : h \in Reach(q, c.owner)
      /\ \A q \in W : \A h \in Reach(q, c.owner) : h \in A
  OBVIOUS
<1> HIDE DEF best
<1>9. \A q \in W : /\ K[q] \subseteq Here(q)
                   /\ \A h \in K[q] : /\ ~SelfTrade(c.owner, pool[h].owner)
                                      /\ pool[h].prev # Null => pool[h].prev \in K[q]
                   /\ q # p => K[q] = Here(q)
  BY <1>4, <1>5, <1>8, ReachFacts
<1> DEFINE sum == MapThenSumSet(LAMBDA q : count_level(q, c.owner), W)
<1>10. c.remaining <= Total(Left, A)
  <2>1. Counts(Left, Handles) /\ \A q \in W : K[q] \in SUBSET Handles
    BY <1>3, <1>9, LeftCounts DEF Here, Live
  <2>2. \A q \in W : /\ e[q] \in Nat /\ e[q] <= t[q] /\ t[q] \in Nat
    <3> TAKE q \in W
    <3>1. count_level(q, c.owner) \in Nat
          /\ count_level(q, c.owner) <= Total(Left, Reach(q, c.owner))
      BY <1>4, CountLevel
    <3>2. Counts(Left, K[q])
      BY <1>3, <2>1, LeftCounts
    <3>3. Total(Left, K[q]) \in Nat
      BY <3>2, TotalLaws
    <3> QED
      BY <1>8, <3>1, <3>3
  <2>3. Counts(e, W) /\ Counts(t, W)
    BY <1>7, <2>2 DEF Counts
  <2>4. \A q, r \in W : q # r => K[q] \cap K[r] = {}
    BY <1>9 DEF Here
  <2>5. \A q \in W : t[q] = Total(Left, K[q]) /\ e[q] = count_level(q, c.owner)
    BY <1>8
  <2> HIDE DEF K, e, t
  <2>6. sum = Total(e, W)
    BY <2>3, <2>5, CountSum
  <2>7. Total(e, W) <= Total(t, W) /\ Total(e, W) \in Nat /\ Total(t, W) \in Nat
    BY <2>2, <2>3, TotalAtMost, TotalLaws
  <2>8. Total(t, W) = Total(Left, A)
    BY <1>7, <2>1, <2>4, <2>5, TotalUnion
  <2> HIDE DEF A, sum
  <2>9. sum % QMod <= sum /\ sum % QMod \in Nat
    BY <2>6, <2>7, ModBelow, QModAssumption DEF Quantity
  <2>10. sum % QMod >= c.qty
    BY <1>6 DEF sum
  <2> QED
    BY <1>3, <2>6, <2>7, <2>8, <2>9, <2>10
<1>11. \A h \in A : \E q \in W : h \in K[q]
  BY <1>8
<1>12. \A q \in W : \A h \in K[q] : h \in A
  BY <1>8
<1> HIDE DEF A, K, e, t, sum
<1>13. ASSUME NEW q \in W, NEW h \in K[q]
       PROVE  /\ h \in Live /\ pool[h].price = q
              /\ pool[h].side = Opposite(c.side)
              /\ Crosses(c, q)
              /\ ~SelfTrade(c.owner, pool[h].owner)
              /\ pool[h].prev # Null => pool[h].prev \in A
              /\ \A g \in OnSide(Opposite(c.side)) :
                   Better(c.side, pool[g].price, q) => g \in A
  <2>1. h \in Live /\ pool[h].price = q
    BY <1>9 DEF Here
  <2>2. pool[h].side = Opposite(c.side)
    <3>1. IF c.side = "Buy" THEN best <= pool[h].price ELSE pool[h].price <= best
      BY <1>4, <2>1
    <3> QED
      BY <1>2, <1>3, <2>1, <3>1, WalkedSide DEF best
  <2>3. Crosses(c, q)
    <3>1. LimitPrice(c) \in Int
      BY TickRangeAssumption DEF LimitPrice, Call, AnyPrice, NoPrice
    <3>2. q \in Ticks /\ p \in Ticks
      BY <1>4
    <3>3. IF c.side = "Buy" THEN q <= p ELSE p <= q
      BY <1>4
    <3> QED
      BY <1>1, <1>3, <3>1, <3>2, <3>3, TickRangeAssumption
         DEF Crosses, Ticks, NoPrice
  <2>4. ASSUME NEW g \in OnSide(Opposite(c.side)), Better(c.side, pool[g].price, q)
        PROVE  g \in A
    <3>1. g \in Live /\ pool[g].price \in Ticks
          /\ IF c.side = "Buy" THEN best <= pool[g].price ELSE pool[g].price <= best
      BY <1>2, <1>3, <2>4, WalkedSide DEF best, OnSide
    <3> DEFINE r == pool[g].price
    <3>2. q \in Ticks /\ p \in Ticks /\ IF c.side = "Buy" THEN q <= p ELSE p <= q
      BY <1>4
    <3>3. r \in Ticks /\ IF c.side = "Buy" THEN r < q ELSE r > q
      BY <2>4, <3>1 DEF Better
    <3>4. g \in Here(r)
      BY <3>1 DEF Here
    <3>6. IF c.side = "Buy" THEN best <= r ELSE r <= best
      BY <3>1
    <3> HIDE DEF r
    <3>5. r # p /\ IF c.side = "Buy" THEN best <= r /\ r <= p ELSE p <= r /\ r <= best
      <4>1. CASE c.side = "Buy"
        BY <3>2, <3>3, <3>6, <4>1, TickRangeAssumption DEF Ticks
      <4>2. CASE c.side # "Buy"
        BY <3>2, <3>3, <3>6, <4>2, TickRangeAssumption DEF Ticks
      <4> QED
        BY <4>1, <4>2
    <3>7. r \in W
      BY <1>4, <3>3, <3>5
    <3> QED
      BY <1>9, <1>12, <3>4, <3>5, <3>7
  <2> QED
    BY <1>9, <1>12, <2>1, <2>2, <2>3, <2>4
<1>14. Covers(c, A)
  BY <1>10, <1>11, <1>13 DEF Covers
<1> QED
  BY <1>14

(* While orders cover the call, the sweep crosses and meets one of them.   *)
LEMMA CoverIsMet ==
    ASSUME BookInv, NEW A, A # {}, Covers(call, A)
    PROVE  Crosses(call, OppositeBest) /\ Meets \in A
<1> DEFINE side == Opposite(call.side)
<1>1. /\ Structure /\ call.side \in Side
      /\ best_bid \in Ticks \cup {NoPrice} /\ best_ask \in Ticks \cup {NoPrice}
  BY InvParts DEF ClientTypes, Call, Structure, BookTypes
<1>2. PICK h \in A : TRUE
  OBVIOUS
<1>3. /\ h \in Live /\ pool[h].side = side /\ Crosses(call, pool[h].price)
      /\ pool[h].price \in Ticks
  BY <1>1, <1>2 DEF Covers, Structure, BookTypes, Order, Live
<1>4. /\ OppositeBest # NoPrice
      /\ OppositeBest = pool[h].price \/ Better(call.side, OppositeBest, pool[h].price)
  <2>1. /\ pool[h].side = "Buy" => pool[h].price <= best_bid
        /\ pool[h].side = "Sell" => best_ask # NoPrice /\ best_ask <= pool[h].price
    BY <1>1, <1>3 DEF Structure, BestPrices, OnSide
  <2>2. CASE call.side = "Buy"
    BY <1>1, <1>3, <2>1, <2>2, TickRangeAssumption
       DEF OppositeBest, Opposite, Better, Ticks, NoPrice
  <2>3. CASE call.side = "Sell"
    BY <1>1, <1>3, <2>1, <2>3, TickRangeAssumption
       DEF OppositeBest, Opposite, Better, Ticks, NoPrice
  <2> QED
    BY <1>1, <2>2, <2>3 DEF Side
<1>5. OppositeBest \in Ticks
  BY <1>1, <1>4 DEF OppositeBest
<1>6. Crosses(call, OppositeBest)
  <2>1. LimitPrice(call) \in Int
    BY InvParts, TickRangeAssumption DEF LimitPrice, ClientTypes, Call, AnyPrice, NoPrice
  <2>2. CASE call.side = "Buy"
    BY <1>3, <1>4, <1>5, <2>1, <2>2, TickRangeAssumption DEF Crosses, Better, Ticks, NoPrice
  <2>3. CASE call.side # "Buy"
    BY <1>3, <1>4, <1>5, <2>1, <2>3, TickRangeAssumption DEF Crosses, Better, Ticks, NoPrice
  <2> QED
    BY <2>2, <2>3
<1>7. \E g \in A : pool[g].price = OppositeBest
  <2>1. CASE OppositeBest = pool[h].price
    BY <1>2, <2>1
  <2>2. CASE Better(call.side, OppositeBest, pool[h].price)
    <3>1. PICK g \in OnSide(side) : pool[g].price = OppositeBest
      BY <1>1, <1>4 DEF Structure, BestPrices, OppositeBest, Opposite, Side
    <3>2. g \in A
      BY <1>2, <2>2, <3>1 DEF Covers
    <3> QED
      BY <3>1, <3>2
  <2> QED
    BY <1>4, <2>1, <2>2
<1> DEFINE B == {g \in A : pool[g].price = OppositeBest}
<1>8. PICK g \in B : pool[g].prev \notin B
  <2>1. B \in SUBSET Live /\ B # {}
    BY <1>7 DEF Covers
  <2> HIDE DEF B
  <2> QED
    BY <1>1, <2>1 DEF Structure, Grounded
<1>9. g \in A /\ pool[g].price = OppositeBest /\ g \in Live
  BY <1>8 DEF Covers
<1>10. pool[g].prev = Null
  <2>1. SUFFICES ASSUME pool[g].prev # Null PROVE FALSE
    OBVIOUS
  <2>2. pool[g].prev \in A
    BY <1>9, <2>1 DEF Covers
  <2>3. pool[pool[g].prev].price = OppositeBest
    BY <1>1, <1>9, <2>1 DEF Structure, Linked
  <2> QED
    BY <1>8, <2>2, <2>3
<1>11. Meets = g
  BY <1>1, <1>9, <1>10 DEF Structure, Linked, Meets
<1> QED
  BY <1>6, <1>9, <1>11

(* A trade that fills the order in slot h leaves the owners of the others. *)
LEMMA MatchOwners ==
    ASSUME BookInv, match, NEW h, h = Meets, free' = free \cup {h}
    PROVE  \A g \in Live \ {h} : pool'[g].owner = pool[g].owner
<1> DEFINE o == pool[h]
           traded == Lesser(call.remaining, o.remaining)
           pool1 == [pool EXCEPT ![h].remaining = @ - traded]
           levels1 == [levels EXCEPT ![o.price].total = (@ - traded) % QMod]
<1>1. /\ h \in Live /\ h \in Handles /\ pool \in [Handles -> Order]
      /\ Live \subseteq Handles /\ h \notin free
  BY MeetsLive, InvParts DEF match, Matches, Structure, BookTypes, Live
<1>2. unlink_and_free(h, pool1, levels1)
  BY <1>1 DEF match
<1>3. pool' = [g \in Handles |-> Relinked(g, h, pool1[h], pool1)]
  BY <1>2 DEF unlink_and_free
<1>4. ASSUME NEW g \in Live \ {h}
      PROVE  pool'[g].owner = pool[g].owner
  <2>1. pool1[g] = pool[g] /\ pool[g] \in Order
    BY <1>1
  <2> HIDE DEF pool1
  <2>2. pool'[g] = Relinked(g, h, pool1[h], pool1)
    BY <1>1, <1>3
  <2> QED
    BY <2>1, <2>2 DEF Relinked, Order
<1> QED
  BY <1>4

(* A trade leaves the call covered: either it is filled, or the order it   *)
(* removed was one of those that cover it.                                 *)
LEMMA MatchCovers ==
    ASSUME BookInv, BookInv', NEW A, Covers(call, A), match
    PROVE  \E B : Covers(call, B)'
<1> DEFINE h == Meets
           traded == Lesser(call.remaining, pool[h].remaining)
<1>1. /\ h \in Live /\ traded \in 0 .. pool[h].remaining
      /\ call' = [call EXCEPT !.remaining = @ - traded, !.filled = @ + traded]
      /\ \/ traded = pool[h].remaining /\ Removes(h)
         \/ /\ traded < pool[h].remaining
            /\ Reduces(h, pool[h].remaining - traded)
  BY MatchStep
<1>2. /\ Structure /\ pool \in [Handles -> Order] /\ pool' \in [Handles -> Order]
      /\ call \in Call /\ call.remaining \in Nat /\ call.remaining > 0
      /\ pool[h].remaining \in Nat /\ h \in Handles
  BY <1>1, InvParts, QModAssumption
     DEF BookInv, TypeOK, Call, Order, Quantity, match, Matches, Live
<1>3. /\ call'.remaining = call.remaining - traded /\ call'.side = call.side
      /\ call'.owner = call.owner /\ call'.type = call.type /\ call'.price = call.price
  BY <1>1, <1>2 DEF Call
<1>4. CASE traded < pool[h].remaining
  <2>1. call'.remaining = 0
    BY <1>2, <1>3, <1>4 DEF Lesser
  <2>2. Total(Left', {}) = 0
    <3>1. Counts(Left', {})
      BY FS_EmptySet DEF Counts
    <3> QED
      BY <3>1, TotalLaws
  <2>3. Covers(call, {})'
    BY <2>1, <2>2 DEF Covers
  <2> QED
    BY <2>3
<1>5. CASE traded = pool[h].remaining /\ Removes(h)
  <2>1. A \in SUBSET Handles /\ A \subseteq Live
    BY DEF Covers, Live
  <2>2. Counts(Left, A)
    BY <1>2, <2>1, LeftCounts
  <2>3. A # {}
    BY <1>2, <2>2, TotalLaws DEF Covers
  <2>4. h \in A
    BY <2>3, CoverIsMet
  <2> DEFINE B == A \ {h}
  <2>5. /\ Live' = Live \ {h} /\ free' = free \cup {h}
        /\ \A g \in Live \ {h} : pool'[g].remaining = pool[g].remaining
    BY <1>1, <1>2, <1>5, UnlinkLinks DEF Removes, unlink_and_free, deallocate
  <2>6. \A g \in Live \ {h} :
          /\ pool'[g].side = pool[g].side /\ pool'[g].price = pool[g].price
          /\ pool'[g].owner = pool[g].owner
          /\ pool'[g].prev = IF g = pool[h].next THEN pool[h].prev ELSE pool[g].prev
    BY <1>1, <1>2, <1>5, <2>5, UnlinkLinks, MatchOwners DEF Removes
  <2>7. pool[h].prev = Null
    <3>1. OppositeBest \in Ticks
      BY <1>2 DEF match, Matches, Crosses, OppositeBest, Structure, BookTypes
    <3> QED
      BY <1>1, <1>2, <3>1, NullAssumption DEF Structure, Linked, Meets, Live
  <2>8. call'.remaining <= Total(Left', B)
    <3>1. Total(Left, A) = Left[h] + Total(Left, B)
      BY <2>2, <2>4, TotalLaws
    <3>2. Counts(Left, B)
      BY <1>2, <2>1, LeftCounts
    <3>3. \A g \in Handles : Left[g] = pool[g].remaining /\ Left'[g] = pool'[g].remaining
      BY <1>2, LeftValues
    <3>4. Total(Left', B) = Total(Left, B)
      <4>1. \A g \in B : Left'[g] = Left[g]
        BY <2>1, <2>5, <3>3
      <4> HIDE DEF B
      <4> QED
        BY <3>2, <4>1, TotalSame
    <3>5. Total(Left, B) \in Nat /\ call.remaining <= Total(Left, A)
      BY <3>2, TotalLaws DEF Covers
    <3>6. Left[h] = pool[h].remaining
      BY <1>2, <3>3
    <3> HIDE DEF B, h, traded
    <3> QED
      BY <1>2, <1>3, <1>5, <3>1, <3>4, <3>5, <3>6
  <2>9. B \subseteq Live'
    BY <2>1, <2>5
  <2>10. ASSUME NEW g \in B
         PROVE  /\ pool'[g].side = Opposite(call'.side)
                /\ Crosses(call', pool'[g].price)
                /\ ~SelfTrade(call'.owner, pool'[g].owner)
                /\ pool'[g].prev # Null => pool'[g].prev \in B
                /\ \A x \in OnSide(Opposite(call.side))' :
                     Better(call'.side, pool'[x].price, pool'[g].price) => x \in B
    <3>1. g \in A /\ g \in Live \ {h}
      BY <2>1
    <3>2. /\ pool[g].side = Opposite(call.side)
          /\ Crosses(call, pool[g].price)
          /\ ~SelfTrade(call.owner, pool[g].owner)
          /\ pool[g].prev # Null => pool[g].prev \in A
          /\ \A x \in OnSide(Opposite(call.side)) :
               Better(call.side, pool[x].price, pool[g].price) => x \in A
      BY <3>1 DEF Covers
    <3>3. Crosses(call', pool'[g].price)
      BY <1>3, <2>6, <3>1, <3>2 DEF Crosses, LimitPrice
    <3>4. pool'[g].prev # Null => pool'[g].prev \in B
      <4>1. pool[g].prev = h => g = pool[h].next
        BY <1>1, <1>2, <3>1, NullAssumption DEF Structure, Linked, Live
      <4> QED
        BY <2>6, <2>7, <3>1, <3>2, <4>1
    <3>5. ASSUME NEW x \in OnSide(Opposite(call.side))',
                 Better(call'.side, pool'[x].price, pool'[g].price)
          PROVE  x \in B
      <4>1. x \in Live \ {h} /\ pool'[x].side = Opposite(call'.side)
        BY <2>5, <3>5 DEF OnSide
      <4>2. x \in OnSide(Opposite(call.side))
        BY <1>3, <2>6, <4>1 DEF OnSide
      <4>3. Better(call.side, pool[x].price, pool[g].price)
        BY <1>3, <2>6, <3>1, <3>5, <4>1
      <4> QED
        BY <3>2, <4>1, <4>2, <4>3
    <3> QED
      BY <1>3, <2>6, <3>1, <3>2, <3>3, <3>4, <3>5
  <2> HIDE DEF B
  <2>11. PICK C : C = B
    OBVIOUS
  <2>12. Covers(call, C)'
    BY <2>8, <2>9, <2>10, <2>11 DEF Covers
  <2> QED
    BY <2>12
<1> QED
  BY <1>1, <1>4, <1>5

(* The sweep of a Fok finds, at every step, the orders its walk counted.   *)
FokCovered == pc = "sweep" /\ call.type = "Fok" => \E A : Covers(call, A)

(* A Fok that passed its walk stays covered to the end of its sweep.      *)
LEMMA NextCovered ==
    LevelInv /\ BookInv' /\ LevelTotals /\ FokCovered /\ [Next]_vars => FokCovered'
<1> SUFFICES ASSUME LevelInv, BookInv', LevelTotals, FokCovered, [Next]_vars,
                    pc' = "sweep", call'.type = "Fok"
             PROVE  (\E A : Covers(call, A))'
  BY DEF FokCovered
<1>1. CASE Submit
  <2>1. PICK id \in Ids, side \in Side, type \in OrderType, qty \in Quantities,
             owner \in Owners :
          \E price \in CallPrices(type) : submit(id, side, type, price, qty, owner)
    BY <1>1 DEF Submit
  <2>2. PICK price \in CallPrices(type) : submit(id, side, type, price, qty, owner)
    BY <2>1
  <2> DEFINE c == SubmitCall("submit", id, side, type, price, qty, owner)
  <2>3. c \in Call /\ c.remaining = c.qty /\ c.type = type
    BY CallTypes, CallPriceTypes DEF SubmitCall
  <2>4. call' = c /\ UNCHANGED book
    BY <2>2 DEF submit, Answer, StartSweep
  <2>5. can_fill(c)
    BY <2>2, <2>3, <2>4 DEF submit, Answer
  <2>6. \E A : Covers(c, A)
    BY <2>3, <2>5, CanFillCovers
  <2>7. PICK A : Covers(c, A)
    BY <2>6
  <2> HIDE DEF c
  <2>8. Covers(call, A)'
    BY <2>4, <2>7 DEF Covers, book, Live, OnSide, Left
  <2> QED
    BY <2>8
<1>2. CASE match
  <2>1. pc = "sweep" /\ call.type = "Fok"
    <3>1. BookInv
      BY DEF LevelInv
    <3>2. call \in Call
      BY <3>1 DEF BookInv, TypeOK
    <3> QED
      BY <1>2, <3>2 DEF match, Call
  <2>2. PICK A : Covers(call, A)
    BY <2>1 DEF FokCovered
  <2>3. BookInv
    BY DEF LevelInv
  <2>4. \E B : Covers(call, B)'
    BY <1>2, <2>2, <2>3, MatchCovers
  <2> QED
    BY <2>4
<1>3. CASE finish_submit \/ Cancel \/ return
  BY <1>3 DEF finish_submit, Cancel, cancel, return, Answer
<1>4. CASE Modify
  BY <1>4 DEF Modify, modify, Answer, StartSweep, SubmitCall
<1>5. CASE UNCHANGED vars
  <2>1. PICK A : Covers(call, A)
    BY <1>5 DEF FokCovered, vars
  <2>2. Covers(call, A)'
    BY <1>5, <2>1 DEF vars, Covers, Live, OnSide, Left
  <2> QED
    BY <2>2
<1> QED
  BY <1>1, <1>2, <1>3, <1>4, <1>5 DEF Next

(* A sweep that is covered ends with nothing remaining.                   *)
LEMMA NextFok ==
    LevelInv /\ FokCovered /\ FokAllOrNothing /\ [Next]_vars => FokAllOrNothing'
<1> SUFFICES ASSUME LevelInv, FokCovered, FokAllOrNothing, [Next]_vars,
                    pc' = "done", call'.type = "Fok"
             PROVE  res'.filled = IF res'.accepted THEN call'.qty ELSE 0
  BY DEF FokAllOrNothing
<1>0. BookInv
  BY DEF LevelInv
<1>1. CASE Submit
  <2>1. res' \in {[EmptyResult EXCEPT !.id = id] : id \in Ids}
    BY <1>1 DEF Submit, submit, Answer, StartSweep
  <2> QED
    BY <2>1 DEF EmptyResult
<1>2. CASE finish_submit
  <2>1. /\ pc = "sweep" /\ call' = call /\ res' = SubmitResult /\ ~Matches
        /\ call.type = "Fok"
    BY <1>2 DEF finish_submit, Answer
  <2>2. /\ call.remaining \in Nat /\ call.filled + call.remaining = call.qty
        /\ call.filled \in Nat
    BY <1>0, <2>1, InvParts, QModAssumption DEF ClientTypes, SweepSound, Call, Quantity
  <2>3. PICK A : Covers(call, A)
    BY <2>1 DEF FokCovered
  <2>4. call.remaining = 0
    <3>1. SUFFICES ASSUME call.remaining > 0 PROVE FALSE
      BY <2>2
    <3>2. Counts(Left, A)
      <4>1. A \in SUBSET Handles /\ pool \in [Handles -> Order]
        BY <1>0, <2>3 DEF Covers, Live, BookInv, TypeOK
      <4> QED
        BY <4>1, LeftCounts
    <3>3. A # {}
      BY <2>2, <2>3, <3>1, <3>2, TotalLaws DEF Covers
    <3>4. Crosses(call, OppositeBest) /\ Meets \in A
      BY <1>0, <2>3, <3>3, CoverIsMet
    <3>5. ~SelfTrade(call.owner, pool[Meets].owner)
      BY <2>3, <3>4 DEF Covers
    <3> QED
      BY <2>1, <3>1, <3>4, <3>5 DEF Matches
  <2>5. res'.accepted = TRUE /\ res'.filled = call.filled
    BY <2>1 DEF SubmitResult
  <2> QED
    BY <2>1, <2>2, <2>4, <2>5
<1>3. CASE match \/ return
  BY <1>3 DEF match, return
<1>4. CASE Cancel
  BY <1>4 DEF Cancel, cancel, Answer, CancelCall, NoCall
<1>5. CASE Modify
  <2>1. PICK id \in Ids, price \in Ticks, qty \in Quantities : modify(id, price, qty)
    BY <1>5 DEF Modify
  <2> DEFINE o == pool[id_index[id]]
  <2>2. \/ call' = CancelCall("modify", id)
        \/ call' = SubmitCall("modify", id, o.side, "Limit", price, qty, o.owner)
    BY <2>1 DEF modify, Answer, StartSweep
  <2>3. /\ CancelCall("modify", id).type = "Limit"
        /\ SubmitCall("modify", id, o.side, "Limit", price, qty, o.owner).type = "Limit"
    BY DEF SubmitCall, CancelCall, NoCall
  <2> HIDE DEF o
  <2>4. call'.type = "Limit"
    BY <2>2, <2>3
  <2> QED
    BY <2>4
<1>6. CASE UNCHANGED vars
  BY <1>6 DEF vars, FokAllOrNothing
<1> QED
  BY <1>1, <1>2, <1>3, <1>4, <1>5, <1>6 DEF Next

(* Fill-or-kill: an accepted Fok trades its whole quantity and a rejected  *)
(* one nothing, because the sweep meets, in order, the orders that the     *)
(* read-only walk counted, owner stops and 64-bit totals included.         *)
THEOREM FillOrKill == Spec => []FokAllOrNothing
<1>1. Init => FokCovered /\ FokAllOrNothing
  BY DEF Init, FokCovered, FokAllOrNothing
<1> QED
  BY <1>1, LevelSafety, BookSafety, TotalsExact, NextCovered, NextFok, PTL DEF Spec

-----------------------------------------------------------------------------
(* Every operation as what it does to the orders of the other identifiers. *)

(* The index finds the order of i where it was, as it was.                 *)
OrderKept(i) ==
    LET h == id_index[i]
    IN  /\ id_index'[i] = h
        /\ h # Null => /\ pool'[h].side = pool[h].side
                       /\ pool'[h].price = pool[h].price
                       /\ pool'[h].remaining = pool[h].remaining

OrdersKept(S) == \A i \in S : OrderKept(i)

(* A step that leaves the book alone keeps every order.                    *)
LEMMA SameBookKeeps ==
    ASSUME UNCHANGED book
    PROVE  OrdersKept(Ids)
BY DEF book, OrdersKept, OrderKept

(* An order is removed: the others are kept.                               *)
LEMMA UnlinkKept ==
    ASSUME BookInv, NEW id \in Ids, id_index[id] # Null,
           NEW pl, NEW lv, SameShape(pl, lv),
           \A g \in Live \ {id_index[id]} : pl[g].remaining = pool[g].remaining,
           unlink_and_free(id_index[id], pl, lv), id_index' = erase(id)
    PROVE  OrdersKept(Ids \ {id}) /\ id_index'[id] = Null
<1> DEFINE h == id_index[id]
<1>1. /\ h \in Live /\ pool[h].id = id /\ Structure /\ IndexExact
      /\ id_index \in [Ids -> Link]
  BY IndexedOrder, InvParts
<1>2. /\ Live' = Live \ {h}
      /\ \A g \in Live' : pool'[g].price = pool[g].price /\ pool'[g].side = pool[g].side
  BY <1>1, UnlinkLinks
<1>3. \A g \in Live \ {h} : pool'[g].remaining = pool[g].remaining
  BY <1>1, UnlinkQuantities
<1>4. id_index'[id] = Null /\ \A i \in Ids \ {id} : id_index'[i] = id_index[i]
  BY <1>1 DEF erase
<1>5. ASSUME NEW i \in Ids \ {id}, id_index[i] # Null
      PROVE  id_index[i] \in Live \ {h}
  BY <1>1, <1>5 DEF IndexExact
<1> QED
  BY <1>2, <1>3, <1>4, <1>5 DEF OrdersKept, OrderKept

(* cancel takes out the order of its identifier, if there is one.          *)
LEMMA CancelKeeps ==
    ASSUME BookInv, NEW id \in Ids, cancel(id)
    PROVE  /\ OrdersKept(Ids \ {id}) /\ id_index'[id] = Null
           /\ pc = "idle" /\ pc' = "done" /\ trade' = NoTrade
<1>1. pc = "idle" /\ pc' = "done" /\ trade' = NoTrade
  BY DEF cancel, Answer
<1>2. CASE id_index[id] = Null /\ UNCHANGED book
  BY <1>1, <1>2, SameBookKeeps DEF OrdersKept, book
<1>3. CASE /\ id_index[id] # Null /\ unlink_and_free(id_index[id], pool, levels)
           /\ id_index' = erase(id)
  BY <1>1, <1>3, InvParts, UnlinkKept
<1> QED
  BY <1>2, <1>3 DEF cancel

(* modify works on the order of its identifier alone.                      *)
LEMMA ModifyKeepsOthers ==
    ASSUME BookInv, NEW id \in Ids, NEW price, NEW qty, modify(id, price, qty)
    PROVE  /\ OrdersKept(Ids \ {id}) /\ trade' = NoTrade
           /\ pc = "idle" /\ pc' \in {"sweep", "done"}
           /\ pc' = "sweep" => call'.id = id
<1> DEFINE h == id_index[id]
<1>1. /\ pc = "idle" /\ trade' = NoTrade
      /\ pc' \in {"sweep", "done"} /\ (pc' = "sweep" => call'.id = id)
  BY DEF modify, Answer, StartSweep, SubmitCall
<1>2. CASE UNCHANGED book
  BY <1>1, <1>2, SameBookKeeps DEF OrdersKept
<1>3. CASE h # Null /\ unlink_and_free(h, pool, levels) /\ id_index' = erase(id)
  BY <1>1, <1>3, InvParts, UnlinkKept
<1>4. CASE /\ h # Null /\ pool' = [pool EXCEPT ![h].remaining = qty]
           /\ id_index' = id_index
  <2>1. ASSUME NEW i \in Ids \ {id}, id_index[i] # Null
        PROVE  id_index[i] # h
    BY <1>4, <2>1, IndexedOrder
  <2> QED
    BY <1>1, <1>4, <2>1 DEF OrdersKept, OrderKept
<1> QED
  BY <1>2, <1>3, <1>4 DEF modify

(* One trade of the sweep: of the two orders it names only the resting one *)
(* changes, an order of the other side whose price the call reaches.       *)
LEMMA MatchKeeps ==
    ASSUME BookInv, match
    PROVE  \E id \in Ids :
             /\ id_index[id] # Null
             /\ LET o == pool[id_index[id]]
                IN  o.side # call.side /\ o.side \in Side /\ Crosses(call, o.price)
             /\ trade'.resting_id = id /\ trade'.incoming_id = call.id
             /\ pc = "sweep" /\ pc' = "sweep" /\ call'.id = call.id
             /\ OrdersKept(Ids \ {id})
<1> DEFINE h == Meets
           o == pool[h]
           traded == Lesser(call.remaining, o.remaining)
           pool1 == [pool EXCEPT ![h].remaining = @ - traded]
           levels1 == [levels EXCEPT ![o.price].total = (@ - traded) % QMod]
<1>1. /\ Crosses(call, OppositeBest) /\ pc = "sweep" /\ pc' = "sweep"
      /\ call' = [call EXCEPT !.remaining = @ - traded, !.filled = @ + traded]
      /\ trade'.resting_id = o.id /\ trade'.incoming_id = call.id
  BY DEF match, Matches
<1>2. /\ h \in Live /\ h \in Handles /\ o \in Order /\ Structure /\ IndexExact
      /\ ClientTypes /\ Live \subseteq Handles /\ h # Null
      /\ pool \in [Handles -> Order] /\ levels \in [Ticks -> PriceLevel]
  BY <1>1, MeetsLive, InvParts, NullAssumption DEF Structure, BookTypes, Live
<1>3. o.id \in Ids /\ id_index[o.id] = h
  BY <1>2 DEF IndexExact
<1>4. o.price = OppositeBest
  <2>1. OppositeBest \in Ticks
    BY <1>1, <1>2 DEF Crosses, OppositeBest, Structure, BookTypes
  <2> QED
    BY <1>2, <2>1 DEF Structure, Linked, Meets
<1>5. o.side # call.side /\ o.side \in Side
  <2>1. /\ call.side \in Side /\ o.side \in Side /\ o.price \in Ticks
        /\ best_bid \in Ticks \cup {NoPrice} /\ best_ask \in Ticks \cup {NoPrice}
    BY <1>2 DEF Order, ClientTypes, Call, Structure, BookTypes
  <2>2. /\ o.side = "Buy" => o.price <= best_bid
        /\ o.side = "Sell" => best_ask # NoPrice /\ best_ask <= o.price
        /\ best_bid # NoPrice /\ best_ask # NoPrice => best_bid < best_ask
    BY <1>2 DEF Structure, BestPrices, OnSide
  <2> QED
    BY <1>4, <2>1, <2>2 DEF OppositeBest, Ticks, NoPrice, Side
<1>6. OrdersKept(Ids \ {o.id})
  <2>1. /\ o.remaining \in Quantity /\ call.remaining \in Quantity
        /\ levels[o.price].total \in Quantity /\ o.price \in Ticks
    BY <1>2 DEF Order, ClientTypes, Call, PriceLevel
  <2>2. /\ o.remaining - traded \in Quantity
        /\ (levels[o.price].total - traded) % QMod \in Quantity
    BY <2>1, QModAssumption DEF Lesser, Quantity
  <2> HIDE DEF traded
  <2>3. SameShape(pool1, levels1)
    BY <1>2, <2>1, <2>2 DEF SameShape, Order, PriceLevel
  <2>4. \A g \in Handles \ {h} : pool1[g] = pool[g]
    BY <1>2
  <2>5. CASE unlink_and_free(h, pool1, levels1) /\ id_index' = erase(o.id)
    <3> HIDE DEF pool1, levels1
    <3>1. \A g \in Live \ {h} : pool1[g].remaining = pool[g].remaining
      BY <1>2, <2>4
    <3>2. unlink_and_free(id_index[o.id], pool1, levels1)
      BY <1>3, <2>5
    <3> HIDE DEF o
    <3> QED
      BY <1>2, <1>3, <2>3, <2>5, <3>1, <3>2, UnlinkKept
  <2>6. CASE pool' = pool1 /\ id_index' = id_index
    <3>1. ASSUME NEW i \in Ids \ {o.id}, id_index[i] # Null
          PROVE  id_index[i] \in Handles \ {h}
      BY <3>1, IndexedOrder
    <3> QED
      BY <2>4, <2>6, <3>1 DEF OrdersKept, OrderKept
  <2> QED
    BY <2>5, <2>6 DEF match, traded
<1>7. call'.id = call.id
  BY <1>1, <1>2 DEF ClientTypes, Call
<1> QED
  BY <1>1, <1>2, <1>3, <1>4, <1>5, <1>6, <1>7

(* The end of submit: with a slot left the order rests as the sweep left   *)
(* it, if it rests at all; the other orders are kept.                      *)
LEMMA FinishKeeps ==
    ASSUME BookInv, finish_submit
    PROVE  /\ OrdersKept(Ids \ {call.id}) /\ trade' = NoTrade
           /\ pc = "sweep" /\ pc' = "done"
           /\ LET h == id_index'[call.id]
              IN  IF Rests /\ free # {}
                    THEN /\ h # Null
                         /\ pool'[h].side = call.side /\ pool'[h].price = call.price
                         /\ pool'[h].remaining = call.remaining
                    ELSE h = Null
<1>1. /\ pc = "sweep" /\ pc' = "done" /\ trade' = NoTrade
  BY DEF finish_submit, Answer
<1>2. CASE UNCHANGED book /\ ~(Rests /\ free # {})
  BY <1>1, <1>2, InvParts, SameBookKeeps DEF OrdersKept, SweepSound, book
<1>3. ASSUME Rests, NEW h \in free,
             rest_in_slot(h, call.id, call.side, call.price, call.remaining, call.owner)
      PROVE  /\ OrdersKept(Ids \ {call.id})
             /\ id_index'[call.id] = h /\ h # Null
             /\ pool'[h].side = call.side /\ pool'[h].price = call.price
             /\ pool'[h].remaining = call.remaining
  <2>1. /\ Structure /\ IndexExact /\ ClientTypes /\ id_index \in [Ids -> Link]
        /\ call.id \in Ids /\ h # Null
    BY <1>1, InvParts, NullAssumption DEF ClientTypes, Structure, BookTypes
  <2>2. Adds(h)
    BY <1>1, <1>3, <2>1, QModAssumption DEF Adds, Rests, ClientTypes, Call, Quantity
  <2>3. /\ pool'[h].side = call.side /\ pool'[h].price = call.price
        /\ pool'[h].remaining = call.remaining
        /\ \A g \in Live : /\ pool'[g].price = pool[g].price
                           /\ pool'[g].remaining = pool[g].remaining
                           /\ pool'[g].side = pool[g].side
    BY <2>1, <2>2, AddsOrder
  <2>4. id_index' = [id_index EXCEPT ![call.id] = h]
    BY <1>3 DEF rest_in_slot
  <2>5. OrdersKept(Ids \ {call.id})
    BY <2>1, <2>3, <2>4 DEF OrdersKept, OrderKept, IndexExact
  <2> QED
    BY <2>1, <2>3, <2>4, <2>5
<1> QED
  BY <1>1, <1>2, <1>3 DEF finish_submit, rest_order

-----------------------------------------------------------------------------
(* A pool with a slot for every identifier. *)

(* Fewer identifiers in use than slots: a slot is free.                    *)
LEMMA RoomForOne ==
    ASSUME BookInv, NEW S \in SUBSET Ids, IsFiniteSet(S),
           Cardinality(S) < Cardinality(Handles),
           \A i \in Ids \ S : id_index[i] = Null
    PROVE  free # {}
<1> SUFFICES ASSUME free = {} PROVE FALSE
  OBVIOUS
<1> DEFINE idOf == [h \in Handles |-> pool[h].id]
<1>1. IndexExact /\ Live = Handles
  BY InvParts DEF Live
<1>2. \A h \in Handles : pool[h].id \in S /\ id_index[pool[h].id] = h
  BY <1>1, NullAssumption DEF IndexExact
<1>3. idOf \in [Handles -> S] /\ \A g, h \in Handles : idOf[g] = idOf[h] => g = h
  BY <1>2
<1> HIDE DEF idOf
<1> QED
  BY <1>3, FiniteAssumption, FS_PigeonHole

(* The live orders have different ids, none of them the one of the call,   *)
(* so one slot at least is left for it.                                    *)
LEMMA RoomForAll ==
    ASSUME IsFiniteSet(Ids), Cardinality(Ids) <= Cardinality(Handles),
           BookInv, pc = "sweep"
    PROVE  free # {}
<1> DEFINE others == Ids \ {call.id}
<1>1. call.id \in Ids /\ id_index[call.id] = Null
  BY InvParts DEF ClientTypes, SweepSound
<1>2. IsFiniteSet(others) /\ Cardinality(others) < Cardinality(Handles)
  <2>1. /\ IsFiniteSet(others) /\ Cardinality(Ids) \in Nat \ {0}
        /\ Cardinality(others) = Cardinality(Ids) - 1
    BY <1>1, OneLess
  <2>2. Cardinality(Handles) \in Nat
    BY LiveFinite
  <2> HIDE DEF others
  <2> QED
    BY <2>1, <2>2
<1>3. \A i \in Ids \ others : id_index[i] = Null
  BY <1>1
<1>4. others \in SUBSET Ids
  OBVIOUS
<1> HIDE DEF others
<1> QED
  BY <1>2, <1>3, <1>4, RoomForOne

(* Every call reports as resting what it leaves in the book.              *)
LEMMA NextResting ==
    ASSUME IsFiniteSet(Ids), Cardinality(Ids) <= Cardinality(Handles)
    PROVE  BookInv /\ RestingIsInBook /\ [Next]_vars => RestingIsInBook'
<1> SUFFICES ASSUME BookInv, RestingIsInBook, [Next]_vars,
                    pc' = "done", call'.op # "cancel"
             PROVE  IF res'.resting = 0 THEN id_index'[call'.id] = Null
                                        ELSE RestsInBook(call.id, res.resting)'
  BY DEF RestingIsInBook
<1>0. /\ Structure /\ id_index \in [Ids -> Link] /\ ClientTypes /\ SweepSound
  BY InvParts
<1>1. CASE Submit
  <2>1. PICK id \in Ids : id_index[id] = Null /\ call'.id = id
                          /\ res' = [EmptyResult EXCEPT !.id = id] /\ id_index' = id_index
    BY <1>1 DEF Submit, submit, Answer, StartSweep, SubmitCall, book
  <2> QED
    BY <2>1 DEF EmptyResult
<1>2. CASE finish_submit
  <2>1. /\ pc = "sweep" /\ call' = call /\ res' = SubmitResult
        /\ call.id \in Ids /\ id_index[call.id] = Null
    BY <1>0, <1>2 DEF finish_submit, Answer, ClientTypes, SweepSound
  <2>2. CASE ~Rests
    <3>1. res'.resting = 0 /\ id_index' = id_index
      BY <1>2, <2>1, <2>2 DEF SubmitResult, finish_submit, book
    <3> QED
      BY <2>1, <3>1
  <2>3. CASE Rests
    <3>1. res'.resting = call.remaining /\ call.remaining \in Quantity \ {0}
          /\ call.price \in Ticks
      BY <1>0, <2>1, <2>3, QModAssumption
         DEF SubmitResult, Rests, ClientTypes, Call, Quantity
    <3>2. PICK h \in free : rest_in_slot(h, call.id, call.side, call.price,
                                         call.remaining, call.owner)
      BY <1>2, <2>1, <2>3, RoomForAll DEF finish_submit, rest_order
    <3>3. Adds(h) /\ h \in Handles
      BY <1>0, <2>1, <3>1, <3>2 DEF Adds, Structure, BookTypes
    <3>4. pool'[h].remaining = call.remaining
      BY <1>0, <3>3, AddsOrder
    <3>5. id_index'[call.id] = h
      BY <1>0, <2>1, <3>2 DEF rest_in_slot
    <3> QED
      BY <2>1, <3>1, <3>3, <3>4, <3>5, NullAssumption DEF RestsInBook
  <2> QED
    BY <2>2, <2>3
<1>3. CASE match \/ return
  BY <1>3 DEF match, return
<1>4. CASE Cancel
  BY <1>4 DEF Cancel, cancel, Answer, CancelCall, NoCall
<1>5. CASE Modify
  <2>1. PICK id \in Ids, price \in Ticks, qty \in Quantities : modify(id, price, qty)
    BY <1>5 DEF Modify
  <2> DEFINE o == pool[id_index[id]]
             c == SubmitCall("modify", id, o.side, "Limit", price, qty, o.owner)
             accepted == [EmptyResult EXCEPT !.id = id, !.accepted = TRUE]
  <2>2. /\ CancelCall("modify", id).id = id /\ c.id = id
        /\ EmptyResult.resting = 0 /\ accepted.resting = 0
        /\ [accepted EXCEPT !.resting = qty].resting = qty
    BY DEF SubmitCall, CancelCall, NoCall, EmptyResult
  <2>3. CASE id_index[id] = Null \/ qty = 0
    <3>1. /\ call' = CancelCall("modify", id) /\ res' \in {EmptyResult, accepted}
          /\ \/ id_index' = id_index /\ id_index[id] = Null
             \/ id_index' = erase(id)
      BY <2>1, <2>3 DEF modify, Answer, StartSweep, book
    <3>2. id_index'[id] = Null
      BY <1>0, <3>1 DEF erase
    <3> HIDE DEF accepted
    <3> QED
      BY <2>2, <3>1, <3>2
  <2>4. CASE /\ id_index[id] # Null /\ qty # 0
             /\ price = o.price /\ qty <= o.remaining
    <3>1. /\ pool' = [pool EXCEPT ![id_index[id]].remaining = qty]
          /\ id_index' = id_index
          /\ call' = c
          /\ res' = [accepted EXCEPT !.resting = qty]
      BY <2>1, <2>4 DEF modify, Answer, StartSweep
    <3>2. id_index[id] \in Handles /\ pool \in [Handles -> Order]
          /\ pool[id_index[id]] \in Order
      BY <2>4, IndexedOrder, InvParts DEF Structure, BookTypes
    <3>3. call'.id = id /\ res'.resting = qty
      BY <2>2, <3>1
    <3> QED
      BY <2>4, <3>1, <3>2, <3>3 DEF RestsInBook, Order
  <2>5. CASE /\ id_index[id] # Null /\ qty # 0
             /\ price # o.price \/ ~(qty <= o.remaining)
    BY <2>1, <2>5 DEF modify, StartSweep
  <2> QED
    BY <2>3, <2>4, <2>5
<1>6. CASE UNCHANGED vars
  BY <1>6 DEF vars, RestingIsInBook, RestsInBook
<1> QED
  BY <1>1, <1>2, <1>3, <1>4, <1>5, <1>6 DEF Next

(* ExecResult.resting is what rests in the book, and an order of which     *)
(* nothing is reported resting is not in it, when the pool has a slot for  *)
(* every identifier in use; with fewer slots rest_order drops the          *)
(* remainder that the result reports.                                      *)
THEOREM RestingReported ==
    ASSUME IsFiniteSet(Ids), Cardinality(Ids) <= Cardinality(Handles)
    PROVE  Spec => []RestingIsInBook
<1>1. Init => RestingIsInBook
  BY DEF Init, RestingIsInBook
<1>2. BookInv /\ RestingIsInBook /\ [Next]_vars => RestingIsInBook'
  BY NextResting
<1> QED
  BY <1>1, <1>2, BookSafety, PTL DEF Spec
=============================================================================
