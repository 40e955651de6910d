---------------------------- MODULE ReplayProofs ----------------------------
(***************************************************************************)
(* Proofs about Replay: the replayed book mirrors the recorded orders as   *)
(* far as the replay can follow them, and trades only for reasons of the   *)
(* replay itself.  The invariant of the book comes from OrderBookProofs.   *)
(***************************************************************************)
EXTENDS Replay, FiniteSetTheorems, TLAPS

P == INSTANCE OrderBookProofs

(* What is finite here is finite for OrderBookProofs, too.                 *)
LEMMA SameFinite == ASSUME NEW S PROVE P!IsFiniteSet(S) <=> IsFiniteSet(S)
BY DEF IsFiniteSet, P!IsFiniteSet

(* And has as many elements.                                               *)
LEMMA SameCardinality ==
    ASSUME NEW S PROVE P!Cardinality(S) = Cardinality(S)
BY Zenon DEF Cardinality, P!Cardinality

(* The slots in particular: the assumption that OrderBookProofs makes.     *)
LEMMA FiniteCore == P!IsFiniteSet(Handles)
BY HandlesAssumption, SameFinite

(* What the theorems of OrderBookProofs assume of the constants. *)
USE NullIdAssumption, TickRangeAssumption, QModAssumption, QuantitiesAssumption,
    OwnersAssumption, HandlesAssumption, FiniteCore

-----------------------------------------------------------------------------
(* The book is read twice here: as B, which Replay drives, and as P, about *)
(* which OrderBookProofs has its theorems.  The two are the same.          *)

(* The initial book.                                                       *)
LEMMA SameInit ==
    ASSUME B!Init
    PROVE  P!Init
BY DEF B!Init, P!Init, B!DefaultOrder, P!DefaultOrder, B!Ticks, P!Ticks,
       B!NoPrice, P!NoPrice, B!NoCall, P!NoCall, B!EmptyResult, P!EmptyResult,
       B!NoTrade, P!NoTrade

(* The empty result, call and trade.                                       *)
LEMMA SameData == /\ B!EmptyResult = P!EmptyResult /\ B!NoCall = P!NoCall
                  /\ B!NoTrade = P!NoTrade
<1>1. B!EmptyResult = P!EmptyResult
  BY Zenon DEF B!EmptyResult, P!EmptyResult
<1>2. B!NoCall = P!NoCall /\ B!NoTrade = P!NoTrade
  BY DEF B!NoCall, P!NoCall, B!NoTrade, P!NoTrade, B!NoPrice, P!NoPrice
<1> QED
  BY <1>1, <1>2

(* unlink_and_free.                                                        *)
LEMMA SameUnlink ==
    ASSUME NEW h, NEW pl, NEW lv, B!unlink_and_free(h, pl, lv)
    PROVE  P!unlink_and_free(h, pl, lv)
BY DEF B!unlink_and_free, P!unlink_and_free, B!Spliced, P!Spliced, B!Relinked,
       P!Relinked, B!deallocate, P!deallocate, B!reprice_best_bid,
       P!reprice_best_bid, B!reprice_best_ask, P!reprice_best_ask, B!NonEmpty,
       P!NonEmpty, B!Ticks, P!Ticks, B!NoPrice, P!NoPrice, B!DefaultOrder,
       P!DefaultOrder, B!erase, P!erase

(* The condition of the loop of match.                                     *)
LEMMA SameMatches == B!Matches <=> P!Matches
BY DEF B!Matches, P!Matches, B!Crosses, P!Crosses, B!LimitPrice, P!LimitPrice,
       B!OppositeBest, P!OppositeBest, B!NoPrice, P!NoPrice, B!SelfTrade,
       P!SelfTrade, B!Meets, P!Meets

(* One trade of the sweep.                                                 *)
LEMMA SameMatch ==
    ASSUME B!match
    PROVE  P!match
BY SameMatches, SameUnlink DEF B!match, P!match, B!Meets, P!Meets,
       B!OppositeBest, P!OppositeBest, B!Lesser, P!Lesser, B!erase, P!erase

(* The end of submit.                                                      *)
LEMMA SameFinish ==
    ASSUME B!finish_submit
    PROVE  P!finish_submit
BY SameMatches DEF B!finish_submit, P!finish_submit, B!Rests, P!Rests,
       B!rest_order, P!rest_order, B!rest_in_slot, P!rest_in_slot, B!OldTail,
       P!OldTail, B!Answer, P!Answer, B!SubmitResult, P!SubmitResult,
       B!Crosses, P!Crosses, B!LimitPrice, P!LimitPrice, B!OppositeBest,
       P!OppositeBest, B!NoPrice, P!NoPrice, B!NoTrade, P!NoTrade, B!book,
       P!book

(* cancel.                                                                 *)
LEMMA SameCancel ==
    ASSUME NEW id, B!cancel(id)
    PROVE  P!cancel(id)
BY SameUnlink, SameData DEF B!cancel, P!cancel, B!CancelCall, P!CancelCall,
       B!Answer, P!Answer, B!erase, P!erase, B!book, P!book

(* modify.                                                                 *)
LEMMA SameModify ==
    ASSUME NEW id, NEW np, NEW nq, B!modify(id, np, nq)
    PROVE  P!modify(id, np, nq)
BY SameUnlink, SameData DEF B!modify, P!modify, B!CancelCall, P!CancelCall,
       B!Answer, P!Answer, B!erase, P!erase, B!book, P!book, B!StartSweep,
       P!StartSweep, B!SubmitCall, P!SubmitCall

(* The return of a call.                                                   *)
LEMMA SameReturn ==
    ASSUME B!return
    PROVE  P!return
BY SameData DEF B!return, P!return, B!book, P!book

-----------------------------------------------------------------------------
(* The invariant, except for Complete: what holds whatever the pool of the *)
(* book has room for.                                                      *)

FollowInv == TypeOK /\ Faithful /\ Uncrossed /\ Settled /\ NewToBook

FeedOrder == [sym : Symbols \cup {AnySymbol}, side : Side,
              raw : RawPrices \cup {0}, qty : Quantity, whole : BOOLEAN]

Agrees(r) == IF InCall(r) THEN InFlight(r) ELSE id_index[r] # Null => Mirrored(r)

(* What is known of the order a message is about once it is read: it is on *)
(* its way into the book, or neither followed there nor in it.             *)
Fresh(r) == IF InCall(r) THEN InFlight(r) ELSE ~Followed(r) /\ id_index[r] = Null

(* A step of the driver that touches at most the order of one reference,   *)
(* by a call a client may make.                                            *)
Touches(id) == /\ P!BookInv' /\ P!OrdersKept(Ids \ {id})
               /\ [B!Next]_(B!vars)
               /\ trade' = NoTrade
               /\ pc' = "sweep" => call'.id = id

(* A tick is a natural number.                                             *)
LEMMA TickNat == \A raw \in Nat : Tick(raw) \in Nat
<1> SUFFICES ASSUME NEW raw \in Nat PROVE raw \div TickDivisor \in Nat
  BY DEF Tick
<1> PICK d \in Nat \ {0} : d = TickDivisor
  BY ReplayAssumption
<1>1. raw \div d \in Nat
  OBVIOUS
<1> QED
  BY <1>1

(* Ticks grow with the prices: of two different ticks the smaller one has  *)
(* the smaller prices.                                                     *)
LEMMA TickGrows ==
    ASSUME NEW a \in Nat, NEW b \in Nat, a < b
    PROVE  Tick(a) <= Tick(b)
<1> PICK d \in Nat \ {0} : d = TickDivisor
  BY ReplayAssumption
<1>1. /\ a \div d \in Nat /\ a % d \in 0 .. d - 1 /\ a = d * (a \div d) + (a % d)
      /\ b \div d \in Nat /\ b % d \in 0 .. d - 1 /\ b = d * (b \div d) + (b % d)
  OBVIOUS
<1>2. PICK i \in Nat, j \in Nat, m \in 0 .. d - 1, n \in 0 .. d - 1 :
        /\ i = a \div d /\ j = b \div d
        /\ a = d * i + m /\ b = d * j + n
  BY <1>1
<1>3. i <= j
  <2> SUFFICES ASSUME j + 1 <= i PROVE FALSE
    OBVIOUS
  <2>1. d * (j + 1) <= d * i
    <3>1. PICK k \in Nat : i = (j + 1) + k
      <4>1. i - (j + 1) \in Nat /\ i = (j + 1) + (i - (j + 1))
        OBVIOUS
      <4> QED
        BY <4>1
    <3>2. d * i = d * (j + 1) + d * k /\ d * k \in Nat /\ d * (j + 1) \in Nat
      BY <3>1
    <3> QED
      BY <3>2
  <2>2. d * (j + 1) = d * j + d /\ d * j \in Nat /\ d * i \in Nat
    OBVIOUS
  <2> QED
    BY <1>2, <2>1, <2>2
<1> QED
  BY <1>2, <1>3 DEF Tick

-----------------------------------------------------------------------------
(* What the messages are to the driver. *)

(* A message that is not intact makes no event.                            *)
LEMMA GarbledEvent ==
    ASSUME NEW m, ~m.intact
    PROVE  Parse(m).action = "none"
BY DEF Parse, parse_line, parse_message, Drops, NoEvent

(* An add makes an event, unless a filter is set: no reference is a symbol.*)
LEMMA AddEvent ==
    ASSUME TypeOK, NEW m, m.intact, m.ref \in Ids,
           m.type = IF format = "Lobster" THEN 1 ELSE "A"
    PROVE  Parse(m) = IF filter = AnySymbol
                        THEN MarketEvent("Add", m, m.side, Tick(m.raw)) ELSE NoEvent
<1>1. filter # AnySymbol => m.ref # filter
  BY ReplayAssumption DEF TypeOK
<1>2. CASE format = "Lobster"
  BY <1>2 DEF TypeOK, Parse, parse_line, LobsterAction
<1>3. CASE format = "Itch"
  BY <1>1, <1>3 DEF Parse, parse_message, Drops, Rejects, ItchAction
<1> QED
  BY <1>2, <1>3 DEF TypeOK

(* The price of an event that takes an order out: a LOBSTER message has    *)
(* one, an ITCH message only when the execution does.                      *)
PriceOf(m) == IF format = "Lobster" \/ m.type = "C" THEN Tick(m.raw) ELSE 0

(* An execution, in part or in full, and a cancel take the order out.      *)
LEMMA CancelEvent ==
    ASSUME TypeOK, NEW m, m.intact, m.side \in Side,
           format = "Lobster" => m.type \in {2, 3, 4, 5},
           format = "Itch" => m.type \in {"E", "C", "X", "D"}
    PROVE  \E action \in Cancelling, side \in Side :
             Parse(m) = MarketEvent(action, m, side, PriceOf(m))
<1>1. CASE format = "Lobster"
  <2>1. LobsterAction(m.type) \in Cancelling
    BY <1>1 DEF LobsterAction, Cancelling
  <2> QED
    BY <1>1, <2>1 DEF Parse, parse_line, PriceOf
<1>2. CASE format = "Itch"
  <2>1. ItchAction(m.type) \in Cancelling
    BY <1>2 DEF ItchAction, Cancelling
  <2> QED
    BY <1>2, <2>1 DEF Parse, parse_message, Drops, PriceOf, Side
<1> QED
  BY <1>1, <1>2 DEF TypeOK

(* A replace modifies the order of the old reference.                      *)
LEMMA ReplaceEvent ==
    ASSUME NEW m, m.intact, format = "Itch", m.type = "U"
    PROVE  Parse(m) = MarketEvent("Modify", m, "Buy", Tick(m.raw))
BY DEF Parse, parse_message, Drops, ItchAction

(* A step of the driver that makes no call.                                *)
LEMMA NoCallTouches ==
    ASSUME P!BookInv, Settled, pc = "idle", UNCHANGED book, NEW id
    PROVE  Touches(id) /\ P!OrdersKept(Ids) /\ pc' = "idle"
<1>1. UNCHANGED P!vars /\ UNCHANGED P!book /\ UNCHANGED B!vars
  BY DEF book, P!vars, P!book, B!vars
<1>2. P!BookInv' /\ P!OrdersKept(Ids)
  BY <1>1, P!StutterInv, P!SameBookKeeps
<1> QED
  BY <1>1, <1>2 DEF Touches, book, Settled, P!OrdersKept

(* An event that is none, or out of range, is skipped.                     *)
LEMMA Skipped ==
    ASSUME NEW e, replay(e), e.action = "none" \/ ~InRange(e.price)
    PROVE  UNCHANGED book
BY DEF replay, Cancelling

(* An add in range submits a Limit order of nobody's.                      *)
LEMMA AddTouches ==
    ASSUME P!BookInv, NEW id \in Ids, NEW side \in Side, NEW price \in Ticks,
           NEW qty \in Quantities, B!submit(id, side, "Limit", price, qty, 0)
    PROVE  /\ Touches(id) /\ pc' = "sweep" /\ id_index'[id] = Null
           /\ call'.type = "Limit" /\ call'.owner = 0 /\ call'.side = side
           /\ call'.price = price /\ call'.remaining = qty /\ call'.id = id
<1> DEFINE c == P!SubmitCall("submit", id, side, "Limit", price, qty, 0)
<1>1. P!StartSweep(c) /\ UNCHANGED P!book /\ id_index[id] = Null
  BY SameData DEF B!submit, B!StartSweep, P!StartSweep, B!SubmitCall,
     P!SubmitCall, B!book, P!book
<1>2. /\ side \in P!Side /\ price \in P!Ticks /\ price \in P!AnyPrice
      /\ "Limit" \in P!OrderType
  BY TickRangeAssumption DEF Side, P!Side, Ticks, P!Ticks, P!AnyPrice, P!NoPrice,
     P!OrderType
<1>3. c \in P!Call
  BY <1>2, P!CallTypes
<1>4. /\ c.type = "Limit" /\ c.owner = 0 /\ c.side = side /\ c.price = price
      /\ c.remaining = qty /\ c.id = id /\ c.filled = 0 /\ c.qty = qty
  BY DEF P!SubmitCall
<1> HIDE DEF c
<1>5. c.filled + c.remaining = c.qty
  BY <1>4, QuantitiesAssumption, QModAssumption
<1>6. /\ P!Structure' /\ P!IndexExact' /\ id_index' \in [Ids -> P!Link]
      /\ id_index' = id_index /\ P!OrdersKept(Ids)
  BY <1>1, P!SameBook, P!SameBookKeeps DEF P!book
<1>7. P!BookInv'
  BY <1>1, <1>2, <1>3, <1>4, <1>5, <1>6, P!SweepClient, P!InvFromParts
<1>8. call' = c /\ pc' = "sweep" /\ trade' = NoTrade
  BY <1>1 DEF P!StartSweep, P!NoTrade, NoTrade, P!NoPrice, NoPrice
<1>9. B!Next
  <2>1. /\ side \in B!Side /\ "Limit" \in B!OrderType
        /\ price \in B!CallPrices("Limit") /\ 0 \in Owners
    BY ReplayAssumption DEF Side, B!Side, B!OrderType, B!CallPrices, B!Ticks, Ticks
  <2> QED
    BY <2>1 DEF B!Next, B!Submit
<1> QED
  BY <1>1, <1>4, <1>6, <1>7, <1>8, <1>9 DEF Touches, P!OrdersKept

(* A cancel or an execution in range leaves the reference without order.   *)
LEMMA CancelTouches ==
    ASSUME P!BookInv, NEW id \in Ids, B!cancel(id)
    PROVE  Touches(id) /\ id_index'[id] = Null /\ pc' = "done"
<1>1. P!cancel(id)
  BY SameCancel
<1>2. P!BookInv'
  BY <1>1, P!CancelInv
<1>3. /\ P!OrdersKept(Ids \ {id}) /\ id_index'[id] = Null
      /\ pc' = "done" /\ trade' = P!NoTrade
  BY <1>1, P!CancelKeeps
<1>4. B!Next
  BY DEF B!Next, B!Cancel
<1> QED
  BY <1>2, <1>3, <1>4 DEF Touches, P!NoTrade, NoTrade, P!NoPrice, NoPrice

(* A replace in range modifies the order of its reference.                 *)
LEMMA ModifyTouches ==
    ASSUME P!BookInv, NEW id \in Ids, NEW price \in Ticks, NEW qty \in Quantities,
           B!modify(id, price, qty)
    PROVE  Touches(id)
<1>1. P!modify(id, price, qty) /\ price \in P!Ticks
  BY SameModify DEF Ticks, P!Ticks
<1>2. P!BookInv'
  BY <1>1, P!ModifyInv
<1>3. /\ P!OrdersKept(Ids \ {id}) /\ trade' = P!NoTrade
      /\ pc' = "sweep" => call'.id = id
  BY <1>1, P!ModifyKeepsOthers
<1>4. B!Next
  BY DEF B!Next, B!Modify, B!Ticks, Ticks
<1> QED
  BY <1>2, <1>3, <1>4 DEF Touches, P!NoTrade, NoTrade, P!NoPrice, NoPrice

-----------------------------------------------------------------------------
(* Messages. *)

(* A message and what it changes, as both halves of the invariant use it:  *)
(* the orders of other references stay, at the exchange and in the book,   *)
(* and the order of its own is fresh or astray.                            *)
Delivered(m, f, lost) ==
    /\ pc = "idle" /\ Touches(m.ref)
    /\ m.ref = Hidden => id_index'[Hidden] = Null /\ pc' # "sweep"
    /\ f \in [Refs -> FeedOrder] /\ feed' = f
    /\ \A s \in Refs \ {m.ref, m.new} : f[s] = feed[s]
    /\ \A s \in Refs : f[s] = Unused => s \notin {m.ref, m.new}
    /\ m.intact /\ m.ref \in Refs \ (astray \cup lost) => Fresh(m.ref)'
    /\ m.new \in Refs => m.intact /\ m.new \in lost
    /\ lost \subseteq Refs
    /\ astray' = astray \cup (IF m.intact THEN lost ELSE {m.ref, m.new} \cap Refs)
    /\ Uncrossed'
    /\ UNCHANGED <<format, filter>> /\ ended' \in BOOLEAN

(* A message that leaves its order out of the book, when it does not have  *)
(* to be there.                                                            *)
LEMMA FreshWithout ==
    ASSUME NEW r \in Refs, pc' # "sweep", id_index'[r] = Null, ~Followed(r)'
    PROVE  Fresh(r)'
BY DEF Fresh, InCall

(* An order that stays at the exchange and in the book stays followed.     *)
LEMMA OthersFollowed ==
    ASSUME Faithful, NEW r \in Refs \ astray, P!OrderKept(r), feed'[r] = feed[r],
           filter' = filter, ~InCall(r), ~InCall(r)'
    PROVE  /\ Agrees(r)'
           /\ (Followed(r) => id_index[r] # Null) => (Followed(r)' => id_index'[r] # Null)
<1>1. (Expected(r)' <=> Expected(r)) /\ (Followed(r)' <=> Followed(r))
  BY DEF Expected, Followed, Open
<1>2. id_index[r] # Null => Mirrored(r)
  BY DEF Faithful
<1>3. /\ id_index'[r] = id_index[r]
      /\ id_index[r] # Null =>
           LET h == id_index[r]
           IN  /\ pool'[h].side = pool[h].side /\ pool'[h].price = pool[h].price
               /\ pool'[h].remaining = pool[h].remaining
  BY DEF P!OrderKept
<1> QED
  BY <1>1, <1>2, <1>3 DEF Agrees, Mirrored

(* Orders that stay at the exchange, or go, do not come to cross.          *)
LEMMA FewerUncrossed ==
    ASSUME Uncrossed,
           \A s \in Open' : /\ s \in Open /\ feed'[s].sym = feed[s].sym
                            /\ feed'[s].side = feed[s].side
                            /\ feed'[s].raw = feed[s].raw
    PROVE  Uncrossed'
BY DEF Uncrossed

(* Nor do they with one order more that crosses none of them.              *)
LEMMA AddedUncrossed ==
    ASSUME Uncrossed, NEW o, NotCrossing(o), o.raw \in Nat,
           \A s \in Open : feed[s].raw \in Nat,
           \A s \in Open' :
             \/ feed'[s] = o
             \/ s \in Open /\ feed'[s] = feed[s]
    PROVE  Uncrossed'
<1> SUFFICES ASSUME NEW b \in Open', NEW s \in Open', feed'[b].sym = feed'[s].sym,
                    feed'[b].side = "Buy", feed'[s].side = "Sell"
             PROVE  feed'[b].raw < feed'[s].raw
  BY DEF Uncrossed
<1>1. CASE feed'[b] = o
  <2>1. s \in Open /\ feed'[s] = feed[s]
    BY <1>1
  <2> QED
    BY <1>1, <2>1 DEF NotCrossing
<1>2. CASE b \in Open /\ feed'[b] = feed[b]
  <2>1. CASE feed'[s] = o
    BY <1>2, <2>1 DEF NotCrossing
  <2>2. CASE s \in Open /\ feed'[s] = feed[s]
    BY <1>2, <2>2 DEF Uncrossed
  <2> QED
    BY <2>1, <2>2
<1> QED
  BY <1>1, <1>2

(* What the type invariant says of the exchange.                           *)
LEMMA FeedTypes ==
    ASSUME TypeOK
    PROVE  /\ feed \in [Refs -> FeedOrder]
           /\ \A r \in Refs : /\ feed[r].raw \in Nat /\ feed[r].side \in Side
                              /\ feed[r].qty \in Quantity /\ Tick(feed[r].raw) \in Nat
           /\ Unused \in FeedOrder /\ Closed \in FeedOrder
<1>1. feed \in [Refs -> FeedOrder]
  BY DEF TypeOK, FeedOrder
<1>2. ASSUME NEW r \in Refs
      PROVE  /\ feed[r].raw \in Nat /\ feed[r].side \in Side
             /\ feed[r].qty \in Quantity
  <2>1. feed[r] \in FeedOrder
    BY <1>1
  <2>2. /\ feed[r].raw \in RawPrices \cup {0} /\ feed[r].side \in Side
        /\ feed[r].qty \in Quantity
    BY <2>1 DEF FeedOrder
  <2>3. RawPrices \cup {0} \subseteq Nat
    BY ReplayAssumption
  <2> QED
    BY <2>2, <2>3
<1>3. Unused \in FeedOrder /\ Closed \in FeedOrder
  BY QModAssumption DEF Unused, Closed, Listed, FeedOrder, Side, Quantity
<1> QED
  BY <1>1, <1>2, <1>3, TickNat DEF FeedOrder

(* Orders with a quantity and orders that were reduced are not unused.     *)
LEMMA UsedApart == \A o : o.qty > 0 \/ ~o.whole => o # Unused
<1>1. Unused.qty = 0 /\ Unused.whole = TRUE
  BY DEF Unused, Listed
<1> QED
  BY <1>1

(* A new order.                                                            *)
LEMMA AddDelivered ==
    ASSUME P!BookInv, FollowInv, Add
    PROVE  \E m, f, lost : Delivered(m, f, lost)
<1>1. PICK r \in Refs, s \in Traded, side \in Side, raw \in RawPrices,
           qty \in Quantities, intact \in BOOLEAN :
        LET o == Listed(s, side, raw, qty, TRUE)
            type == IF format = "Lobster" THEN 1 ELSE "A"
        IN  /\ feed[r] = Unused /\ NotCrossing(o)
            /\ Deliver(Message(type, r, NullId, o, qty, intact),
                       [feed EXCEPT ![r] = o], {})
  BY DEF Add
<1> DEFINE o == Listed(s, side, raw, qty, TRUE)
<1> PICK m, f : /\ m = Message(IF format = "Lobster" THEN 1 ELSE "A", r, NullId, o,
                               qty, intact)
                /\ f = [feed EXCEPT ![r] = o]
  OBVIOUS
<1>2. /\ feed[r] = Unused /\ NotCrossing(o) /\ pc = "idle" /\ replay(Parse(m))
      /\ feed' = f /\ UNCHANGED <<format, filter, ended>>
      /\ astray' = astray \cup (IF m.intact THEN {} ELSE {m.ref, m.new} \cap Refs)
  BY <1>1 DEF Deliver
<1>3. /\ m.ref = r /\ m.new = NullId /\ m.intact = intact /\ m.side = side
      /\ m.raw = raw /\ m.qty = qty
      /\ m.type = IF format = "Lobster" THEN 1 ELSE "A"
      /\ o.sym = s /\ o.side = side /\ o.raw = raw /\ o.qty = qty /\ o.whole = TRUE
  BY DEF Message, Listed
<1>4. /\ TypeOK /\ Faithful /\ Uncrossed /\ Settled /\ r \in Ids /\ r # Hidden
      /\ NullId \notin Refs /\ raw \in Nat /\ Tick(raw) \in Nat /\ qty \in Quantity
      /\ qty \in Nat /\ qty > 0
  BY ReplayAssumption, TickNat DEF FollowInv, Refs, Quantity
<1>5. o \in FeedOrder /\ f \in [Refs -> FeedOrder] /\ f[r] = o
  <2>1. o \in FeedOrder
    BY <1>4 DEF Listed, FeedOrder, Traded
  <2> QED
    BY <1>4, <2>1, FeedTypes
<1> HIDE DEF o
<1>6. Uncrossed'
  <2>1. \A t \in Open' : feed'[t] = o \/ (t \in Open /\ feed'[t] = feed[t])
    BY <1>2, <1>4, FeedTypes DEF Open
  <2>2. \A t \in Open : feed[t].raw \in Nat
    BY <1>4, FeedTypes DEF Open
  <2> QED
    BY <1>2, <1>3, <1>4, <2>1, <2>2, AddedUncrossed
<1>7. Touches(r) /\ (intact /\ r \notin astray => Fresh(r)')
  <2>0. ASSUME intact
        PROVE  Parse(m) = IF filter = AnySymbol
                            THEN MarketEvent("Add", m, m.side, Tick(m.raw)) ELSE NoEvent
    <3>1. /\ m.intact /\ m.ref \in Ids /\ TypeOK
          /\ m.type = IF format = "Lobster" THEN 1 ELSE "A"
      BY <1>3, <1>4, <2>0
    <3> QED
      BY <3>1, AddEvent, Zenon
  <2>1. CASE UNCHANGED book /\ (intact => ~Followed(r)')
    <3>1. Touches(r) /\ P!OrdersKept(Ids) /\ pc' = "idle"
      BY <1>2, <1>4, <2>1, NoCallTouches
    <3>2. ASSUME intact, r \notin astray PROVE Fresh(r)'
      <4>1. id_index[r] = Null
        <5>1. ~Expected(r) /\ ~InCall(r)
          BY <1>2 DEF Expected, Open, Unused, Listed, InCall
        <5> QED
          BY <1>4, <3>2, <5>1 DEF Faithful, Mirrored
      <4>2. id_index'[r] = Null
        BY <1>4, <3>1, <4>1 DEF P!OrdersKept, P!OrderKept
      <4> QED
        BY <2>1, <3>1, <3>2, <4>2, FreshWithout
    <3> QED
      BY <3>1, <3>2
  <2>2. CASE ~intact
    BY <1>2, <1>3, <2>1, <2>2, GarbledEvent, Skipped
  <2>3. CASE intact /\ filter # AnySymbol
    <3>1. Parse(m) = NoEvent
      BY <2>0, <2>3
    <3>2. Parse(m).action = "none"
      BY <3>1 DEF NoEvent
    <3>3. ~Followed(r)'
      BY <1>2, <2>3 DEF Followed
    <3> QED
      BY <1>2, <2>1, <3>2, <3>3, Skipped
  <2>4. CASE intact /\ filter = AnySymbol
    <3>1. Parse(m) = MarketEvent("Add", m, m.side, Tick(m.raw))
      BY <2>0, <2>4
    <3>2. /\ Parse(m).action = "Add" /\ Parse(m).price = Tick(raw)
          /\ Parse(m).order_id = r /\ Parse(m).side = side
          /\ Parse(m).quantity = qty
      BY <1>3, <3>1 DEF MarketEvent
    <3>3. CASE ~InRange(Tick(raw))
      <4>1. ~Followed(r)'
        BY <1>2, <1>3, <1>5, <3>3 DEF Followed, Expected, InRange, Tick
      <4> QED
        BY <1>2, <2>1, <3>2, <3>3, <4>1, Skipped
    <3>4. CASE InRange(Tick(raw))
      <4>1. B!submit(r, side, "Limit", Tick(raw), qty, 0)
        BY <1>2, <3>2, <3>4 DEF replay, Cancelling
      <4>2. Tick(raw) \in Ticks
        BY <1>4, <3>4, TickRangeAssumption DEF InRange, Ticks
      <4>3. /\ Touches(r) /\ pc' = "sweep" /\ id_index'[r] = Null
            /\ call'.type = "Limit" /\ call'.owner = 0 /\ call'.side = side
            /\ call'.price = Tick(raw) /\ call'.remaining = qty /\ call'.id = r
        BY <1>4, <4>1, <4>2, AddTouches
      <4>4. feed'[r] = o /\ filter' = AnySymbol
        BY <1>2, <1>5, <2>4
      <4>5. Expected(r)'
        BY <1>3, <1>4, <3>4, <4>4 DEF Expected, Open, InRange, Tick
      <4>6. InCall(r)' /\ InFlight(r)'
        BY <1>3, <4>3, <4>4, <4>5 DEF InCall, InFlight, Tick
      <4> QED
        BY <4>3, <4>6 DEF Fresh
    <3> QED
      BY <3>3, <3>4
  <2> QED
    BY <2>2, <2>3, <2>4
<1>8. /\ \A t \in Refs \ {m.ref, m.new} : f[t] = feed[t]
      /\ \A t \in Refs : f[t] = Unused => t \notin {m.ref, m.new}
  <2>1. o # Unused
    BY <1>3, <1>4, UsedApart
  <2> QED
    BY <1>3, <1>4, <1>5, <2>1, FeedTypes
<1>9. ended' \in BOOLEAN
  BY <1>2, <1>4 DEF TypeOK
<1>10. Delivered(m, f, {})
  BY <1>2, <1>3, <1>4, <1>5, <1>6, <1>7, <1>8, <1>9 DEF Delivered
<1> QED
  BY <1>10

(* What is left of an order of which quantity is taken.                    *)
LEMMA LessIs ==
    ASSUME TypeOK, NEW r \in Open, NEW qty \in 1 .. feed[r].qty
    PROVE  LET o == Less(r, qty)
           IN  /\ o \in FeedOrder /\ ~o.whole
               /\ o.qty > 0 => /\ o.sym = feed[r].sym /\ o.side = feed[r].side
                               /\ o.raw = feed[r].raw
<1>1. r \in Refs /\ feed[r] \in FeedOrder /\ feed[r].qty \in Quantity
  BY FeedTypes DEF Open
<1>2. feed[r].qty - qty \in Quantity
  BY <1>1 DEF Quantity
<1>3. CASE feed[r].qty = qty
  <2>1. Less(r, qty) = Closed
    BY <1>3 DEF Less
  <2>2. ~Closed.whole /\ Closed.qty = 0
    BY DEF Closed, Listed
  <2> QED
    BY <2>1, <2>2, FeedTypes
<1>4. CASE feed[r].qty # qty
  <2> DEFINE o == [feed[r] EXCEPT !.qty = @ - qty, !.whole = FALSE]
  <2>1. Less(r, qty) = o
    BY <1>4 DEF Less
  <2>2. /\ o \in FeedOrder /\ o.whole = FALSE
        /\ o.sym = feed[r].sym /\ o.side = feed[r].side /\ o.raw = feed[r].raw
    BY <1>1, <1>2 DEF FeedOrder
  <2> QED
    BY <2>1, <2>2
<1> QED
  BY <1>3, <1>4

(* A message that takes an order out, in part or in full: the replay has   *)
(* no order of that reference any more, unless it skipped the event.       *)
LEMMA TakesOut ==
    ASSUME P!BookInv, FollowInv, NEW r \in Open, NEW m, NEW f, NEW lost \in SUBSET Refs,
           Deliver(m, f, lost), m.ref = r, m.new = NullId, m.side \in Side, m.raw \in Nat,
           format = "Lobster" => m.type \in {2, 3, 4, 5},
           format = "Itch" => m.type \in {"E", "C", "X", "D"},
           NEW o \in FeedOrder, f = [feed EXCEPT ![r] = o], ~o.whole,
           o.qty > 0 => /\ o.sym = feed[r].sym /\ o.side = feed[r].side
                        /\ o.raw = feed[r].raw,
           r \in lost \/ InRange(PriceOf(m)) \/ ~InRange(Tick(feed[r].raw))
    PROVE  Delivered(m, f, lost)
<1>1. /\ pc = "idle" /\ replay(Parse(m))
      /\ feed' = f /\ UNCHANGED <<format, filter, ended>>
      /\ astray' = astray \cup (IF m.intact THEN lost ELSE {m.ref, m.new} \cap Refs)
  BY DEF Deliver
<1>2. /\ TypeOK /\ Faithful /\ Uncrossed /\ Settled /\ r \in Ids /\ r # Hidden
      /\ NullId \notin Refs /\ r \in Refs
  BY DEF FollowInv, Refs, Open
<1>3. /\ f \in [Refs -> FeedOrder] /\ f[r] = o
      /\ \A s \in Refs \ {r} : f[s] = feed[s]
      /\ o # Unused
  BY <1>2, FeedTypes, UsedApart
<1>4. ~Followed(r)'
  BY <1>1, <1>3 DEF Followed
<1>5. Uncrossed'
  <2>1. ASSUME NEW s \in Open'
        PROVE  /\ s \in Open /\ feed'[s].sym = feed[s].sym
               /\ feed'[s].side = feed[s].side /\ feed'[s].raw = feed[s].raw
    BY <1>1, <1>3, <2>1 DEF Open
  <2> QED
    BY <1>2, <2>1, FewerUncrossed
<1>6. Touches(r) /\ (m.intact /\ r \notin astray \cup lost => Fresh(r)')
  <2>1. CASE UNCHANGED book /\ (m.intact => r \in lost \/ ~Expected(r))
    <3>1. Touches(r) /\ P!OrdersKept(Ids) /\ pc' = "idle"
      BY <1>1, <1>2, <2>1, NoCallTouches
    <3>2. ASSUME m.intact, r \notin astray \cup lost PROVE Fresh(r)'
      <4>1. ~Expected(r) /\ ~InCall(r)
        BY <1>1, <2>1, <3>2 DEF InCall
      <4>2. id_index[r] = Null
        BY <1>2, <3>2, <4>1 DEF Faithful, Mirrored
      <4>3. id_index'[r] = Null
        BY <1>2, <3>1, <4>2 DEF P!OrdersKept, P!OrderKept
      <4> QED
        BY <1>2, <1>4, <3>1, <4>3, FreshWithout
    <3> QED
      BY <3>1, <3>2
  <2>2. CASE ~m.intact
    BY <1>1, <2>1, <2>2, GarbledEvent, Skipped
  <2>3. CASE m.intact
    <3>1. PICK action \in Cancelling, side \in Side :
            Parse(m) = MarketEvent(action, m, side, PriceOf(m))
      BY <1>2, <2>3, CancelEvent
    <3>2. /\ Parse(m).action = action /\ Parse(m).price = PriceOf(m)
          /\ Parse(m).order_id = r
      BY <3>1 DEF MarketEvent
    <3>3. CASE ~InRange(PriceOf(m))
      <4>1. r \in lost \/ ~Expected(r)
        BY <3>3 DEF Expected
      <4> QED
        BY <1>1, <2>1, <3>2, <3>3, <4>1, Skipped
    <3>4. CASE InRange(PriceOf(m))
      <4>1. B!cancel(r)
        BY <1>1, <3>1, <3>2, <3>4 DEF replay, Cancelling
      <4>2. Touches(r) /\ id_index'[r] = Null /\ pc' = "done"
        BY <1>2, <4>1, CancelTouches
      <4> QED
        BY <1>2, <1>4, <4>2, FreshWithout
    <3> QED
      BY <3>3, <3>4
  <2> QED
    BY <2>2, <2>3
<1>7. ended' \in BOOLEAN
  BY <1>1, <1>2 DEF TypeOK
<1> QED
  BY <1>1, <1>2, <1>3, <1>5, <1>6, <1>7 DEF Delivered

(* A message with the price of its order, or none, is in range if the      *)
(* order is.                                                               *)
LEMMA PriceFound ==
    ASSUME TypeOK, NEW r \in Open, NEW m, m.raw = feed[r].raw,
           format = "Itch" => m.type # "C"
    PROVE  InRange(PriceOf(m)) \/ ~InRange(Tick(feed[r].raw))
BY TickRangeAssumption DEF TypeOK, PriceOf, InRange

(* A partial cancel.                                                       *)
LEMMA ReduceDelivered ==
    ASSUME P!BookInv, FollowInv, Reduce
    PROVE  \E m, f, lost : Delivered(m, f, lost)
<1>1. PICK r \in Open, intact \in BOOLEAN : \E qty \in 1 .. (feed[r].qty - 1) :
        Deliver(Message(IF format = "Lobster" THEN 2 ELSE "X", r, NullId, feed[r], qty,
                        intact),
                [feed EXCEPT ![r] = Less(r, qty)], {})
  BY DEF Reduce
<1>2. /\ TypeOK /\ r \in Refs /\ feed[r].qty \in Nat
      /\ feed[r].side \in Side /\ feed[r].raw \in Nat
  BY FeedTypes DEF FollowInv, Open, Quantity
<1> PICK qty \in 1 .. feed[r].qty :
        Deliver(Message(IF format = "Lobster" THEN 2 ELSE "X", r, NullId, feed[r], qty,
                        intact),
                [feed EXCEPT ![r] = Less(r, qty)], {})
  BY <1>1, <1>2
<1>3. PICK m, f, o :
        /\ m = Message(IF format = "Lobster" THEN 2 ELSE "X", r, NullId, feed[r], qty,
                       intact)
        /\ o = Less(r, qty) /\ f = [feed EXCEPT ![r] = o] /\ Deliver(m, f, {})
  BY <1>1, <1>2
<1>4. /\ m.ref = r /\ m.new = NullId /\ m.side = feed[r].side /\ m.raw = feed[r].raw
      /\ m.type = IF format = "Lobster" THEN 2 ELSE "X"
  BY <1>3 DEF Message
<1>5. /\ o \in FeedOrder /\ ~o.whole
      /\ o.qty > 0 => /\ o.sym = feed[r].sym /\ o.side = feed[r].side
                      /\ o.raw = feed[r].raw
  BY <1>2, <1>3, LessIs
<1>6. /\ format = "Lobster" => m.type \in {2, 3, 4, 5}
      /\ format = "Itch" => m.type \in {"E", "C", "X", "D"} /\ m.type # "C"
  BY <1>4
<1>7. InRange(PriceOf(m)) \/ ~InRange(Tick(feed[r].raw))
  BY <1>2, <1>4, <1>6, PriceFound
<1>8. Delivered(m, f, {})
  BY <1>2, <1>3, <1>4, <1>5, <1>6, <1>7, TakesOut
<1> QED
  BY <1>8

(* A full cancel.                                                          *)
LEMMA DeleteDelivered ==
    ASSUME P!BookInv, FollowInv, Delete
    PROVE  \E m, f, lost : Delivered(m, f, lost)
<1>1. PICK r \in Open, intact \in BOOLEAN :
        Deliver(Message(IF format = "Lobster" THEN 3 ELSE "D", r, NullId, feed[r],
                        IF format = "Lobster" THEN feed[r].qty ELSE 0, intact),
                [feed EXCEPT ![r] = Closed], {})
  BY DEF Delete
<1>2. /\ TypeOK /\ r \in Refs /\ feed[r].side \in Side /\ feed[r].raw \in Nat
  BY FeedTypes DEF FollowInv, Open
<1>3. PICK m, f, o :
        /\ m = Message(IF format = "Lobster" THEN 3 ELSE "D", r, NullId, feed[r],
                       IF format = "Lobster" THEN feed[r].qty ELSE 0, intact)
        /\ o = Closed /\ f = [feed EXCEPT ![r] = o] /\ Deliver(m, f, {})
  BY <1>1
<1>4. /\ m.ref = r /\ m.new = NullId /\ m.side = feed[r].side /\ m.raw = feed[r].raw
      /\ m.type = IF format = "Lobster" THEN 3 ELSE "D"
  BY <1>3 DEF Message
<1>5. o \in FeedOrder /\ ~o.whole /\ ~(o.qty > 0)
  BY <1>2, <1>3, FeedTypes DEF Closed, Listed
<1>6. /\ format = "Lobster" => m.type \in {2, 3, 4, 5}
      /\ format = "Itch" => m.type \in {"E", "C", "X", "D"} /\ m.type # "C"
  BY <1>4
<1>7. InRange(PriceOf(m)) \/ ~InRange(Tick(feed[r].raw))
  BY <1>2, <1>4, <1>6, PriceFound
<1>8. Delivered(m, f, {})
  BY <1>2, <1>3, <1>4, <1>5, <1>6, <1>7, TakesOut
<1> QED
  BY <1>8

(* An execution, in part or in full.                                       *)
LEMMA ExecuteDelivered ==
    ASSUME P!BookInv, FollowInv, Execute
    PROVE  \E m, f, lost : Delivered(m, f, lost)
<1>1. PICK r \in Open, intact \in BOOLEAN : \E qty \in 1 .. feed[r].qty :
        Deliver(Message(IF format = "Lobster" THEN 4 ELSE "E", r, NullId, feed[r], qty,
                        intact),
                [feed EXCEPT ![r] = Less(r, qty)], {})
  BY DEF Execute
<1>2. /\ TypeOK /\ r \in Refs /\ feed[r].side \in Side /\ feed[r].raw \in Nat
  BY FeedTypes DEF FollowInv, Open
<1> PICK qty \in 1 .. feed[r].qty :
        Deliver(Message(IF format = "Lobster" THEN 4 ELSE "E", r, NullId, feed[r], qty,
                        intact),
                [feed EXCEPT ![r] = Less(r, qty)], {})
  BY <1>1
<1>3. PICK m, f, o :
        /\ m = Message(IF format = "Lobster" THEN 4 ELSE "E", r, NullId, feed[r], qty,
                       intact)
        /\ o = Less(r, qty) /\ f = [feed EXCEPT ![r] = o] /\ Deliver(m, f, {})
  BY <1>1
<1>4. /\ m.ref = r /\ m.new = NullId /\ m.side = feed[r].side /\ m.raw = feed[r].raw
      /\ m.type = IF format = "Lobster" THEN 4 ELSE "E"
  BY <1>3 DEF Message
<1>5. /\ o \in FeedOrder /\ ~o.whole
      /\ o.qty > 0 => /\ o.sym = feed[r].sym /\ o.side = feed[r].side
                      /\ o.raw = feed[r].raw
  BY <1>2, <1>3, LessIs
<1>6. /\ format = "Lobster" => m.type \in {2, 3, 4, 5}
      /\ format = "Itch" => m.type \in {"E", "C", "X", "D"} /\ m.type # "C"
  BY <1>4
<1>7. InRange(PriceOf(m)) \/ ~InRange(Tick(feed[r].raw))
  BY <1>2, <1>4, <1>6, PriceFound
<1>8. Delivered(m, f, {})
  BY <1>2, <1>3, <1>4, <1>5, <1>6, <1>7, TakesOut
<1> QED
  BY <1>8

(* An execution at another price: astray, if that price is out of range.   *)
LEMMA ExecuteWithPriceDelivered ==
    ASSUME P!BookInv, FollowInv, ExecuteWithPrice
    PROVE  \E m, f, lost : Delivered(m, f, lost)
<1>1. PICK r \in Open, raw \in RawPrices : \E qty \in 1 .. feed[r].qty :
        /\ format = "Itch"
        /\ Deliver(Message("C", r, NullId, [feed[r] EXCEPT !.raw = raw], qty, TRUE),
                   [feed EXCEPT ![r] = Less(r, qty)],
                   IF InRange(Tick(raw)) THEN {} ELSE {r})
  BY DEF ExecuteWithPrice
<1>2. /\ TypeOK /\ r \in Refs /\ feed[r] \in FeedOrder /\ feed[r].side \in Side
      /\ raw \in Nat /\ format = "Itch"
  BY <1>1, FeedTypes, ReplayAssumption DEF FollowInv, Open
<1> PICK qty \in 1 .. feed[r].qty :
        Deliver(Message("C", r, NullId, [feed[r] EXCEPT !.raw = raw], qty, TRUE),
                [feed EXCEPT ![r] = Less(r, qty)],
                IF InRange(Tick(raw)) THEN {} ELSE {r})
  BY <1>1
<1>3. PICK m, f, o, lost :
        /\ m = Message("C", r, NullId, [feed[r] EXCEPT !.raw = raw], qty, TRUE)
        /\ o = Less(r, qty) /\ f = [feed EXCEPT ![r] = o]
        /\ lost = IF InRange(Tick(raw)) THEN {} ELSE {r}
        /\ Deliver(m, f, lost)
  BY <1>1
<1>4. /\ m.ref = r /\ m.new = NullId /\ m.side = feed[r].side /\ m.raw = raw
      /\ m.type = "C"
  BY <1>2, <1>3 DEF Message, FeedOrder
<1>5. /\ o \in FeedOrder /\ ~o.whole
      /\ o.qty > 0 => /\ o.sym = feed[r].sym /\ o.side = feed[r].side
                      /\ o.raw = feed[r].raw
  BY <1>2, <1>3, LessIs
<1>6. /\ format = "Lobster" => m.type \in {2, 3, 4, 5}
      /\ format = "Itch" => m.type \in {"E", "C", "X", "D"}
  BY <1>2, <1>4
<1>7. lost \in SUBSET Refs /\ (r \in lost \/ InRange(PriceOf(m)))
  BY <1>2, <1>3, <1>4 DEF PriceOf
<1>8. Delivered(m, f, lost)
  BY <1>2, <1>3, <1>4, <1>5, <1>6, <1>7, TakesOut
<1> QED
  BY <1>8

(* A replace: both references are astray from then on.                     *)
LEMMA ReplaceDelivered ==
    ASSUME P!BookInv, FollowInv, Replace
    PROVE  \E m, f, lost : Delivered(m, f, lost)
<1>1. PICK r \in Open, n \in Refs, raw \in RawPrices, qty \in Quantities :
        LET o == [feed[r] EXCEPT !.raw = raw, !.qty = qty, !.whole = TRUE]
        IN  /\ format = "Itch" /\ feed[n] = Unused /\ NotCrossing(o)
            /\ Deliver(Message("U", r, n, o, qty, TRUE),
                       [feed EXCEPT ![r] = Closed, ![n] = o], {r, n})
  BY DEF Replace
<1>2. /\ TypeOK /\ Uncrossed /\ Settled /\ r \in Refs /\ r \in Ids /\ r # Hidden
      /\ feed[r] \in FeedOrder /\ format = "Itch" /\ raw \in Nat /\ qty \in Quantity
  BY <1>1, FeedTypes, ReplayAssumption, QuantitiesAssumption
     DEF FollowInv, Open, Refs, Quantity
<1>3. PICK m, f, o :
        /\ o = [feed[r] EXCEPT !.raw = raw, !.qty = qty, !.whole = TRUE]
        /\ m = Message("U", r, n, o, qty, TRUE)
        /\ f = [feed EXCEPT ![r] = Closed, ![n] = o]
        /\ NotCrossing(o) /\ Deliver(m, f, {r, n})
  BY <1>1
<1>4. o \in FeedOrder /\ o.raw = raw
  BY <1>2, <1>3 DEF FeedOrder
<1>5. /\ m.ref = r /\ m.new = n /\ m.raw = raw /\ m.type = "U" /\ m.intact = TRUE
      /\ m.qty = qty
  BY <1>3, <1>4 DEF Message
<1>6. /\ pc = "idle" /\ replay(Parse(m)) /\ feed' = f
      /\ astray' = astray \cup {r, n} /\ UNCHANGED <<format, filter, ended>>
  BY <1>3, <1>5 DEF Deliver
<1>7. /\ f \in [Refs -> FeedOrder] /\ f[n] = o /\ (n # r => f[r] = Closed)
      /\ \A s \in Refs \ {r, n} : f[s] = feed[s]
      /\ o # Unused /\ Closed # Unused
  <2>1. o.qty > 0
    BY <1>2, <1>3, ReplayAssumption DEF FeedOrder, Quantity
  <2>2. ~Closed.whole
    BY DEF Closed, Listed
  <2> QED
    BY <1>2, <1>3, <1>4, <2>1, <2>2, FeedTypes, UsedApart
<1>8. Uncrossed'
  <2>1. Closed.qty = 0
    BY DEF Closed, Listed
  <2>2. \A s \in Open' : feed'[s] = o \/ (s \in Open /\ feed'[s] = feed[s])
    BY <1>6, <1>7, <2>1 DEF Open
  <2>3. \A s \in Open : feed[s].raw \in Nat
    BY <1>2, FeedTypes DEF Open
  <2> QED
    BY <1>2, <1>3, <1>4, <2>2, <2>3, AddedUncrossed
<1>9. Touches(r)
  <2>1. Parse(m) = MarketEvent("Modify", m, "Buy", Tick(m.raw))
    BY <1>2, <1>5, ReplaceEvent
  <2>2. /\ Parse(m).action = "Modify" /\ Parse(m).price = Tick(raw)
        /\ Parse(m).order_id = r /\ Parse(m).quantity = qty
    BY <1>5, <2>1 DEF MarketEvent
  <2>3. CASE ~InRange(Tick(raw))
    BY <1>2, <1>6, <2>2, <2>3, Skipped, NoCallTouches
  <2>4. CASE InRange(Tick(raw))
    <3>1. B!modify(r, Tick(raw), qty)
      BY <1>6, <2>2, <2>4 DEF replay, Cancelling
    <3>2. Tick(raw) \in Ticks
      BY <1>2, <2>4, TickNat, TickRangeAssumption DEF InRange, Ticks
    <3> QED
      BY <1>2, <3>1, <3>2, ModifyTouches
  <2> QED
    BY <2>3, <2>4
<1>10. ended' \in BOOLEAN
  BY <1>2, <1>6 DEF TypeOK
<1>11. Delivered(m, f, {r, n})
  BY <1>2, <1>5, <1>6, <1>7, <1>8, <1>9, <1>10 DEF Delivered
<1> QED
  BY <1>11

(* An execution of an order nobody saw: there is none to take out.         *)
LEMMA ExecuteHiddenDelivered ==
    ASSUME P!BookInv, FollowInv, ExecuteHidden
    PROVE  \E m, f, lost : Delivered(m, f, lost)
<1>1. PICK s \in Traded, raw \in RawPrices, qty \in Quantities :
        /\ format = "Lobster"
        /\ Deliver(Message(5, Hidden, NullId, Listed(s, "Buy", raw, qty, TRUE), qty, TRUE),
                   feed, {})
  BY DEF ExecuteHidden
<1>2. PICK m, f :
        /\ m = Message(5, Hidden, NullId, Listed(s, "Buy", raw, qty, TRUE), qty, TRUE)
        /\ f = feed /\ Deliver(m, f, {})
  BY <1>1
<1>3. /\ TypeOK /\ Uncrossed /\ Settled /\ Hidden \in Ids /\ Hidden \notin Refs
      /\ NullId \notin Refs /\ f \in [Refs -> FeedOrder] /\ format = "Lobster"
  BY <1>1, <1>2, FeedTypes, ReplayAssumption DEF FollowInv, Refs
<1>4. /\ m.ref = Hidden /\ m.new = NullId /\ m.intact = TRUE /\ m.side = "Buy"
      /\ m.type = 5
  BY <1>2 DEF Message, Listed
<1>5. /\ pc = "idle" /\ replay(Parse(m)) /\ feed' = f /\ astray' = astray
      /\ UNCHANGED <<format, filter, ended>>
  BY <1>2, <1>4 DEF Deliver
<1>6. Uncrossed'
  <2>1. Open' = Open
    BY <1>2, <1>5 DEF Open
  <2> QED
    BY <1>2, <1>3, <1>5, <2>1 DEF Uncrossed
<1>7. Touches(Hidden) /\ id_index'[Hidden] = Null /\ pc' # "sweep"
  <2>1. PICK action \in Cancelling, side \in Side :
          Parse(m) = MarketEvent(action, m, side, PriceOf(m))
    BY <1>3, <1>4, CancelEvent DEF Side
  <2>2. /\ Parse(m).action = action /\ Parse(m).price = PriceOf(m)
        /\ Parse(m).order_id = Hidden
    BY <1>4, <2>1 DEF MarketEvent
  <2>3. CASE ~InRange(PriceOf(m))
    <3>1. UNCHANGED book /\ Touches(Hidden) /\ pc' = "idle"
      BY <1>3, <1>5, <2>2, <2>3, Skipped, NoCallTouches
    <3> QED
      BY <1>3, <3>1 DEF book, Settled
  <2>4. CASE InRange(PriceOf(m))
    <3>1. B!cancel(Hidden)
      BY <1>5, <2>1, <2>2, <2>4 DEF replay, Cancelling
    <3> QED
      BY <1>3, <3>1, CancelTouches
  <2> QED
    BY <2>3, <2>4
<1>8. ended' \in BOOLEAN
  BY <1>3, <1>5 DEF TypeOK
<1>9. Delivered(m, f, {})
  BY <1>2, <1>3, <1>4, <1>5, <1>6, <1>7, <1>8 DEF Delivered
<1> QED
  BY <1>9

(* Every message.                                                          *)
LEMMA MessageDelivered ==
    ASSUME P!BookInv, FollowInv,
           \/ Add \/ Reduce \/ Delete \/ Execute \/ ExecuteWithPrice \/ Replace
           \/ ExecuteHidden
    PROVE  \E m, f, lost : Delivered(m, f, lost)
BY AddDelivered, ReduceDelivered, DeleteDelivered, ExecuteDelivered,
   ExecuteWithPriceDelivered, ReplaceDelivered, ExecuteHiddenDelivered

(* The types of Replay, given those of the book.                           *)
LEMMA NextTypes ==
    ASSUME TypeOK, P!BookInv', feed' \in [Refs -> FeedOrder], astray' \in SUBSET Refs,
           ended' \in BOOLEAN, UNCHANGED <<format, filter>>
    PROVE  TypeOK'
<1>1. call' \in P!Call /\ (call'.type = "Limit" => call'.price \in P!Ticks)
  BY DEF P!BookInv, P!TypeOK
<1>2. call' \in Call /\ (call'.type = "Limit" => call'.price \in Ticks)
  BY <1>1 DEF P!Call, Call, P!Ticks, Ticks, P!Side, Side, P!OrderType, OrderType,
     P!AnyPrice, AnyPrice, P!NoPrice, NoPrice, P!Quantity, Quantity
<1> QED
  BY <1>2 DEF TypeOK, FeedOrder

(* A message keeps both halves of the invariant.                           *)
LEMMA DeliveredFollows ==
    ASSUME FollowInv, NEW m, NEW f, NEW lost, Delivered(m, f, lost)
    PROVE  P!BookInv' /\ FollowInv' /\ (Complete => Complete')
<1>1. /\ pc = "idle" /\ P!BookInv' /\ P!OrdersKept(Ids \ {m.ref}) /\ trade' = NoTrade
      /\ pc' = "sweep" => call'.id = m.ref
      /\ m.ref = Hidden => id_index'[Hidden] = Null /\ pc' # "sweep"
      /\ f \in [Refs -> FeedOrder] /\ feed' = f
      /\ \A s \in Refs \ {m.ref, m.new} : f[s] = feed[s]
      /\ \A s \in Refs : f[s] = Unused => s \notin {m.ref, m.new}
      /\ m.intact /\ m.ref \in Refs \ (astray \cup lost) => Fresh(m.ref)'
      /\ m.new \in Refs => m.intact /\ m.new \in lost
      /\ lost \subseteq Refs
      /\ astray' = astray \cup (IF m.intact THEN lost ELSE {m.ref, m.new} \cap Refs)
      /\ Uncrossed'
      /\ UNCHANGED <<format, filter>> /\ ended' \in BOOLEAN
  BY DEF Delivered, Touches
<1>2. TypeOK /\ Faithful /\ Settled /\ NewToBook /\ astray \subseteq Refs
  BY DEF FollowInv, TypeOK
<1>3. TypeOK'
  BY <1>1, <1>2, NextTypes
<1>4. ASSUME NEW s \in Refs \ astray'
      PROVE  /\ Agrees(s)'
             /\ Complete => (Followed(s)' /\ ~InCall(s)' => id_index'[s] # Null)
  <2>1. s \in Refs \ astray /\ s \in Ids
    BY <1>1 DEF Refs
  <2>2. CASE s = m.ref
    <3>1. Fresh(m.ref)'
      BY <1>1, <2>1, <2>2
    <3>2. Fresh(s)'
      BY <2>2, <3>1
    <3> QED
      BY <3>2 DEF Fresh, Agrees
  <2>3. CASE s # m.ref
    <3>1. s # m.new /\ feed'[s] = feed[s] /\ P!OrderKept(s)
      BY <1>1, <2>1, <2>3 DEF P!OrdersKept
    <3>2. ~InCall(s) /\ ~InCall(s)'
      BY <1>1, <2>3 DEF InCall
    <3>3. /\ Agrees(s)'
          /\ (Followed(s) => id_index[s] # Null)
               => (Followed(s)' => id_index'[s] # Null)
      BY <1>1, <1>2, <2>1, <3>1, <3>2, OthersFollowed
    <3> QED
      BY <2>1, <3>2, <3>3 DEF Complete
  <2> QED
    BY <2>2, <2>3
<1>5. Faithful' /\ (Complete => Complete')
  BY <1>4 DEF Faithful, Complete, Agrees
<1>6. Settled'
  <2>1. Hidden \in Ids /\ (m.ref # Hidden => P!OrderKept(Hidden))
    BY <1>1, ReplayAssumption DEF P!OrdersKept
  <2> QED
    BY <1>1, <1>2, <2>1 DEF Settled, P!OrderKept
<1>7. NewToBook'
  <2> SUFFICES ASSUME NEW s \in Refs, feed'[s] = Unused
               PROVE  id_index'[s] = Null /\ ~InCall(s)'
    BY DEF NewToBook, Unused
  <2>1. s # m.ref /\ feed[s] = Unused /\ P!OrderKept(s)
    BY <1>1 DEF P!OrdersKept, Refs
  <2> QED
    BY <1>1, <1>2, <2>1 DEF NewToBook, P!OrderKept, InCall
<1> QED
  BY <1>1, <1>3, <1>5, <1>6, <1>7 DEF FollowInv

-----------------------------------------------------------------------------
(* The steps of the book. *)

(* A step of the book: orders that no trade names stay followed.           *)
LEMMA BookFollows ==
    ASSUME FollowInv, P!BookInv', UNCHANGED <<format, filter, feed, ended>>,
           astray' = astray \cup ({trade'.resting_id, trade'.incoming_id} \cap Refs),
           Settled', NEW S,
           \A s \in Refs \ S : s \notin astray' => P!OrderKept(s) /\ ~InCall(s) /\ ~InCall(s)',
           \A s \in Refs \cap S : s \notin astray' => Agrees(s)',
           \A s \in Refs : id_index[s] = Null /\ ~InCall(s) => id_index'[s] = Null,
           pc' = "sweep" => pc = "sweep" /\ call'.id = call.id
    PROVE  /\ FollowInv'
           /\ Complete /\ (\A s \in Refs \cap S : s \notin astray' => id_index'[s] # Null)
                => Complete'
<1>1. TypeOK /\ Faithful /\ Uncrossed /\ feed \in [Refs -> FeedOrder]
      /\ astray' \in SUBSET Refs /\ astray \subseteq astray'
  BY FeedTypes DEF FollowInv, TypeOK
<1>2. TypeOK'
  <2>1. feed' \in [Refs -> FeedOrder] /\ ended' \in BOOLEAN
    BY <1>1 DEF TypeOK
  <2> QED
    BY <1>1, <2>1, NextTypes
<1>3. Uncrossed'
  BY <1>1 DEF Uncrossed, Open
<1>4. ASSUME NEW s \in Refs \ S, s \notin astray'
      PROVE  /\ Agrees(s)'
             /\ Complete => (Followed(s)' => id_index'[s] # Null)
  <2>1. /\ s \in Refs \ astray /\ P!OrderKept(s) /\ feed'[s] = feed[s]
        /\ ~InCall(s) /\ ~InCall(s)'
    BY <1>1, <1>4
  <2> QED
    BY <1>1, <2>1, OthersFollowed DEF Complete
<1>5. Faithful'
  BY <1>4 DEF Faithful, Agrees
<1>6. Complete /\ (\A s \in Refs \cap S : s \notin astray' => id_index'[s] # Null) => Complete'
  BY <1>4 DEF Complete
<1>7. NewToBook'
  BY DEF FollowInv, NewToBook, Unused, InCall
<1> QED
  BY <1>2, <1>3, <1>5, <1>6, <1>7 DEF FollowInv

(* A trade takes both its orders astray.                                   *)
LEMMA MatchFollows ==
    ASSUME P!BookInv, FollowInv, BookStep, B!match
    PROVE  P!BookInv' /\ FollowInv' /\ (Complete => Complete')
<1>1. P!match /\ P!BookInv'
  BY SameMatch, P!MatchInv
<1>2. PICK id \in Ids :
        /\ id_index[id] # Null
        /\ trade'.resting_id = id /\ trade'.incoming_id = call.id
        /\ pc = "sweep" /\ pc' = "sweep" /\ call'.id = call.id
        /\ P!OrdersKept(Ids \ {id})
  BY <1>1, P!MatchKeeps
<1>3. /\ Settled /\ UNCHANGED <<format, filter, feed, ended>>
      /\ astray' = astray \cup ({trade'.resting_id, trade'.incoming_id} \cap Refs)
  BY DEF FollowInv, BookStep
<1>4. Settled'
  <2>1. Hidden \in Ids \ {id}
    BY <1>2, <1>3, ReplayAssumption DEF Settled
  <2> QED
    BY <1>2, <1>3, <2>1 DEF Settled, P!OrdersKept, P!OrderKept
<1>5. ASSUME NEW s \in Refs \ {}, s \notin astray'
      PROVE  P!OrderKept(s) /\ ~InCall(s) /\ ~InCall(s)'
  <2>1. s # id /\ s # call.id /\ s \in Ids
    BY <1>2, <1>3, <1>5 DEF Refs
  <2> QED
    BY <1>2, <2>1 DEF P!OrdersKept, InCall
<1>6. \A s \in Refs : id_index[s] = Null => id_index'[s] = Null
  BY <1>2 DEF P!OrdersKept, P!OrderKept, Refs
<1> QED
  BY <1>1, <1>2, <1>3, <1>4, <1>5, <1>6, BookFollows

(* What a call has left rests as the exchange lists it: an order that is   *)
(* not astray did not trade, so it does not cross, and it is of nobody who *)
(* could stop it.                                                          *)
LEMMA FinishFollows ==
    ASSUME P!BookInv, FollowInv, BookStep, B!finish_submit
    PROVE  P!BookInv' /\ FollowInv' /\ (Complete /\ free # {} => Complete')
<1>1. P!finish_submit /\ P!BookInv'
  BY SameFinish, P!FinishInv
<1>2. /\ P!OrdersKept(Ids \ {call.id}) /\ trade' = NoTrade
      /\ pc = "sweep" /\ pc' = "done"
      /\ LET h == id_index'[call.id]
         IN  IF P!Rests /\ free # {}
               THEN /\ h # Null
                    /\ pool'[h].side = call.side /\ pool'[h].price = call.price
                    /\ pool'[h].remaining = call.remaining
               ELSE h = Null
  BY <1>1, P!FinishKeeps DEF P!NoTrade, NoTrade, P!NoPrice, NoPrice
<1>3. /\ Settled /\ Faithful /\ UNCHANGED <<format, filter, feed, ended>>
      /\ astray' = astray \cup ({trade'.resting_id, trade'.incoming_id} \cap Refs)
  BY DEF FollowInv, BookStep
<1>4. astray' = astray
  BY <1>2, <1>3 DEF NoTrade, Refs
<1>5. Settled'
  <2>1. Hidden \in Ids \ {call.id}
    BY <1>2, <1>3, ReplayAssumption DEF Settled
  <2> QED
    BY <1>2, <1>3, <2>1 DEF Settled, P!OrdersKept, P!OrderKept
<1>6. ASSUME NEW s \in Refs \ {call.id}, s \notin astray'
      PROVE  P!OrderKept(s) /\ ~InCall(s) /\ ~InCall(s)'
  BY <1>2 DEF P!OrdersKept, InCall, Refs
<1>7. ASSUME NEW s \in Refs \cap {call.id}, s \notin astray'
      PROVE  Agrees(s)' /\ (free # {} => id_index'[s] # Null)
  <2>1. InFlight(s) /\ s = call.id
    BY <1>2, <1>3, <1>4, <1>7 DEF Faithful, InCall
  <2>2. P!Rests
    <3>1. call.remaining > 0 /\ call.type = "Limit" /\ call.owner = 0
      BY <2>1 DEF InFlight, Expected, Open
    <3>2. ~P!Matches
      BY <1>1 DEF P!finish_submit
    <3> QED
      BY <3>1, <3>2 DEF P!Matches, P!Rests, P!SelfTrade
  <2>3. CASE free = {}
    BY <1>2, <2>1, <2>3 DEF Agrees, InCall
  <2>4. CASE free # {}
    <3> DEFINE h == id_index'[s]
    <3>1. /\ h # Null /\ pool'[h].side = feed[s].side
          /\ pool'[h].price = Tick(feed[s].raw) /\ pool'[h].remaining = feed[s].qty
      BY <1>2, <2>1, <2>2, <2>4 DEF InFlight
    <3>2. Expected(s)'
      BY <1>3, <2>1 DEF InFlight, Expected, Open
    <3>3. Mirrored(s)'
      BY <1>3, <3>1, <3>2 DEF Mirrored, Tick
    <3> QED
      BY <1>2, <3>1, <3>3 DEF Agrees, InCall
  <2> QED
    BY <2>3, <2>4
<1>8. \A s \in Refs : id_index[s] = Null /\ ~InCall(s) => id_index'[s] = Null
  BY <1>2 DEF P!OrdersKept, P!OrderKept, Refs, InCall
<1> QED
  BY <1>1, <1>2, <1>3, <1>5, <1>6, <1>7, <1>8, BookFollows

(* The return of a call changes no order.                                  *)
LEMMA ReturnFollows ==
    ASSUME P!BookInv, FollowInv, BookStep, B!return
    PROVE  P!BookInv' /\ FollowInv' /\ (Complete => Complete')
<1>1. P!return /\ P!BookInv'
  BY SameReturn, P!ReturnInv
<1>2. /\ pc = "done" /\ pc' = "idle" /\ trade' = NoTrade /\ P!OrdersKept(Ids)
  BY <1>1, P!SameBookKeeps DEF P!return, P!NoTrade, NoTrade, P!NoPrice, NoPrice
<1>3. /\ Settled /\ UNCHANGED <<format, filter, feed, ended>>
      /\ astray' = astray \cup ({trade'.resting_id, trade'.incoming_id} \cap Refs)
  BY DEF FollowInv, BookStep
<1>4. Settled'
  BY <1>2, <1>3, ReplayAssumption DEF Settled, P!OrdersKept, P!OrderKept
<1>5. ASSUME NEW s \in Refs \ {}, s \notin astray'
      PROVE  P!OrderKept(s) /\ ~InCall(s) /\ ~InCall(s)'
  BY <1>2 DEF P!OrdersKept, InCall, Refs
<1>6. \A s \in Refs : id_index[s] = Null => id_index'[s] = Null
  BY <1>2 DEF P!OrdersKept, P!OrderKept, Refs
<1> QED
  BY <1>1, <1>2, <1>3, <1>4, <1>5, <1>6, BookFollows

(* A step that changes neither the orders nor the book.                    *)
LEMMA StutterFollows ==
    ASSUME P!BookInv, FollowInv, UNCHANGED <<book, format, filter, feed, astray>>,
           ended' \in BOOLEAN
    PROVE  P!BookInv' /\ FollowInv' /\ (Complete => Complete')
<1>1. P!BookInv'
  BY P!StutterInv DEF book, P!vars
<1>2. TypeOK /\ feed' \in [Refs -> FeedOrder] /\ astray' \in SUBSET Refs
  BY FeedTypes DEF FollowInv, TypeOK
<1>3. TypeOK'
  BY <1>1, <1>2, NextTypes
<1>4. \A r : /\ Followed(r)' = Followed(r) /\ InCall(r)' = InCall(r)
             /\ InFlight(r)' = InFlight(r) /\ Mirrored(r)' = Mirrored(r)
  BY DEF Followed, Expected, InCall, InFlight, Mirrored, Open, book
<1>5. Faithful' /\ (Complete => Complete')
  BY <1>4 DEF FollowInv, Faithful, Complete, book
<1>6. Uncrossed' /\ Settled' /\ NewToBook'
  BY <1>4 DEF FollowInv, Uncrossed, Open, Settled, NewToBook, Unused, book
<1> QED
  BY <1>1, <1>3, <1>5, <1>6 DEF FollowInv

(* The end of the file.                                                    *)
LEMMA EndFollows ==
    ASSUME P!BookInv, FollowInv, parse_file_ends
    PROVE  P!BookInv' /\ FollowInv' /\ (Complete => Complete')
BY StutterFollows DEF parse_file_ends

(* A step that changes nothing.                                            *)
LEMMA NothingFollows ==
    ASSUME P!BookInv, FollowInv, UNCHANGED vars
    PROVE  P!BookInv' /\ FollowInv' /\ (Complete => Complete')
<1>1. UNCHANGED <<book, format, filter, feed, astray>> /\ ended' = ended
  BY DEF vars, book
<1>2. ended \in BOOLEAN
  BY DEF FollowInv, TypeOK
<1> QED
  BY <1>1, <1>2, StutterFollows

-----------------------------------------------------------------------------
(* Theorems. *)

(* Every step, whatever the pool has room for.                             *)
LEMMA NextFollows ==
    ASSUME P!BookInv, FollowInv, [Next]_vars
    PROVE  /\ P!BookInv' /\ FollowInv'
           /\ Complete /\ (pc = "sweep" => free # {}) => Complete'
<1>1. CASE \/ Add \/ Reduce \/ Delete \/ Execute \/ ExecuteWithPrice \/ Replace
           \/ ExecuteHidden
  BY <1>1, MessageDelivered, DeliveredFollows
<1>2. CASE parse_file_ends
  BY <1>2, EndFollows
<1>3. CASE BookStep
  <2>1. CASE B!match
    BY <1>3, <2>1, MatchFollows
  <2>2. CASE B!finish_submit
    <3>1. pc = "sweep"
      BY <2>2 DEF B!finish_submit
    <3> QED
      BY <1>3, <2>2, <3>1, FinishFollows
  <2>3. CASE B!return
    BY <1>3, <2>3, ReturnFollows
  <2> QED
    BY <1>3, <2>1, <2>2, <2>3 DEF BookStep
<1>4. CASE Finished \/ UNCHANGED vars
  BY <1>4, NothingFollows DEF Finished
<1> QED
  BY <1>1, <1>2, <1>3, <1>4 DEF Next

(* The start of a replay.                                                  *)
LEMMA InitFollows == Init => P!BookInv /\ FollowInv /\ Complete
<1> SUFFICES ASSUME Init PROVE P!BookInv /\ FollowInv /\ Complete
  OBVIOUS
<1>1. P!Init /\ P!BookInv
  BY SameInit, P!InitBookInv DEF Init
<1>2. /\ call = NoCall /\ pc = "idle" /\ trade = NoTrade
      /\ \A i \in Ids : id_index[i] = Null
  BY <1>1 DEF P!Init, P!NoCall, NoCall, P!NoTrade, NoTrade, P!NoPrice, NoPrice
<1>3. /\ \A r \in Refs : feed[r] = Unused
      /\ Unused.qty = 0 /\ Unused \in FeedOrder
  BY QModAssumption DEF Init, Unused, Listed, FeedOrder, Side, Quantity
<1>4. TypeOK
  <2>1. NoCall \in Call /\ NoCall.price \in Ticks
    BY QModAssumption, TickRangeAssumption
       DEF NoCall, Call, Side, OrderType, AnyPrice, NoPrice, Quantity, Ticks
  <2>2. feed \in [Refs -> FeedOrder]
    BY <1>3 DEF Init
  <2> QED
    BY <1>2, <2>1, <2>2 DEF Init, TypeOK, FeedOrder
<1>5. Open = {}
  BY <1>3 DEF Open
<1>6. Faithful /\ Complete /\ Uncrossed /\ Settled /\ NewToBook
  BY <1>2, <1>5, ReplayAssumption
     DEF Faithful, Complete, Followed, Expected, InCall, Uncrossed, Settled, NewToBook, Refs
<1> QED
  BY <1>1, <1>4, <1>6 DEF FollowInv

(* The replay is faithful: the book holds no orders but those open on the  *)
(* exchange and in range, and every one with the quantity it has there,    *)
(* except for the references that went astray.  This takes no pool of any  *)
(* size.                                                                   *)
THEOREM ReplayFaithful == Spec => [](P!BookInv /\ FollowInv)
<1>1. P!BookInv /\ FollowInv /\ [Next]_vars => P!BookInv' /\ FollowInv'
  BY NextFollows
<1> QED
  BY <1>1, InitFollows, PTL DEF Spec

(* Orders in flight and in the book have different references, so a slot   *)
(* for each reference is one for the order in flight.                      *)
LEMMA RoomToRest ==
    ASSUME IsFiniteSet(Refs), Cardinality(Refs) <= Cardinality(Handles),
           P!BookInv, FollowInv, pc = "sweep"
    PROVE  free # {}
<1> DEFINE others == Refs \ {call.id}
<1>1. call.id \in Ids /\ id_index[call.id] = Null /\ call.id # Hidden
      /\ id_index[Hidden] = Null
  BY DEF P!BookInv, P!TypeOK, P!SweepSound, FollowInv, Settled
<1>2. \A i \in Ids \ others : id_index[i] = Null
  BY <1>1 DEF Refs
<1>3. /\ IsFiniteSet(others)
      /\ Cardinality(others) = Cardinality(Refs) - 1
  BY <1>1, FS_RemoveElement DEF Refs
<1>4. Cardinality(Refs) \in Nat /\ Cardinality(Handles) \in Nat
  BY FS_CardinalityType, HandlesAssumption
<1>5. others \in SUBSET Ids
  BY DEF Refs
<1> HIDE DEF others
<1>6. P!IsFiniteSet(others) /\ P!Cardinality(others) < P!Cardinality(Handles)
  BY <1>3, <1>4, SameFinite, SameCardinality
<1> QED
  BY <1>2, <1>5, <1>6, P!RoomForOne

(* The replay is sound, and complete for orders that were never reduced:   *)
(* with a slot for each reference and no symbol filter the book has every  *)
(* one of them that the replay can follow.                                 *)
THEOREM ReplaySound ==
    ASSUME IsFiniteSet(Refs), Cardinality(Refs) <= Cardinality(Handles)
    PROVE  Spec => []ReplayInv
<1>1. P!BookInv /\ FollowInv /\ Complete /\ [Next]_vars => Complete'
  BY NextFollows, RoomToRest
<1>2. FollowInv /\ Complete => ReplayInv
  BY DEF FollowInv, ReplayInv
<1> QED
  BY <1>1, <1>2, InitFollows, ReplayFaithful, PTL DEF Spec

(* What the replay trades it trades for a reason of its own.               *)
LEMMA MatchExplained ==
    ASSUME P!BookInv, FollowInv, B!match
    PROVE  LET r == trade'.resting_id
               i == trade'.incoming_id
           IN  \/ {r, i} \cap astray # {}
               \/ feed[r].sym # feed[i].sym
               \/ feed[r].raw # feed[i].raw /\ Tick(feed[r].raw) = Tick(feed[i].raw)
<1>1. P!match
  BY SameMatch
<1>2. PICK r \in Ids :
        /\ id_index[r] # Null
        /\ LET o == pool[id_index[r]]
           IN  o.side # call.side /\ o.side \in P!Side /\ P!Crosses(call, o.price)
        /\ trade'.resting_id = r /\ trade'.incoming_id = call.id /\ pc = "sweep"
  BY <1>1, P!MatchKeeps
<1>3. PICK i : i = call.id
  OBVIOUS
<1>4. /\ i \in Ids /\ id_index[i] = Null /\ i # Hidden /\ r # Hidden /\ r # i
      /\ Faithful /\ Uncrossed /\ TypeOK
  BY <1>2, <1>3 DEF P!BookInv, P!TypeOK, P!SweepSound, FollowInv, Settled
<1> SUFFICES ASSUME r \notin astray, i \notin astray, feed[r].sym = feed[i].sym
             PROVE  feed[r].raw # feed[i].raw /\ Tick(feed[r].raw) = Tick(feed[i].raw)
  BY <1>2, <1>3
<1>5. Mirrored(r) /\ InFlight(i)
  BY <1>2, <1>3, <1>4 DEF Faithful, InCall, Refs
<1>6. /\ r \in Open /\ i \in Open /\ feed[r].raw \in Nat /\ feed[i].raw \in Nat
      /\ feed[r].side \in Side /\ feed[i].side \in Side /\ feed[r].side # feed[i].side
  BY <1>2, <1>4, <1>5, FeedTypes DEF Mirrored, InFlight, Expected, Open
<1>7. Tick(feed[r].raw) \in Nat /\ Tick(feed[i].raw) \in Nat
  BY <1>6, TickNat
<1>8. IF feed[i].side = "Buy" THEN Tick(feed[r].raw) <= Tick(feed[i].raw)
                              ELSE Tick(feed[r].raw) >= Tick(feed[i].raw)
  BY <1>2, <1>5 DEF Mirrored, InFlight, P!Crosses, P!LimitPrice
<1>9. CASE feed[i].side = "Buy"
  <2>1. feed[i].raw < feed[r].raw
    BY <1>4, <1>6, <1>9 DEF Uncrossed, Side
  <2>2. Tick(feed[i].raw) <= Tick(feed[r].raw)
    BY <1>6, <2>1, TickGrows
  <2> QED
    BY <1>6, <1>7, <1>8, <1>9, <2>1, <2>2
<1>10. CASE feed[i].side = "Sell"
  <2>1. feed[r].raw < feed[i].raw
    BY <1>4, <1>6, <1>10 DEF Uncrossed, Side
  <2>2. Tick(feed[r].raw) <= Tick(feed[i].raw)
    BY <1>6, <2>1, TickGrows
  <2> QED
    BY <1>6, <1>7, <1>8, <1>10, <2>1, <2>2
<1> QED
  BY <1>6, <1>9, <1>10 DEF Side

(* The replay trades only with an order it could not follow, between two   *)
(* symbols in one book, or at prices one tick does not tell apart,         *)
(* whatever the size of the pool.                                          *)
THEOREM TradesHaveReasons == Spec => TradesExplained
<1> DEFINE Reason ==
             trade' # NoTrade =>
               LET r == trade'.resting_id
                   i == trade'.incoming_id
               IN  \/ {r, i} \cap astray # {}
                   \/ feed[r].sym # feed[i].sym
                   \/ feed[r].raw # feed[i].raw /\ Tick(feed[r].raw) = Tick(feed[i].raw)
<1>1. ASSUME P!BookInv, FollowInv, Next PROVE Reason
  <2>1. ASSUME NEW m, NEW f, NEW lost, Delivered(m, f, lost) PROVE trade' = NoTrade
    BY <2>1 DEF Delivered, Touches
  <2>2. CASE \/ Add \/ Reduce \/ Delete \/ Execute \/ ExecuteWithPrice \/ Replace
             \/ ExecuteHidden
    BY <1>1, <2>1, <2>2, MessageDelivered
  <2>3. CASE parse_file_ends \/ Finished
    BY <1>1, <2>3 DEF parse_file_ends, Finished, book, vars, FollowInv, Settled
  <2>4. CASE BookStep
    <3>1. CASE B!match
      BY <1>1, <3>1, MatchExplained
    <3>2. CASE B!finish_submit \/ B!return
      BY <3>2 DEF B!finish_submit, B!return, B!Answer, B!NoTrade, NoTrade,
         B!NoPrice, NoPrice
    <3> QED
      BY <2>4, <3>1, <3>2 DEF BookStep
  <2> QED
    BY <1>1, <2>2, <2>3, <2>4 DEF Next
<1>2. P!BookInv /\ FollowInv /\ [Next]_vars => [Reason]_vars
  <2> SUFFICES ASSUME P!BookInv, FollowInv, Next PROVE Reason
    OBVIOUS
  <2> QED
    BY <1>1
<1> HIDE DEF Reason
<1>3. Spec => [][Reason]_vars
  BY <1>2, ReplayFaithful, PTL DEF Spec
<1> QED
  BY <1>3 DEF TradesExplained, Reason

(* Every step of a replay is a step of the book or leaves it alone: the    *)
(* driver makes only calls that a client may make, one after the other,    *)
(* with new ids, prices in range and quantities that OrderBook expects,    *)
(* whatever the file says.  So all that holds of OrderBook holds of a      *)
(* replayed book.                                                          *)
THEOREM ReplayDrivesBook == Spec => B!Spec
<1>1. Init => B!Init
  BY DEF Init
<1>2. ASSUME P!BookInv, FollowInv, [Next]_vars PROVE [B!Next]_(B!vars)
  <2>1. ASSUME NEW m, NEW f, NEW lost, Delivered(m, f, lost) PROVE [B!Next]_(B!vars)
    BY <2>1 DEF Delivered, Touches
  <2>2. CASE \/ Add \/ Reduce \/ Delete \/ Execute \/ ExecuteWithPrice \/ Replace
             \/ ExecuteHidden
    BY <1>2, <2>1, <2>2, MessageDelivered
  <2>3. CASE parse_file_ends \/ Finished \/ UNCHANGED vars
    BY <2>3 DEF parse_file_ends, Finished, book, vars, B!vars
  <2>4. CASE BookStep
    BY <2>4 DEF BookStep, B!Next
  <2> QED
    BY <1>2, <2>2, <2>3, <2>4 DEF Next
<1> QED
  BY <1>1, <1>2, ReplayFaithful, PTL DEF Spec, B!Spec
=============================================================================
