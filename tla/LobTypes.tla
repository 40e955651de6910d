------------------------------ MODULE LobTypes ------------------------------
(***************************************************************************)
(* The vocabulary of include/lob/types.hpp, and the calls a client can     *)
(* make on an order book.  OrderBook and its reference RefOrderBook extend *)
(* this module, so that they are driven by the same calls and answer with  *)
(* the same results.                                                       *)
(*                                                                         *)
(* Identifiers are abstract values.  Quantities are unsigned and keep a    *)
(* width: every addition and subtraction on them is taken modulo QMod      *)
(* (2^64 in the code).                                                     *)
(***************************************************************************)
EXTENDS Integers

CONSTANTS
    Ids,        \* order identifiers the clients use
    NullId,     \* kNullOrderId
    TickRange,  \* prices [0, TickRange) are representable
    QMod,       \* 2^width of Quantity
    Quantities, \* quantities the clients submit
    Owners      \* participants the clients submit for; 0 is anonymous

ASSUME NullIdAssumption     == NullId \notin Ids
ASSUME TickRangeAssumption  == TickRange \in Nat \ {0}
ASSUME QModAssumption       == QMod \in Nat \ {0, 1}
ASSUME QuantitiesAssumption == Quantities \subseteq 0 .. (QMod - 1)
ASSUME OwnersAssumption     == Owners \subseteq Nat

Quantity == 0 .. (QMod - 1)
Ticks    == 0 .. (TickRange - 1)
Side     == {"Buy", "Sell"}
OrderType == {"Limit", "Market", "Ioc", "Fok"}

(* A price no level has; best_bid and best_ask when a side is empty. *)
NoPrice == -1

(* Prices a caller may pass.  A Limit order rests, so its price indexes    *)
(* the level array; Ioc and Fok prices are only compared, so one tick      *)
(* outside the range on each side stands for every price out of range; the *)
(* price of a Market order is ignored, callers pass 0.                     *)
CallPrices(type) ==
    CASE type = "Limit"  -> Ticks
      [] type = "Market" -> {0}
      [] OTHER           -> NoPrice .. TickRange

AnyPrice == NoPrice .. TickRange

-----------------------------------------------------------------------------
(* Trade, pushed to the sink by each step of a sweep. *)
Trade == [resting_id : Ids, incoming_id : Ids, price : Ticks,
          quantity : Quantity]

NoTrade == [resting_id |-> NullId, incoming_id |-> NullId, price |-> NoPrice,
            quantity |-> 0]

(* ExecResult; cancel, which returns a bool, answers in "accepted". *)
ExecResult == [id : Ids \cup {NullId}, filled : Quantity, resting : Quantity,
               accepted : BOOLEAN, fully_filled : BOOLEAN]

EmptyResult == [id |-> NullId, filled |-> 0, resting |-> 0,
                accepted |-> FALSE, fully_filled |-> FALSE]

(* The arguments and locals of the call in progress: "remaining" and       *)
(* "filled" are the accumulators of the sweep.                             *)
Call == [op : {"none", "submit", "cancel", "modify"}, id : Ids \cup {NullId},
         side : Side, type : OrderType, price : AnyPrice, qty : Quantity,
         owner : Owners \cup {0}, remaining : Quantity, filled : Quantity]

NoCall == [op |-> "none", id |-> NullId, side |-> "Buy", type |-> "Limit",
           price |-> 0, qty |-> 0, owner |-> 0, remaining |-> 0, filled |-> 0]

SubmitCall(op, id, side, type, price, qty, owner) ==
    [op |-> op, id |-> id, side |-> side, type |-> type, price |-> price,
     qty |-> qty, owner |-> owner, remaining |-> qty, filled |-> 0]

(* The price the sweep is limited to: a Market order takes the worst tick. *)
LimitPrice(c) ==
    IF c.type = "Market" THEN IF c.side = "Buy" THEN TickRange - 1 ELSE 0
                         ELSE c.price

(* Does a resting order at price p cross the incoming call c? *)
Crosses(c, p) == /\ p # NoPrice
                 /\ IF c.side = "Buy" THEN p <= LimitPrice(c)
                                      ELSE p >= LimitPrice(c)

Opposite(side) == IF side = "Buy" THEN "Sell" ELSE "Buy"

(* Is an incoming order of owner a killed by a resting order of owner b? *)
SelfTrade(a, b) == a # 0 /\ a = b

Lesser(a, b) == IF a < b THEN a ELSE b
=============================================================================
