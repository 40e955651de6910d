------------------------------- MODULE Replay -------------------------------
(***************************************************************************)
(* Replaying recorded market data: the LOBSTER and ITCH parsers of         *)
(* include/lob/parsers.hpp and replay_file of benchmarks/replay_main.cpp,  *)
(* which drives an OrderBook (the instance B) with their events.           *)
(*                                                                         *)
(* The exchange that recorded the file is external; it is here to say      *)
(* which messages a file can hold: orders are added with a new reference,  *)
(* reduced, executed, deleted and (ITCH) replaced, and the orders of one   *)
(* symbol never cross.  The parsers keep no state from one message to the  *)
(* next, so parsing a file and then replaying its events is parsing and    *)
(* replaying one message after the other.  A message has a field for every *)
(* field of the record that is read; its bytes are not modelled.           *)
(***************************************************************************)
EXTENDS LobTypes, FiniteSets

CONSTANTS Handles, Null,      \* the pool of the book
          Hidden,             \* the id a LOBSTER file gives hidden orders
          Symbols, AnySymbol, \* symbol_filter is one of them
          RawPrices,          \* prices of the file
          TickDivisor         \* tick_divisor

Refs == Ids \ {Hidden}

ASSUME HandlesAssumption == Null \notin Handles /\ IsFiniteSet(Handles)
ASSUME ReplayAssumption ==
    /\ Hidden \in Ids
    /\ AnySymbol \notin Symbols
    /\ Ids \cap (Symbols \cup {AnySymbol}) = {} \* no reference spells a symbol
    /\ RawPrices \subseteq Nat
    /\ TickDivisor \in Nat \ {0}
    /\ 0 \notin Quantities
    /\ 0 \in Owners                            \* the owner of every order replayed

VARIABLES levels, pool, free, id_index, best_bid, best_ask, \* as in OrderBook
          pc, call, res, trade,
          format, filter, \* what kind of file, and symbol_filter
          feed,           \* the orders of the exchange
          astray,         \* references whose fate the replay cannot follow
          ended           \* the parser has left its loop

B == INSTANCE OrderBook

book == <<levels, pool, free, id_index, best_bid, best_ask, pc, call, res, trade>>
vars == <<levels, pool, free, id_index, best_bid, best_ask, pc, call, res, trade,
          format, filter, feed, astray, ended>>

(* An order of the exchange; whole until its quantity is first reduced. *)
Listed(sym, side, raw, qty, whole) ==
    [sym |-> sym, side |-> side, raw |-> raw, qty |-> qty, whole |-> whole]

Unused == Listed(AnySymbol, "Buy", 0, 0, TRUE)
Closed == Listed(AnySymbol, "Buy", 0, 0, FALSE)

Open == {r \in Refs : feed[r].qty > 0}

TypeOK ==
    /\ call \in Call /\ (call.type = "Limit" => call.price \in Ticks)
    /\ format \in {"Lobster", "Itch"}
    /\ filter \in Symbols \cup {AnySymbol}
    /\ format = "Lobster" => filter = AnySymbol
    /\ feed \in [Refs -> [sym : Symbols \cup {AnySymbol}, side : Side,
                          raw : RawPrices \cup {0}, qty : Quantity, whole : BOOLEAN]]
    /\ astray \subseteq Refs
    /\ ended \in BOOLEAN

Init ==
    /\ B!Init
    /\ \/ format = "Lobster" /\ filter = AnySymbol
       \/ format = "Itch" /\ filter \in Symbols \cup {AnySymbol}
    /\ feed = [r \in Refs |-> Unused]
    /\ astray = {}
    /\ ended = FALSE

-----------------------------------------------------------------------------
(* Messages and events *)

(* "intact" is FALSE for a line with fewer than six fields, or a body that *)
(* is shorter than its type needs.                                         *)
Message(type, ref, new, o, qty, intact) ==
    [type |-> type, ref |-> ref, new |-> new, sym |-> o.sym, side |-> o.side,
     raw |-> o.raw, qty |-> qty, intact |-> intact]

MarketEvent(action, m, side, price) ==
    [action |-> action, side |-> side, order_id |-> m.ref, price |-> price,
     quantity |-> m.qty, new_order_id |-> m.new]

NoEvent == [action |-> "none", side |-> "Buy", order_id |-> NullId, price |-> 0,
            quantity |-> 0, new_order_id |-> NullId]

Tick(raw) == raw \div TickDivisor

LobsterAction(type) ==
    CASE type = 1        -> "Add"
      [] type \in {2, 3} -> "Cancel"
      [] type \in {4, 5} -> "Execute"

(* LobsterParser::parse_line; type 7, a trading halt, is dropped. *)
parse_line(m) ==
    IF ~m.intact \/ m.type = 7 THEN NoEvent
    ELSE MarketEvent(LobsterAction(m.type), m, m.side, Tick(m.raw))

(* The filter compares the symbol with bytes 11 to 18 of the message, the  *)
(* reference number, and again with bytes 24 to 31, the stock.             *)
Rejects(m) == filter # AnySymbol /\ (m.ref # filter \/ m.sym # filter)

ItchAction(type) ==
    CASE type = "A"          -> "Add"      \* and "F", the same with an MPID
      [] type \in {"E", "C"} -> "Execute"
      [] type \in {"X", "D"} -> "Cancel"
      [] type = "U"          -> "Modify"

(* Messages parse_message makes no event of. *)
DropsPartial(m) == ~m.intact \/ m.type = "X"    \* mutant: partial cancels ignored
                     \/ (m.type = "A" /\ Rejects(m))

Drops(m) == ~m.intact \/ (m.type = "A" /\ Rejects(m))

(* ItchParser::parse_message.  Only an add has a side, and only A, C and U *)
(* have a price: the fields of the other events stay Buy and 0.            *)
parse_message(m) ==
    IF Drops(m) THEN NoEvent
    ELSE MarketEvent(ItchAction(m.type), m,
                     IF m.type = "A" THEN m.side ELSE "Buy",
                     IF m.type \in {"A", "C", "U"} THEN Tick(m.raw) ELSE 0)

Parse(m) == IF format = "Lobster" THEN parse_line(m) ELSE parse_message(m)

-----------------------------------------------------------------------------
(* replay_file *)

InRange(price) == 0 <= price /\ price < TickRange

CancelOnly == {"Cancel"}                        \* mutant: executions ignored

Cancelling == {"Cancel", "Execute"}

(* One round of the loop: an event out of range is skipped, an execution   *)
(* takes the whole order out, a replace keeps the old id.                  *)
replay(e) ==
    \/ /\ e.action = "none" \/ ~InRange(e.price)
                            \/ e.action \notin Cancelling \cup {"Add", "Modify"}
       /\ UNCHANGED book
    \/ /\ e.action = "Add" /\ InRange(e.price)
       /\ B!submit(e.order_id, e.side, "Limit", e.price, e.quantity, 0)
    \/ /\ e.action \in Cancelling /\ InRange(e.price)
       /\ B!cancel(e.order_id)
    \/ /\ e.action = "Modify" /\ InRange(e.price)
       /\ B!modify(e.order_id, e.price, e.quantity)

(* The loop reads message m and the driver replays it, while the exchange  *)
(* changed the orders to f; lost are the references the message leaves in  *)
(* a state of which the replay knows nothing.                              *)
Deliver(m, f, lost) ==
    /\ pc = "idle" /\ ~ended
    /\ replay(Parse(m))
    /\ feed' = f
    /\ astray' = astray \cup (IF m.intact THEN lost ELSE {m.ref, m.new} \cap Refs)
    /\ UNCHANGED <<format, filter, ended>>

(* The loop of parse_file ends at the end of the file, in front of a       *)
(* message that is cut off, at a line that is too long, or, without length *)
(* prefixes, in front of a type whose size is not known.  Types that are   *)
(* known and not parsed, and empty messages, change nothing.               *)
parse_file_ends ==
    /\ pc = "idle" /\ ~ended
    /\ ended' = TRUE
    /\ UNCHANGED <<book, format, filter, feed, astray>>

-----------------------------------------------------------------------------
(* The exchange *)

NotCrossing(o) ==
    \A r \in Open : feed[r].sym = o.sym /\ feed[r].side # o.side =>
                      IF o.side = "Buy" THEN o.raw < feed[r].raw ELSE o.raw > feed[r].raw

(* A LOBSTER file has one symbol and does not name it. *)
Traded == IF format = "Lobster" THEN {AnySymbol} ELSE Symbols

Add == \E r \in Refs, s \in Traded, side \in Side, raw \in RawPrices,
          qty \in Quantities, intact \in BOOLEAN :
    LET o == Listed(s, side, raw, qty, TRUE)
        type == IF format = "Lobster" THEN 1 ELSE "A"
    IN  /\ feed[r] = Unused /\ NotCrossing(o)
        /\ Deliver(Message(type, r, NullId, o, qty, intact), [feed EXCEPT ![r] = o], {})

(* What is left of order r when qty is taken off. *)
Less(r, qty) ==
    IF feed[r].qty = qty THEN Closed
    ELSE [feed[r] EXCEPT !.qty = @ - qty, !.whole = FALSE]

Reduce == \E r \in Open, intact \in BOOLEAN : \E qty \in 1 .. (feed[r].qty - 1) :
    Deliver(Message(IF format = "Lobster" THEN 2 ELSE "X", r, NullId, feed[r], qty, intact),
            [feed EXCEPT ![r] = Less(r, qty)], {})

Delete == \E r \in Open, intact \in BOOLEAN :
    Deliver(Message(IF format = "Lobster" THEN 3 ELSE "D", r, NullId, feed[r],
                    IF format = "Lobster" THEN feed[r].qty ELSE 0, intact),
            [feed EXCEPT ![r] = Closed], {})

Execute == \E r \in Open, intact \in BOOLEAN : \E qty \in 1 .. feed[r].qty :
    Deliver(Message(IF format = "Lobster" THEN 4 ELSE "E", r, NullId, feed[r], qty, intact),
            [feed EXCEPT ![r] = Less(r, qty)], {})

(* An execution at another price than the order's: a price out of range    *)
(* makes the driver skip it.                                               *)
ExecuteWithPrice == \E r \in Open, raw \in RawPrices : \E qty \in 1 .. feed[r].qty :
    /\ format = "Itch"
    /\ Deliver(Message("C", r, NullId, [feed[r] EXCEPT !.raw = raw], qty, TRUE),
               [feed EXCEPT ![r] = Less(r, qty)],
               IF InRange(Tick(raw)) THEN {} ELSE {r})

Replace == \E r \in Open, n \in Refs, raw \in RawPrices, qty \in Quantities :
    LET o == [feed[r] EXCEPT !.raw = raw, !.qty = qty, !.whole = TRUE]
    IN  /\ format = "Itch"
        /\ feed[n] = Unused /\ NotCrossing(o)
        /\ Deliver(Message("U", r, n, o, qty, TRUE),
                   [feed EXCEPT ![r] = Closed, ![n] = o], {r, n})

(* An execution against an order nobody saw. *)
ExecuteHidden == \E s \in Traded, raw \in RawPrices, qty \in Quantities :
    /\ format = "Lobster"
    /\ Deliver(Message(5, Hidden, NullId, Listed(s, "Buy", raw, qty, TRUE), qty, TRUE),
               feed, {})

-----------------------------------------------------------------------------
(* The calls of the book run to their end; a trade takes two orders astray. *)
BookStep ==
    /\ B!match \/ B!finish_submit \/ B!return
    /\ astray' = astray \cup ({trade'.resting_id, trade'.incoming_id} \cap Refs)
    /\ UNCHANGED <<format, filter, feed, ended>>

Finished == ended /\ pc = "idle" /\ UNCHANGED vars

Next == \/ Add \/ Reduce \/ Delete \/ Execute \/ ExecuteWithPrice \/ Replace
        \/ ExecuteHidden \/ parse_file_ends \/ BookStep \/ Finished

Spec == Init /\ [][Next]_vars

-----------------------------------------------------------------------------
(* Properties *)

(* An order that the replayed book may hold: it is open on the exchange,   *)
(* its tick is in range, and it is of the symbol that was asked for.       *)
Expected(r) == /\ r \in Open
               /\ filter \in {AnySymbol, feed[r].sym}
               /\ InRange(Tick(feed[r].raw))

(* One that it has to hold.  Nothing is said here of an order that was     *)
(* reduced, which the replay takes out entirely, or under a symbol filter, *)
(* where it adds no order at all.                                          *)
Followed(r) == Expected(r) /\ feed[r].whole /\ filter = AnySymbol

InCall(r) == pc = "sweep" /\ call.id = r

(* An expected order on its way into the book, before any trade. *)
InFlight(r) ==
    /\ Expected(r)
    /\ call.type = "Limit" /\ call.owner = 0
    /\ call.side = feed[r].side /\ call.price = Tick(feed[r].raw)
    /\ call.remaining = feed[r].qty

Mirrored(r) ==
    LET o == pool[id_index[r]]
    IN  /\ Expected(r)
        /\ o.side = feed[r].side /\ o.price = Tick(feed[r].raw)
        /\ o.remaining = feed[r].qty

(* The replayed book holds no other orders than those open on the          *)
(* exchange, each with its side, its tick and the quantity it has there    *)
(* now, as far as the replay can follow them: not those that were          *)
(* replaced, executed out of range, garbled in the file or traded by the   *)
(* replay.                                                                 *)
Faithful ==
    \A r \in Refs \ astray :
      IF InCall(r) THEN InFlight(r) ELSE id_index[r] # Null => Mirrored(r)

(* And without a filter it holds all that were never reduced, once the     *)
(* call that adds them is through.                                         *)
Complete ==
    \A r \in Refs \ astray : Followed(r) /\ ~InCall(r) => id_index[r] # Null

Uncrossed ==
    \A b, s \in Open :
      feed[b].sym = feed[s].sym /\ feed[b].side = "Buy" /\ feed[s].side = "Sell"
        => feed[b].raw < feed[s].raw

(* Hidden orders never enter the book, and the last trade of a call is     *)
(* forgotten before the next message.                                      *)
Settled ==
    /\ id_index[Hidden] = Null
    /\ pc = "sweep" => call.id # Hidden
    /\ pc = "idle" => trade = NoTrade

(* An order that the exchange has not added yet is not in the book: an add *)
(* never comes with an id in use, which submit does not check.             *)
NewToBook == \A r \in Refs : feed[r] = Unused => id_index[r] = Null /\ ~InCall(r)

(* The replay is sound: every event it passes on is in the range of the    *)
(* book; no order in it is stale, wrong or in the way of an add; and none  *)
(* that was followed throughout is missing, during the calls of the replay *)
(* as well as between them.                                                *)
ReplayInv ==
    TypeOK /\ Faithful /\ Complete /\ Uncrossed /\ Settled /\ NewToBook

(* The recorded orders of a symbol never cross, so the replay trades only  *)
(* for a reason of its own: an order it could not follow, two symbols in   *)
(* one book, or prices that one tick does not tell apart.                  *)
TradesExplained ==
    [][trade' # NoTrade =>
         LET r == trade'.resting_id
             i == trade'.incoming_id
         IN  \/ {r, i} \cap astray # {}
             \/ feed[r].sym # feed[i].sym
             \/ feed[r].raw # feed[i].raw /\ Tick(feed[r].raw) = Tick(feed[i].raw)]_vars
=============================================================================
