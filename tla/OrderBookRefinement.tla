------------------------ MODULE OrderBookRefinement ------------------------
(***************************************************************************)
(* OrderBook implements RefOrderBook: what tests/fuzz_cross_check.cpp      *)
(* compares on random operations.  The FIFOs of the reference are read off *)
(* the intrusive links, its index off the slots.  It holds when the pool   *)
(* has a slot for every identifier, as the reference has no pool to        *)
(* exhaust, and quantities are positive, as the two books answer a Fok of  *)
(* quantity 0 differently.                                                 *)
(***************************************************************************)
EXTENDS OrderBook

RefOrderAt(h) == [id |-> pool[h].id, side |-> pool[h].side,
                  price |-> pool[h].price, remaining |-> pool[h].remaining,
                  owner |-> pool[h].owner]

(* The FIFO of price p if it belongs to this side, else no key. *)
RefFifo(side, p) ==
    IF levels[p].head # Null /\ pool[levels[p].head].side = side
      THEN [i \in 1 .. Len(Fifo(p)) |-> RefOrderAt(Fifo(p)[i])]
      ELSE <<>>

RefInfo(h) ==
    IF h = Null THEN [side |-> "Buy", price |-> NoPrice, owner |-> 0]
    ELSE [side |-> pool[h].side, price |-> pool[h].price, owner |-> pool[h].owner]

Ref == INSTANCE RefOrderBook WITH
         bids <- [p \in Ticks |-> RefFifo("Buy", p)],
         asks <- [p \in Ticks |-> RefFifo("Sell", p)],
         id_index <- [i \in Ids |-> RefInfo(id_index[i])]

(* Every behaviour of OrderBook, its trades and results included, is one   *)
(* of the reference book.                                                  *)
ImplementsRef == Ref!Spec
=============================================================================
