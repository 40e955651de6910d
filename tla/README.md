# A TLA+ verification of `lob`, the limit order book and matching engine

This directory models the parts of the repository that carry its logic, checks
them with TLC on small instances, and proves the most important properties
with TLAPS for every value of the constants. Paths below are relative to the
root of the repository.

## 1. The system

| Component | Source | State | Operations | Interacts with |
|---|---|---|---|---|
| OrderBook | `src/core/order_book.cpp`, `include/lob/order_book.hpp` | level array (head, tail, total per tick), pool of orders with `prev`/`next` links, id index, cached best bid and ask, `seq_` | `submit` (Limit, Market, Ioc, Fok), `cancel`, `modify` | calls Pool and `unordered_map`; pushes trades into a sink while it sweeps |
| RefOrderBook | `include/lob/ref_order_book.hpp` | two price-ordered maps of FIFOs, id index | the same | compared with OrderBook by `tests/fuzz_cross_check.cpp` |
| Pool | `include/lob/pool.hpp` | nodes (a union of object and free link), head and tail of the free list, count | `allocate`, `deallocate`, access | OrderBook (Lifo), PhotonBook (Fifo) |
| FlatMap | `include/lob/flat_map.hpp` | slots of key and value, count | `find`, `insert`, `erase` | id index of PhotonBook |
| SPSCQueue | `include/lob/spsc_queue.hpp` | ring, atomic head and tail | `try_push`, `try_pop` | one producer and one consumer thread |
| Publisher | `include/lob/publisher.hpp` | running flag, thread | `start`, `stop`, `run`, the trade sink | drains the outbound queue into callbacks |
| Dashboard | `demos/dashboard_main.cpp` | producer, core loop, trade tape | generate, pop and apply, quit | the three threads and two queues |
| PhotonBook | `include/lob/photon_book.hpp` | as OrderBook, plus FlatMap index, time in force per order, expiry heap, event sequence | as OrderBook, plus `check_expiry`; emits an event for what happens to an order | calls Pool (Fifo) and FlatMap; pushes events into a Sink |
| Parsers | `include/lob/parsers.hpp` | read position, symbol filter | parse a LOBSTER line, an ITCH message | produce market events |
| Replay driver | `benchmarks/replay_main.cpp` | the book it drives | `replay_file` | turns market events into calls on OrderBook |
| Ablation | `benchmarks/ablation_main.cpp` | copies of the book with one structure exchanged | as OrderBook | measured only |

What is hard here:

* the book is sequential, but a call makes many small edits to four
  structures that must agree (links, totals, index, best prices), and a wrong
  one shows only many calls later;
* the pool can be exhausted in the middle of a call, after trades were made;
* a Fok decides on one walk and acts in another; self-trade prevention cuts
  both;
* the queues run between threads with release/acquire ordering only, so an
  index may be stale;
* the outbound path drops messages when it is full, batches, and must drain on
  shutdown; the shutdown joins threads that wait for each other's queues;
* FlatMap never turns a tombstone back into an empty slot;
* an expiry entry names its order by id and outlives it; a modify that
  resubmits must hand the time in force on; events leave in the middle of a
  sweep and must still add up to the book;
* a replay knows less than the recorded exchange: it cannot follow a replaced
  reference, skips what is out of range and puts several prices in one tick.

`PROJECT.json` lists these as hazards with their lines and the properties that
would catch them.

## 2. The modules

### The book

`LobTypes` holds the vocabulary of `types.hpp` and the calls of a client.
Identifiers are abstract. Quantities are unsigned with a width: sums and
differences on them are taken modulo `QMod` (2^64 in the code).

`OrderBook` models `OrderBook`. `levels`, `pool`, `id_index`, `best_bid`,
`best_ask` are the members of the class; `free` is what the pool can hand out;
`pc`, `call`, `res`, `trade` are the call in progress, its locals and its
result. A call takes several steps because a trade leaves through the sink
before the next one is made:

| action | code |
|---|---|
| `submit` | `submit` up to the sweep, with the Fok check (`can_fill`) |
| `match` | one round of the loop in `match`, with `unlink_and_free`, the repricing and the erased index entry |
| `finish_submit` | the end of the sweep, the would-cross test, `rest_order`, the result |
| `cancel`, `modify` | the handlers; a resubmitting `modify` continues with `match` and `finish_submit` |
| `return` | the caller takes its result |

The loops of the code that only read are sets and functions here: the
repricing scans are "the best non-empty tick not better than the old best", and
`can_fill` is "some prefix of the walked levels offers enough". `Fifo(p)` is
what following `next` from the head meets. The pool is used through its
interface (any free slot, or none), which module `Pool` justifies; a free slot
holds the default order, since its bytes are overwritten by the free link and
`rest_order` sets every field. `seq_` only numbers trades and is modelled where
the number is used, in `TradePipeline`.

Assumptions on the caller: the id of a new order is not the id of a resting one
(`types.hpp:30` calls it monotonic; the book does not check it), and the price
of an order that can rest is a tick of the array. Prices of Ioc and Fok orders
may lie one tick outside on either side. The slots are finitely many
(`max_orders`, `FiniteAssumption`); the ids may be infinitely many.

`RefOrderBook` models `RefOrderBook` in the same steps, with sequences for
FIFOs and no pool, links, totals or cached prices. It is the abstract
specification of a book. `OrderBookRefinement` reads its state off the links
of `OrderBook`.

### PhotonBook

`PhotonBook` repeats the matching functions of `OrderBook` line by line, so the
module uses them as `B == INSTANCE OrderBook` on the same variables and adds
what is new: `tif` per slot, the expiry heap, `check_expiry` and the events.

| action | code |
|---|---|
| `submit`, `match`, `finish_submit`, `cancel`, `modify`, `return` | the action of the core, with the events emitted on the way, the stored time in force and the heap entry |
| `search_forever`, `go_round` | a `cancel` or `modify` of an order that is not open, when the index has no empty slot |
| `check_expiry` | the call, with a time that does not run back |
| `expire` | one round of its loop: pop the top entry, remove the order it names if that is open |
| `expiry_checked` | the loop ends |

The heap is the set of its entries, popped earliest first, equal times in any
order. The events are modelled by what a consumer makes of them: `emit` is the
update to `view`, the orders the stream so far describes. `view`, `granted`
(what each client asked for) and `clock` (the last check) are history
variables; no action of the book reads them, except that an id is given out
only once it is forgotten everywhere (`types.hpp:30`, identifiers are unique).
With an exhausted pool `rest_order` emits Rejected and `submit` emits Ack for
the same order, as in the code.

Since the module is written over `B`, that PhotonBook matches as OrderBook does
is how it is modelled and not something a run or a theorem shows; it was read
off `photon_book.hpp:125-438` side by side with `order_book.cpp`. One difference
matters: the index is a FlatMap, whose searches for an id that is not there end
only at an empty slot. `has_empty` says that there still is one and `endless`
that a search goes round for ever. An id that comes to rest may take the last
empty slot (`finish_submit`); how many it takes depends on the hash function and
is left out, so the model can run out of empty slots earlier than the code. The
searches of `cancel` (`photon_book.hpp:165`), `modify` (176) and `check_expiry`
(224) are affected; the others are for ids that are there, and an insert always
finds the slot of a tombstone, as there are more slots than orders.

### Replay

`Replay` models the two parsers and `replay_file` over the same core. The
exchange that recorded the file is external: its actions say which messages a
file can hold. A message is a record of the fields that are read, intact or
garbled; the parsers keep nothing from one message to the next, so reading the
whole file first and replaying after that is the same as going message by
message. `Expected` says which orders the book may hold and `Followed` which it
has to; between the two lie the orders that were reduced and those of a symbol
filter, of which the code keeps none although its comments suggest that it
would. `astray` remembers the references whose fate the replay cannot know.
The driver passes every order with owner 0, so self-trade prevention never
stops one; that 0 is an owner and that the slots are finite is assumed as in
`OrderBook`.

### Pool and FlatMap

`Pool` models the free list threaded through the slots for both policies. A
slot that the user wrote reads as `Object` when it is taken for a link, so a
list that ran into a slot in use would be seen. `SlotPool` is what it promises.

`FlatMap` models the probing, one slot per step, for any hash function;
`IdMap` is what it promises. A key is inserted only while it is absent, as
PhotonBook does, and at most `Expected` keys are stored. The overwriting
branch of `insert` is therefore not reached and left out.

### Threads

`SpscQueue` models each access to shared memory as a step. An acquire load
returns any value between the one the thread saw last and the newest
(`Visible`); a thread's relaxed load of its own index returns what it stored.
`BoundedFifo` is what the queue promises.

`TradePipeline` composes the producer thread, the core loop, the trade sink,
the publisher thread and the shutdown of the dashboard, with the queues as
bounded FIFOs. What the book does with an event is abstracted to a number of
trades; a `CANCEL` makes none. A push is refused when the queue is full and a
pop when it is empty. A stale index can also refuse a push or a pop a little
early (`SpscQueue` has that): the producer and the poll loops then try again,
and the trade sink counts one more overrun, which is left out here. After
`stop()` the drain sees every earlier push because `running_` is stored
with release after them. Each message remembers the event that caused it, and
`forgotten` the messages popped and not delivered; both are history. Pausing and speed are covered by a producer that may
wait at any time.

## 3. The runs

| run | instance | what it shows |
|---|---|---|
| `book_full` | 4 ids, 3 slots, 3 ticks, quantities {0,1,3} mod 4, 2 owners (one anonymous) | types, links, no cycles, exact index, exact best prices and no crossed book, while orders also meet an exhausted pool; a modify never loses its order |
| `book_refines_ref` | 3 ids, 3 slots, 2 ticks, quantities {1,3} mod 4 | OrderBook implements RefOrderBook; FIFOs hold exactly the live orders; totals are exact modulo the width; Fok is all or nothing; only self-trade prevention drops quantity; the reported resting quantity is in the book; time priority |
| `book_lost` | 2 ids, 1 slot | violation: an order that found no slot is reported as resting (`types.hpp:103`) |
| `pool` | 4 slots, both policies | the free list and the user share no slot and lose none; reuse order; implements `SlotPool` |
| `flat_map` | 4 keys, at most 2 stored, 4 slots, every hash function up to renaming keys, fair | probe chains are unbroken, `size()` is exact, implements `IdMap`, calls return while an empty slot is left |
| `flat_map_churn` | the same | violation: with no empty slot left, a search for an absent key never returns |
| `spsc` | 4 slots, 3 items | no lapped index, no slot race, implements `BoundedFifo` |
| `pipeline` | queues of 1 and 2, batch limits 1 and 2, 2 events of up to 3 trades, fair | the tape is in execution order without duplicates, whatever is dropped; each trade is delivered, under way, counted or among the bounded losses of full batches; trades of an add carry its side; queued trades arrive, also across `stop()`; quitting ends the program with nothing left in the queue |
| `pipeline_batch` | publisher batch limit 2 | violation: the message that meets the batch limit is popped and forgotten |
| `photon` | 3 ids, 2 slots, 1 tick, quantities 1 and 2, 2 owners, expiries at 2 instants, all times in force | the events show every open order as it is; an order ends without an event in two cases only; GTD orders end when they are due, whatever they went through, and no order ends before its time |
| `photon_live` | 3 ids, 2 slots, 2 ticks, fair | every sweep and every `check_expiry` ends, unless an id that is not open is looked up in an index without an empty slot |
| `replay` | 3 references and the hidden one, 3 slots, 2 symbols, one tick of 2 prices and a price out of range, both formats, garbled messages | during and between the calls the replayed book holds only recorded orders, with the quantity they have at the exchange, and without a symbol filter all that were never reduced, as far as the replay can follow them; no add has an id in use; it trades only for a reason of its own |

**Bounds.** Three resting orders make a head, a middle and a tail; two ticks
make a sweep of several levels and a repricing, three ticks a repricing over a
gap. Quantities 1 and 3 modulo 4 give partial fills, exact fills and totals
that wrap. Fewer slots than ids exhaust the pool. Ids are reused once they left
the book, so the behaviours have no bounded length. Four ring slots let both
indexes wrap; four keys in four slots with every hash function give every
collision and, with distinct homes, a table without empty slots. In
`TradePipeline`, `MaxEvents` and `MaxTrades` bound the number of events and of
trades per event; batch limits of 1 and 2 stand for 500 and 512, and 6 trades
against a limit of 2 reach it. In `PhotonBook` two instants put an expiry
before, at and after a check, and three ids over two slots exhaust the pool
and leave entries of orders that are gone; one tick is enough for both phantom
cases, since the sweeps over several levels are those of OrderBook. In
`Replay` a divisor of 2 puts two prices in one tick and the third out of range.
Symmetry is used for ids and slots, and for items, in runs without liveness.
A zero quantity is in `book_full` only: a Fok of quantity 0 against a book that
does not cross is rejected by OrderBook (`order_book.cpp:190`) and accepted by
RefOrderBook, so the refinement is stated for positive quantities.

**Fairness.** `photon_live`: the thread that made a call, or a check, goes on
running it (weak fairness of `match`, `finish_submit`, `return`, `expire`,
`expiry_checked`); nothing makes clients call, and a search that does not end
is excluded by `CallsReturn`, not by fairness. `flat_map`: a call in progress
runs. `pipeline`: each of the three threads is scheduled; the producer need not
generate and the user need not quit. All three are what the operating system
gives a runnable thread.

**Deadlock** is checked in every run; `Terminated` is the one stuttering end, of
`TradePipeline` after all threads are joined, `Finished` that of `Replay` at
the end of the file, and `go_round` the search of `PhotonBook` that never ends.

**What the runs say of the code that a reader may not expect.**

* An order that found no slot is reported as resting (`book_lost`), and
  PhotonBook acknowledges it after rejecting it: `PhantomsExplained`, first
  case. Its second case is a modify whose resubmission self-trade prevention
  stops: the order is gone and no event says so.
* A publisher batch of 512 loses a message uncounted (`pipeline_batch`); at most
  one for every 512 delivered (`LossBounded`). The core loop loses an inbound
  event in the same way.
* A FlatMap without an empty slot never returns from a search for an absent key
  (`flat_map_churn`). In PhotonBook a cancel or a modify of an order that is gone
  can hang so, and a `check_expiry` that meets the entry of one; `CallsReturn`
  holds but for that.
* Trades of a `MODIFY` are published with the side of the last `ADD`;
  `AggressorSide` holds for adds only.
* DAY orders get no expiry entry and never end, although `photon_book.hpp:54`
  and `213` say that they expire. No property asks for either: `NoneOverdue`
  speaks of GTD orders, and `ExpiresOnlyDue` lets a DAY order go at its time.
* A symbol filter of the ITCH parser compares the symbol with the reference
  number too and so drops every add (`Rejects`), against `parsers.hpp:213-214`,
  `README.md:148` and the usage text of `--symbol`. A partial cancel takes the
  whole order out, against `parsers.hpp:117` ("reduce size"). `ReplayInv` would
  hold of a replay that does as these lines say: it limits what the book may
  hold, and asks for nothing that they would change.

## 4. The proofs

`OrderBookProofs` proves, for any finite or infinite set of ids, any finite set
of slots, any number of ticks, any quantity width and any owners:

* `BookSafety`: `Spec => []BookInv`, and from it `TypeCorrect`, `ListsSound`,
  `GroundedSound`, `IndexSound`, `BestSound`;
* `ModifyKeeps` (`ModifyKeepsOrder`) and `DroppedOnlyForOwner`
  (`DroppedOnlyBySelfTrade`), from the further invariant `RoomForModify`: a
  resubmitting modify has freed the slot it will need, and nothing takes it
  before the order rests again.

`BookInv` is inductive. Its parts need each other: `Linked` says that
neighbours point at each other and that an order without a neighbour is the
head or the tail of its level; alone it allows a ring of orders detached from
the level, with which a level could look empty while orders of its price live,
and the repricing would pass over them. `Grounded` excludes that: no non-empty
set of live orders is closed under `prev`. The lemma `HeadExists` (every live
order's level has a head) follows from the two, and with it `BestPrices` is
preserved by the repricing. `IndexExact` is needed for `cancel` and `modify` to
reach a live slot; `SweepSound` says that the id being swept is not in the
index, so resting it makes one entry, and that filled and remaining quantity
add up, so neither underflows. One lemma per building block (splicing a slot
out, resting in a slot, trading part of an order) states which parts it
preserves; the actions follow from them.

The module goes on to what a level holds, under the same assumptions:

* `LevelSafety`: `Spec => []LevelInv`, where `LevelInv` adds to `BookInv` that
  live orders have a quantity (`Positive`) and that every level has a FIFO
  (`HasFifos`);
* `FifosSound` (`FifosHoldTheLiveOrders`) and `Priority` (`TimePriority`);
* `TotalsExact` (`LevelTotals`);
* `FillOrKill` (`FokAllOrNothing`);
* `RestingReported` (`RestingIsInBook`), if there are at least as many slots as
  ids. With fewer it is false, which is what `book_lost` shows.

`Fifo(p)` is a walk, so a proof about it would be an induction over the list.
`HasFifos` says instead that some sequence without repetition runs along the
links and holds exactly the live orders of the level; every step removes,
shortens or appends one order, so that sequence is easy to carry along, and one
lemma shows that the walk computes it. Where an induction over a list or a set
is unavoidable (the sums of quantities do not depend on the order of summation,
the walk meets the sequence) it is done by least counterexample: a non-empty set
of naturals has a least element, and the step below it gives the contradiction.

The total of a level is kept modulo the width of `Quantity`, as the code does;
a step changes the sum of the quantities and the stored total by the same
amount, and the lemmas on `%` show that wrapping loses no more than the
width. For Fok, `FokCovered` says that while an accepted Fok is swept there is a
set of orders it may still trade with (within its limit, not its owner's, and
closed under the orders in front and at better prices) whose quantities suffice
for what remains.
`can_fill` establishes it, each round of `match` takes the order traded out of
the set, and at the end nothing remains. `can_fill` sums the wrapped totals: the
proof therefore also shows that wrapping can only make it refuse a Fok, never
accept one it cannot fill.

`OrderBookRefinementProofs` proves `ImplementsReference`: OrderBook implements
RefOrderBook (`ImplementsRef`), if the ids are finitely many, there are at least
as many slots as ids, and no call passes quantity 0. Without the first two the
pool can run out, which the reference cannot; with quantity 0 a Fok is accepted
by the reference and refused by the book when nothing crosses. On top of
`LevelInv` a FIFO of the reference is the sequence of `HasFifos`, read slot by
slot (`View`). Each step removes an order, shortens one or appends one; three
lemmas (`RemovesRef`, `ReducesRef`, `AddsRef`) say what that does to the FIFOs
of the reference and three more what it does to its index, and each action of
the book then maps to the action of its name. `RefBest` finds the cached best
price by the scan of the reference. `FillAgrees` shows that both accept the same
Foks, though one walks every tick between the best price and the limit and sums
wrapped totals and the other walks the keys of its map and wraps the sum: an
empty level adds 0, has no order of the owner, and may be left out.

`PoolProofs` proves, for every capacity and both policies, `PoolSafety`
(`ListInv`), `PoolSound` (`PoolInv`), `Reuse` (`ReuseOrder`) and `Implements`
(the free list implements `SlotPool`). `ListInv` is the FIFO argument again:
some sequence without repetition runs from `free_head` along `next_free` and
holds exactly the slots the user does not have.

`FlatMapProofs` proves, for every capacity, hash function and key set,
`FlatMapSafety` (`FlatMapInv`), `TableSound` (`TableInv`) and `Implements` (the
table implements `IdMap`). The invariant has the unbroken chains, the exact
count and `Probing`, what a call in progress has learnt: no empty slot and not
its own key lie behind it. With an unbroken chain an empty slot then means that
the key is absent, and a tombstone may be taken by an insert.

`TradePipelineProofs` proves, for all queue sizes, batch limits and numbers of
events, `PipelineSafety` (`PipelineInv`), `TypeCorrect`, `TapeOrdered`
(`TapeInOrder`), `Drained` (`DrainedAtExit`), `LossIsBounded` (`LossBounded`)
and `SidesPublished` (`AggressorSide`). `PipelineInv` has one part per question:
`Handed` (what a thread holds at each program point), `Stopping` (how far the
shutdown has come), `InOrder` (sequence numbers increase along tape, message in
hand and queue), `SidesTrue` and `Accounted` (every trade is on the tape, in
hand, queued, counted as an overrun or forgotten by a full batch).

`SpscQueueProofs` proves, for every capacity above one and every item set:

* `Safety`: `Spec => []Inv`, and from it `TypeCorrect`, `RingOrdered` and
  `RaceFree`;
* `Refinement`: the ring implements `BoundedFifo`.

The invariant is the order of five indexes around the ring,
`seen_head <= head <= seen_tail <= tail < seen_head + Capacity`, where the
`seen` ones are the stale values the threads hold. The refinement shows that a
push takes effect when `tail_` is stored and a pop when `head_` is, and that a
write to the unpublished slot is invisible.

`PhotonBookProofs` proves, for any ids, slots, ticks, quantities, owners,
instants and times in force:

* `PhotonSafety`: `Spec => [](BookInv /\ PhotonInv)`, and from it
  `PhotonTypes`, `EventsSound` and `ExpirySafety`;
* the action properties `ExpiryComplete` (`NoneOverdue`), `ExpirySound`
  (`ExpiresOnlyDue`) and `PhantomsOnly` (`PhantomsExplained`).

The invariant of the core is the one of `OrderBookProofs`, whose lemmas are
used through an instance; a first group of lemmas shows that the two readings
of the core agree, and a second reduces each action to what the rest depends
on: one order dropped, edited or added, and no other changed for a consumer.
`PhotonInv` is `TypeOK`, `EventsShowBook`, and the two parts `GtdQueued` and
`LivesAgree` of `ExpiryInv`.
`EventsShowBook` needs the index to be exact, so that a fill or an end meets
the one order of that id; `GtdQueued` needs it so that popping an entry takes
it from no other open order; `LivesAgree` ties the slots, the sweep and the
heap to what the clients asked for, and makes expiry complete and never early. For
the phantoms one more invariant, `Resubmits`, says that a consumer knows the
incoming order of a sweep only if a modify resubmitted it and something is
left of it.

`ReplayProofs` proves, for any references, symbols, prices, tick divisor and
slots:

* `ReplayFaithful`: `Spec => [](BookInv /\ FollowInv)`;
* `ReplaySound` (`ReplayInv`), if there are at least as many slots as
  references;
* `TradesHaveReasons` (`TradesExplained`), whatever the number of slots;
* `ReplayDrivesBook`: `Spec => B!Spec`, a replay is a behaviour of OrderBook, so
  its driver keeps to what OrderBook assumes of clients and the theorems of the
  book hold of a replayed one. No run checks this refinement.

`ReplaySound` asks for the orders in `Followed` only; it says nothing of the
presence of orders that were reduced, or of any order under a symbol filter.

`FollowInv` is `ReplayInv` without `Complete`. Its `Faithful` speaks of an order
in its sweep as well as of one at rest, since between the two it is in neither
the index nor a FIFO; `NewToBook` says that the reference of an add to come is
in neither, so the call of an add is one a client may make. `Complete`, that no
followed order is missing, is the part that needs room: the orders in the book
and the one in its sweep have different references, so a slot for each
reference leaves one for the order about to rest. Each message is reduced to
two facts: `Delivered`, what it does to the lists of the exchange, and
`Touches`, that the call it leads to leaves the orders of all other references
alone. The second rests on the lemmas of `OrderBookProofs` that say of each
operation which orders it keeps (`OrdersKept`). A step of the book then only has
to be looked at for the orders of its trade, which go astray, and for the order
that comes to rest: since it is not astray nothing crosses it, and since its
owner is 0 nothing else stops it. For `TradesExplained`, two orders of one
symbol that meet are listed at prices that do not cross (`Uncrossed`) and in
ticks that do; ticks grow with prices (`TickGrows`), so the two ticks are one.

The assumptions are the named `ASSUME`s of the modules; each run whose module
extends them evaluates them.

**Only model-checked**: liveness (`ReturnsWithEmpty`, `ShutdownCompletes`,
`QueuedTradesArrive`, `CallsReturn`), which the installed prover does not
support. Every invariant, action property and refinement that a passing run
checks is also a theorem.

## 5. Not modelled

* The ablation variants are benchmark copies of the book with one structure
  exchanged (heap for pool, tree for array);
  what each exchanged structure promises is `RefOrderBook`, `SlotPool` or
  `IdMap`, and the rest is the same code.
* `bench_main.cpp`, `rdtsc.hpp`, `demo_main.cpp`, `report_main.cpp`,
  `gen_lobster.js` and the HTML pages measure, print or generate data and hold
  no state a property is about. The same goes for the synthetic replay and the
  latency figures of `replay_main.cpp` and for rendering in the dashboard.
* Of the parsers, the bytes, the timestamps and the guess at the format
  (`detect_format`): their effect on the book is which message is read, and the
  model reads any.
* The overwriting branch of `FlatMap::insert`, which PhotonBook does not reach.
* `size_approx` and the size queries only read. ExecReport messages are
  delivered by the publisher but pushed by no code of the repository.

## 6. Plan

Done: the book, its reference and the refinement; Pool; FlatMap; the queue; the
pipeline; PhotonBook; the parsers and the replay; proofs for all of them. What
would extend the project: an `insert` of FlatMap that overwrites, should a
caller come to need it, and the pipeline over a `Replay` in place of its
abstract book.
