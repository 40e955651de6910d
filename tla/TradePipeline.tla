---------------------------- MODULE TradePipeline ----------------------------
(***************************************************************************)
(* The three threads of demos/dashboard_main.cpp and the Publisher of      *)
(* include/lob/publisher.hpp:                                              *)
(*                                                                         *)
(*   Producer -> inbound queue -> matching core -> outbound queue ->       *)
(*   publisher thread -> trade tape                                        *)
(*                                                                         *)
(* and their shutdown.  The queues are used as bounded FIFOs, which        *)
(* SpscQueue is proved to be.  What the book does with an event is left to *)
(* module OrderBook: an event here makes any number of trades the book     *)
(* could make, a CANCEL none; the aggressor is the new order, or the one   *)
(* that a MODIFY cancels and resubmits.  Pausing, speed and scenario only  *)
(* change when events come and which; the producer may wait at any time.   *)
(***************************************************************************)
EXTENDS Integers, Sequences, FiniteSets

CONSTANTS
    InBound, OutBound,     \* items the two queues hold
    CoreBatch, PubBatch,   \* 500 and 512: the batch limits of the two loops
    MaxEvents,             \* bound: events the producer generates
    MaxTrades              \* bound: trades one event makes

ASSUME BoundsAssumption ==
    /\ InBound \in Nat \ {0} /\ OutBound \in Nat \ {0}
    /\ CoreBatch \in Nat \ {0} /\ PubBatch \in Nat \ {0}
    /\ MaxEvents \in Nat /\ MaxTrades \in Nat

Sides == {"Buy", "Sell"}

(* The side of a MODIFY is that of the order it finds in the book: the     *)
(* core does not read the field of the event; that of a CANCEL is unused.  *)
Event == [type : {"ADD", "MODIFY"}, side : Sides]
           \cup {[type |-> "CANCEL", side |-> "Buy"]}

NoEvent == [type |-> "none", side |-> "Buy"]

(* An OutMsg: its seq, its side field, and the event that really made it. *)
OutMsg == [seq : Nat, side : Sides, cause : Event]

NoMsg == [seq |-> -1, side |-> "Buy", cause |-> NoEvent]

VARIABLES
    in_q, out_q,      \* the queues
    running,          \* running of main, read by the producer
    ppc, pev, made,   \* the producer, the event it pushes, events made so far
    cpc, cev, cbatch, \* the core, its event, its batch count
    ntrades,          \* trades the event made so far
    last_aggressor,   \* captured by reference by the trade sink
    seq,              \* seq_ of the book
    overruns,         \* overrun_count
    pub_running,      \* running_ of the Publisher
    pubpc, msg, pbatch, \* the publisher thread, its message, its batch count
    tape,             \* what on_trade_ has been called with
    forgotten         \* the messages popped and not delivered

producer  == <<ppc, pev, made>>
core      == <<cpc, cev, cbatch, ntrades, last_aggressor, seq, overruns>>
publisher == <<pubpc, msg, pbatch, tape, forgotten>>
vars == <<in_q, out_q, running, ppc, pev, made, cpc, cev, cbatch, ntrades,
          last_aggressor, seq, overruns, pub_running, pubpc, msg, pbatch, tape,
          forgotten>>

InQ  == INSTANCE BoundedFifo WITH q <- in_q, out <- cev, Items <- Event,
                                  NoItem <- NoEvent, Bound <- InBound
OutQ == INSTANCE BoundedFifo WITH q <- out_q, out <- msg, Items <- OutMsg,
                                  NoItem <- NoMsg, Bound <- OutBound

TypeOK ==
    /\ in_q \in Seq(Event) /\ Len(in_q) <= InBound
    /\ out_q \in Seq(OutMsg) /\ Len(out_q) <= OutBound
    /\ running \in BOOLEAN /\ pub_running \in BOOLEAN
    /\ ppc \in {"generate", "push", "exited"}
    /\ pev \in Event \cup {NoEvent} /\ made \in 0 .. MaxEvents
    /\ cpc \in {"poll", "apply", "keys", "join", "stop", "join_pub", "exited"}
    /\ cev \in Event \cup {NoEvent}
    /\ cbatch \in 0 .. CoreBatch /\ pbatch \in 0 .. PubBatch
    /\ ntrades \in 0 .. MaxTrades
    /\ last_aggressor \in Sides
    /\ seq \in Nat /\ overruns \in Nat
    /\ pubpc \in {"check", "poll", "deliver", "drain", "last", "exited"}
    /\ msg \in OutMsg \cup {NoMsg}
    /\ tape \in Seq(OutMsg)
    /\ forgotten \subseteq Nat

Init ==
    /\ in_q = <<>> /\ out_q = <<>>
    /\ running = TRUE /\ pub_running = TRUE
    /\ ppc = "generate" /\ pev = NoEvent /\ made = 0
    /\ cpc = "poll" /\ cev = NoEvent /\ cbatch = 0 /\ ntrades = 0
    /\ last_aggressor = "Buy" /\ seq = 0 /\ overruns = 0
    /\ pubpc = "check" /\ msg = NoMsg /\ pbatch = 0
    /\ tape = <<>> /\ forgotten = {}

-----------------------------------------------------------------------------
(* Producer::operator() *)

(* The loop head: generate the next event. *)
generate ==
    /\ ppc = "generate" /\ running
    /\ made < MaxEvents
    /\ \E e \in Event : pev' = e
    /\ made' = made + 1
    /\ ppc' = "push"
    /\ UNCHANGED <<in_q, out_q, running, pub_running, core, publisher>>

(* Both loops end when running is false: the outer one between two events, *)
(* the retry loop after a refused push, whose event is then given up.      *)
GivesUpOnlyIdle == ppc = "generate" /\ ~running \* mutant: retries forever

GivesUp ==
    /\ ~running
    /\ ppc = "generate" \/ (ppc = "push" /\ Len(in_q) >= InBound)

producer_exit ==
    /\ GivesUp
    /\ ppc' = "exited"
    /\ pev' = NoEvent
    /\ UNCHANGED <<in_q, out_q, running, pub_running, made, core, publisher>>

producer_push ==
    /\ ppc = "push"
    /\ InQ!Push(pev)
    /\ ppc' = "generate"
    /\ pev' = NoEvent
    /\ UNCHANGED <<out_q, running, pub_running, made, cpc, cbatch, ntrades,
                   last_aggressor, seq, overruns, publisher>>

-----------------------------------------------------------------------------
(* The core loop of main *)

BatchOneMore == cbatch <= CoreBatch             \* mutant: off by one

BatchOpen == cbatch < CoreBatch

(* Only an ADD notes its side for the trade sink, before it is submitted. *)
NoteLate(e) == IF cev.type = "ADD" THEN cev.side ELSE last_aggressor \* mutant: noted late

Aggressor(e) == IF e.type = "ADD" THEN e.side ELSE last_aggressor

(* try_pop(ev) && batch < 500: the pop comes first, so the event that      *)
(* meets the batch limit is popped and not applied.                        *)
core_pop ==
    /\ cpc = "poll"
    /\ \/ /\ in_q = <<>>
          /\ cpc' = "keys"
          /\ UNCHANGED <<in_q, cev, ntrades, last_aggressor>>
       \/ /\ in_q # <<>> /\ BatchOpen
          /\ InQ!Pop
          /\ cpc' = "apply"
          /\ ntrades' = 0
          /\ last_aggressor' = Aggressor(cev')
       \/ /\ in_q # <<>> /\ ~BatchOpen
          /\ InQ!Pop
          /\ cpc' = "keys"
          /\ UNCHANGED <<ntrades, last_aggressor>>
    /\ UNCHANGED <<out_q, running, pub_running, cbatch, seq, overruns,
                   producer, publisher>>

(* The message the trade sink builds. *)
SinkMsg == [seq |-> seq, side |-> last_aggressor, cause |-> cev]

(* A refused push is counted. *)
CountOverrun == overruns + 1

(* One trade of the event: the sink pushes a message, or counts an overrun. *)
core_trade ==
    /\ cpc = "apply" /\ cev.type # "CANCEL"
    /\ ntrades < MaxTrades
    /\ ntrades' = ntrades + 1
    /\ seq' = seq + 1
    /\ \/ OutQ!Push(SinkMsg) /\ UNCHANGED overruns
       \/ /\ Len(out_q) >= OutBound
          /\ overruns' = CountOverrun
          /\ UNCHANGED <<out_q, msg>>
    /\ UNCHANGED <<in_q, running, pub_running, cpc, cev, cbatch, last_aggressor,
                   producer, pubpc, pbatch, tape, forgotten>>

(* The book returns from the event. *)
core_applied ==
    /\ cpc = "apply"
    /\ cpc' = "poll"
    /\ cev' = NoEvent
    /\ cbatch' = cbatch + 1
    /\ UNCHANGED <<in_q, out_q, running, pub_running, ntrades, last_aggressor,
                   seq, overruns, producer, publisher>>

(* Keyboard, rendering, and the head of the loop with a new batch; or the  *)
(* user quits.                                                             *)
core_keys ==
    /\ cpc = "keys"
    /\ \/ running' = FALSE /\ cpc' = "join"
       \/ cpc' = "poll" /\ UNCHANGED running
    /\ cbatch' = 0
    /\ cev' = NoEvent
    /\ UNCHANGED <<in_q, out_q, pub_running, ntrades, last_aggressor, seq,
                   overruns, producer, publisher>>

(* producer_thread.join(), then Publisher::stop(). *)
core_join ==
    /\ cpc = "join" /\ ppc = "exited"
    /\ cpc' = "stop"
    /\ UNCHANGED <<in_q, out_q, running, pub_running, cev, cbatch, ntrades,
                   last_aggressor, seq, overruns, producer, publisher>>

core_stop ==
    /\ cpc = "stop"
    /\ pub_running' = FALSE
    /\ cpc' = "join_pub"
    /\ UNCHANGED <<in_q, out_q, running, cev, cbatch, ntrades, last_aggressor,
                   seq, overruns, producer, publisher>>

core_join_pub ==
    /\ cpc = "join_pub" /\ pubpc = "exited"
    /\ cpc' = "exited"
    /\ UNCHANGED <<in_q, out_q, running, pub_running, cev, cbatch, ntrades,
                   last_aggressor, seq, overruns, producer, publisher>>

-----------------------------------------------------------------------------
(* Publisher::run *)

pub_check ==
    /\ pubpc = "check"
    /\ pubpc' = IF pub_running THEN "poll" ELSE "drain"
    /\ pbatch' = 0
    /\ UNCHANGED <<in_q, out_q, running, pub_running, msg, tape, forgotten,
                   producer, core>>

BatchShort == pbatch + 1 < PubBatch             \* mutant: off by one

PubOpen == pbatch < PubBatch

(* try_pop(msg) && batch < 512: as in the core, the message that meets the *)
(* batch limit is popped and not delivered.                                *)
pub_pop ==
    /\ pubpc = "poll"
    /\ \/ /\ out_q = <<>>
          /\ pubpc' = "check"
          /\ UNCHANGED <<out_q, msg, forgotten>>
       \/ /\ out_q # <<>> /\ PubOpen
          /\ OutQ!Pop
          /\ pubpc' = "deliver"
          /\ UNCHANGED forgotten
       \/ /\ out_q # <<>> /\ ~PubOpen
          /\ out_q' = Tail(out_q)
          /\ pubpc' = "check"
          /\ forgotten' = forgotten \cup {Head(out_q).seq}
          /\ UNCHANGED msg
    /\ UNCHANGED <<in_q, running, pub_running, pbatch, tape, producer, core>>

(* The drain after the stop signal pops without a limit. *)
NoDrain == UNCHANGED <<out_q, msg>> /\ pubpc' = "exited" \* mutant: drain missing

DrainOne ==
    \/ out_q = <<>> /\ pubpc' = "exited" /\ UNCHANGED <<out_q, msg>>
    \/ OutQ!Pop /\ pubpc' = "last"

pub_drain ==
    /\ pubpc = "drain"
    /\ DrainOne
    /\ UNCHANGED <<in_q, running, pub_running, pbatch, tape, forgotten,
                   producer, core>>

(* on_trade_: the message goes to the tape. *)
NewestFirst == tape' = <<msg>> \o tape          \* mutant: tape reversed

Record == tape' = Append(tape, msg)

pub_deliver ==
    /\ pubpc \in {"deliver", "last"}
    /\ Record
    /\ msg' = NoMsg
    /\ \/ pubpc = "deliver" /\ pubpc' = "poll" /\ pbatch' = pbatch + 1
       \/ pubpc = "last" /\ pubpc' = "drain" /\ UNCHANGED pbatch
    /\ UNCHANGED <<in_q, out_q, running, pub_running, forgotten, producer, core>>

-----------------------------------------------------------------------------
Producer  == generate \/ producer_push \/ producer_exit
Core      == core_pop \/ core_trade \/ core_applied \/ core_keys \/ core_join
               \/ core_stop \/ core_join_pub
Publisher == pub_check \/ pub_pop \/ pub_drain \/ pub_deliver

(* The program has ended. *)
Terminated == cpc = "exited" /\ UNCHANGED vars

Next == Producer \/ Core \/ Publisher \/ Terminated

Spec == Init /\ [][Next]_vars

(* Each thread is scheduled.  The user need not quit, and the book returns *)
(* from every event (CallsReturn of PhotonBook, whose core is the same).   *)
Fairness == WF_vars(producer_push \/ producer_exit) /\ WF_vars(Core) /\ WF_vars(Publisher)

FairSpec == Spec /\ Fairness

-----------------------------------------------------------------------------
(* Properties *)

InHand == IF pubpc \in {"deliver", "last"} THEN 1 ELSE 0

(* Every trade of the book is on the tape, on its way to it, or counted as *)
(* an overrun: the outbound stream has everything that happened.           *)
TradesAccounted == seq = Len(tape) + InHand + Len(out_q) + overruns

(* The same but for the messages a full batch loses: one at most after     *)
(* every PubBatch messages that were delivered.                            *)
LossBounded ==
    /\ seq = Len(tape) + InHand + Len(out_q) + overruns + Cardinality(forgotten)
    /\ PubBatch * Cardinality(forgotten) <= Len(tape)

(* Trades reach the tape in execution order and none twice, whatever is    *)
(* dropped on the way: sequence numbers increase along tape and queue.     *)
TapeInOrder ==
    LET stream == tape \o (IF InHand = 1 THEN <<msg>> ELSE <<>>) \o out_q
    IN  /\ \A i, j \in 1 .. Len(stream) : i < j => stream[i].seq < stream[j].seq
        /\ \A i \in 1 .. Len(stream) : stream[i].seq < seq

(* When main has joined its threads, no message is left behind: what was   *)
(* pushed before stop() is drained, and nothing is pushed after it.        *)
DrainedAtExit ==
    cpc = "exited" => /\ out_q = <<>> /\ InHand = 0
                      /\ ppc = "exited" /\ pubpc = "exited"

(* A trade of an ADD is published with the side of that order, whatever    *)
(* was popped, dropped or traded before it.  Those of a MODIFY carry the   *)
(* side of the last ADD, which publisher.hpp:34 does not say.              *)
AggressorSide ==
    \A i \in 1 .. Len(tape) :
      tape[i].cause.type = "ADD" => tape[i].side = tape[i].cause.side

(* Quitting ends the program: a producer that waits for room in a queue    *)
(* nobody drains any more, and a publisher with a backlog, both finish.    *)
ShutdownCompletes == cpc = "join" ~> cpc = "exited"

(* A trade that entered the outbound queue is delivered in the end, also   *)
(* when the program is stopped meanwhile, unless it is one that meets the  *)
(* batch limit.                                                            *)
QueuedTradesArrive ==
    \A n \in 0 .. (MaxEvents * MaxTrades) :
      (\E i \in 1 .. Len(out_q) : out_q[i].seq = n)
        ~> (n \in forgotten \/ \E i \in 1 .. Len(tape) : tape[i].seq = n)
=============================================================================
