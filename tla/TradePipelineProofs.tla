------------------------ MODULE TradePipelineProofs ------------------------
(***************************************************************************)
(* For all queue sizes, batch limits and numbers of events and trades: the *)
(* tape is in execution order, no trade is lost other than by an overrun   *)
(* or a full batch, and main leaves nothing behind when it ends.           *)
(***************************************************************************)
EXTENDS TradePipeline, SequenceTheorems, FiniteSetTheorems, TLAPS

-----------------------------------------------------------------------------
(* The inductive invariant. *)

(* What each thread holds is what its program counter says.                *)
Handed ==
    /\ ppc = "push" => pev \in Event
    /\ cpc = "apply" => cev \in Event /\ cbatch < CoreBatch
    /\ InHand = 1 => msg \in OutMsg
    /\ pubpc = "deliver" => pbatch < PubBatch

(* How far the shutdown has come, seen from the threads that wait for it.  *)
Stopping ==
    /\ cpc \in {"stop", "join_pub", "exited"} => ppc = "exited"
    /\ pub_running <=> cpc \notin {"join_pub", "exited"}
    /\ pubpc \in {"drain", "last", "exited"} => ~pub_running
    /\ pubpc = "exited" => out_q = <<>>
    /\ cpc = "exited" => pubpc = "exited"

(* Sequence numbers increase along the tape, the message in hand and the   *)
(* outbound queue; those forgotten are older than those still to come.     *)
Increasing(s) == \A i, j \in 1 .. Len(s) : i < j => s[i].seq < s[j].seq

InOrder ==
    /\ Increasing(tape) /\ Increasing(out_q)
    /\ \A i \in 1 .. Len(tape), j \in 1 .. Len(out_q) : tape[i].seq < out_q[j].seq
    /\ \A i \in 1 .. Len(tape) : tape[i].seq < seq
    /\ \A j \in 1 .. Len(out_q) : out_q[j].seq < seq
    /\ InHand = 1 => /\ msg.seq < seq
                     /\ \A i \in 1 .. Len(tape) : tape[i].seq < msg.seq
                     /\ \A j \in 1 .. Len(out_q) : msg.seq < out_q[j].seq
    /\ \A n \in forgotten : n < seq /\ \A j \in 1 .. Len(out_q) : n < out_q[j].seq

(* The side of a message is that of the ADD that made it.                  *)
TrueSide(m) == m.cause.type = "ADD" => m.side = m.cause.side

SidesTrue ==
    /\ cpc = "apply" => TrueSide([side |-> last_aggressor, cause |-> cev])
    /\ \A j \in 1 .. Len(out_q) : TrueSide(out_q[j])
    /\ InHand = 1 => TrueSide(msg)
    /\ \A i \in 1 .. Len(tape) : TrueSide(tape[i])

(* The losses, with the messages the batch in progress has delivered.      *)
InBatch == IF pubpc \in {"poll", "deliver"} THEN pbatch ELSE 0

Accounted ==
    /\ IsFiniteSet(forgotten)
    /\ seq = Len(tape) + InHand + Len(out_q) + overruns + Cardinality(forgotten)
    /\ PubBatch * Cardinality(forgotten) + InBatch <= Len(tape)

PipelineInv == TypeOK /\ Handed /\ Stopping /\ InOrder /\ SidesTrue /\ Accounted

(* The initial state. *)
LEMMA InitInv == Init => PipelineInv
<1> SUFFICES ASSUME Init PROVE PipelineInv
  OBVIOUS
<1> USE BoundsAssumption DEF Init
<1>1. TypeOK
  BY DEF TypeOK, Sides
<1>2. Handed /\ Stopping
  BY DEF Handed, Stopping, InHand
<1>3. InOrder
  BY DEF InOrder, Increasing, InHand
<1>4. SidesTrue
  BY DEF SidesTrue, InHand
<1>5. Accounted
  BY FS_EmptySet DEF Accounted, InHand, InBatch
<1> QED
  BY <1>1, <1>2, <1>3, <1>4, <1>5 DEF PipelineInv

-----------------------------------------------------------------------------
(* Types and control, action by action. *)

Control == TypeOK /\ Handed /\ Stopping

(* The messages and events that go through the queues.                     *)
LEMMA PushTypes ==
    ASSUME NEW S, NEW s \in Seq(S), NEW x \in S
    PROVE  Append(s, x) \in Seq(S) /\ Len(Append(s, x)) = Len(s) + 1
BY AppendProperties

(* What a pop leaves is a queue.                                           *)
LEMMA PopTypes ==
    ASSUME NEW S, NEW s \in Seq(S), s # <<>>
    PROVE  Head(s) \in S /\ Tail(s) \in Seq(S) /\ Len(Tail(s)) = Len(s) - 1
BY HeadTailProperties

(* The steps of the producer keep the control part.                        *)
LEMMA ProducerControl == Control /\ Producer => Control'
<1> SUFFICES ASSUME Control, Producer PROVE Control'
  OBVIOUS
<1> USE BoundsAssumption DEF Control, core, publisher
<1>1. CASE generate
  BY <1>1 DEF generate, TypeOK, Handed, Stopping, InHand
<1>2. CASE producer_push
  <2>1. in_q' = Append(in_q, pev) /\ Len(in_q) < InBound /\ cev' = cev
    BY <1>2 DEF producer_push, InQ!Push
  <2>2. in_q' \in Seq(Event) /\ Len(in_q') <= InBound
    BY <1>2, <2>1, PushTypes DEF producer_push, TypeOK, Handed
  <2> QED
    BY <1>2, <2>1, <2>2 DEF producer_push, TypeOK, Handed, Stopping, InHand
<1>3. CASE producer_exit
  BY <1>3 DEF producer_exit, TypeOK, Handed, Stopping, InHand
<1> QED
  BY <1>1, <1>2, <1>3 DEF Producer

(* The steps of the core keep the control part.                            *)
LEMMA CoreControl == Control /\ Core => Control'
<1> SUFFICES ASSUME Control, Core PROVE Control'
  OBVIOUS
<1> USE BoundsAssumption DEF Control, producer, publisher
<1>1. CASE core_pop
  <2>1. CASE in_q = <<>>
    BY <1>1, <2>1 DEF core_pop, TypeOK, Handed, Stopping, InHand, InQ!Pop
  <2>2. CASE in_q # <<>>
    <3>1. cev' = Head(in_q) /\ in_q' = Tail(in_q)
      BY <1>1, <2>2 DEF core_pop, InQ!Pop
    <3>2. cev' \in Event /\ in_q' \in Seq(Event) /\ Len(in_q') <= InBound
      BY <2>2, <3>1, PopTypes DEF TypeOK
    <3>3. cev'.side \in Sides
      BY <3>2 DEF Event, Sides
    <3>4. last_aggressor' \in Sides
      BY <1>1, <2>2, <3>3 DEF core_pop, Aggressor, TypeOK
    <3> QED
      BY <1>1, <2>2, <3>2, <3>4 DEF core_pop, BatchOpen, TypeOK, Handed, Stopping, InHand
  <2> QED
    BY <2>1, <2>2
<1>2. CASE core_trade
  <2>1. SinkMsg \in OutMsg
    BY <1>2 DEF core_trade, SinkMsg, OutMsg, TypeOK, Handed
  <2>2. CASE OutQ!Push(SinkMsg) /\ UNCHANGED overruns
    <3>1. out_q' = Append(out_q, SinkMsg) /\ Len(out_q) < OutBound /\ msg' = msg
      BY <2>2 DEF OutQ!Push
    <3>2. out_q' \in Seq(OutMsg) /\ Len(out_q') <= OutBound
      BY <2>1, <3>1, PushTypes DEF TypeOK
    <3>3. pubpc # "exited"
      BY <1>2 DEF core_trade, Stopping
    <3> QED
      BY <1>2, <2>2, <3>1, <3>2, <3>3 DEF core_trade, TypeOK, Handed, Stopping, InHand
  <2>3. CASE overruns' = CountOverrun /\ UNCHANGED <<out_q, msg>>
    BY <1>2, <2>3 DEF core_trade, CountOverrun, TypeOK, Handed, Stopping, InHand
  <2> QED
    BY <1>2, <2>2, <2>3 DEF core_trade
<1>3. CASE core_applied
  BY <1>3 DEF core_applied, TypeOK, Handed, Stopping, InHand
<1>4. CASE core_keys
  <2>1. running' \in BOOLEAN
    BY <1>4 DEF core_keys, TypeOK
  <2>2. /\ cpc' \in {"join", "poll"} /\ cbatch' = 0 /\ cev' = NoEvent
        /\ UNCHANGED <<in_q, out_q, pub_running, ntrades, last_aggressor, seq,
                       overruns, ppc, pev, made, pubpc, msg, pbatch, tape, forgotten>>
    BY <1>4 DEF core_keys
  <2> QED
    BY <1>4, <2>1, <2>2 DEF core_keys, TypeOK, Handed, Stopping, InHand
<1>5. CASE core_join
  BY <1>5 DEF core_join, TypeOK, Handed, Stopping, InHand
<1>6. CASE core_stop
  BY <1>6 DEF core_stop, TypeOK, Handed, Stopping, InHand
<1>7. CASE core_join_pub
  BY <1>7 DEF core_join_pub, TypeOK, Handed, Stopping, InHand
<1> QED
  BY <1>1, <1>2, <1>3, <1>4, <1>5, <1>6, <1>7 DEF Core

(* The steps of the publisher keep the control part.                       *)
LEMMA PublisherControl == Control /\ Publisher => Control'
<1> SUFFICES ASSUME Control, Publisher PROVE Control'
  OBVIOUS
<1> USE BoundsAssumption DEF Control, producer, core
<1>1. CASE pub_check
  BY <1>1 DEF pub_check, TypeOK, Handed, Stopping, InHand
<1>2. CASE pub_pop
  <2>1. CASE out_q = <<>>
    BY <1>2, <2>1 DEF pub_pop, TypeOK, Handed, Stopping, InHand, OutQ!Pop
  <2>2. CASE out_q # <<>>
    <3>1. Head(out_q) \in OutMsg /\ Tail(out_q) \in Seq(OutMsg)
            /\ Len(Tail(out_q)) <= OutBound
      BY <2>2, PopTypes DEF TypeOK
    <3>2. Head(out_q).seq \in Nat
      BY <3>1 DEF OutMsg
    <3>3. CASE PubOpen /\ OutQ!Pop /\ pubpc' = "deliver" /\ UNCHANGED forgotten
      BY <1>2, <3>1, <3>3 DEF pub_pop, OutQ!Pop, PubOpen, TypeOK, Handed, Stopping, InHand
    <3>4. CASE /\ ~PubOpen /\ out_q' = Tail(out_q) /\ pubpc' = "check"
               /\ forgotten' = forgotten \cup {Head(out_q).seq} /\ UNCHANGED msg
      <4>1. TypeOK'
        <5>1. out_q' \in Seq(OutMsg) /\ Len(out_q') <= OutBound
          BY <3>1, <3>4
        <5>2. forgotten' \subseteq Nat
          BY <3>2, <3>4 DEF TypeOK
        <5>3. /\ pubpc' = "check"
              /\ UNCHANGED <<in_q, running, pub_running, pbatch, tape, msg, producer, core>>
          BY <1>2, <3>4 DEF pub_pop
        <5> QED
          BY <5>1, <5>2, <5>3 DEF TypeOK
      <4>2. Handed' /\ Stopping'
        BY <1>2, <3>4 DEF pub_pop, Handed, Stopping, InHand
      <4> QED
        BY <4>1, <4>2
    <3> QED
      BY <1>2, <2>2, <3>3, <3>4 DEF pub_pop
  <2> QED
    BY <2>1, <2>2
<1>3. CASE pub_drain
  <2>1. CASE out_q = <<>> /\ pubpc' = "exited" /\ UNCHANGED <<out_q, msg>>
    BY <1>3, <2>1 DEF pub_drain, TypeOK, Handed, Stopping, InHand
  <2>2. CASE OutQ!Pop /\ pubpc' = "last"
    <3>1. /\ msg' = Head(out_q) /\ out_q' = Tail(out_q)
          /\ msg' \in OutMsg /\ out_q' \in Seq(OutMsg) /\ Len(out_q') <= OutBound
      BY <2>2, PopTypes DEF TypeOK, OutQ!Pop
    <3> QED
      BY <1>3, <2>2, <3>1 DEF pub_drain, TypeOK, Handed, Stopping, InHand
  <2> QED
    BY <1>3, <2>1, <2>2 DEF pub_drain, DrainOne
<1>4. CASE pub_deliver
  <2>1. msg \in OutMsg /\ tape' = Append(tape, msg)
    BY <1>4 DEF pub_deliver, Handed, InHand, Record
  <2>2. tape' \in Seq(OutMsg)
    BY <2>1, PushTypes DEF TypeOK
  <2> QED
    BY <1>4, <2>2 DEF pub_deliver, TypeOK, Handed, Stopping, InHand
<1> QED
  BY <1>1, <1>2, <1>3, <1>4 DEF Publisher

(* Every step of the three threads keeps types and control.                *)
LEMMA NextControl == Control /\ [Next]_vars => Control'
<1> SUFFICES ASSUME Control, [Next]_vars PROVE Control'
  OBVIOUS
<1>1. CASE UNCHANGED vars
  BY <1>1 DEF vars, Control, TypeOK, Handed, Stopping, InHand
<1> QED
  BY <1>1, ProducerControl, CoreControl, PublisherControl DEF Next, Terminated

-----------------------------------------------------------------------------
(* What the steps do to the outbound stream: four of them touch it.        *)

Untouched == UNCHANGED <<out_q, tape, forgotten, seq, overruns>>
               /\ InHand' = InHand /\ (InHand = 1 => msg' = msg)

(* A trade of the current event enters the queue.                          *)
Pushed == /\ cpc = "apply" /\ cpc' = "apply" /\ cev' = cev
          /\ last_aggressor' = last_aggressor
          /\ seq' = seq + 1 /\ out_q' = Append(out_q, SinkMsg)
          /\ UNCHANGED <<pubpc, msg, pbatch, tape, forgotten, overruns>>

(* A trade of the current event meets a full queue.                        *)
Overrun == /\ cpc' = cpc /\ cev' = cev /\ last_aggressor' = last_aggressor
           /\ seq' = seq + 1 /\ overruns' = overruns + 1
           /\ UNCHANGED <<out_q, pubpc, msg, pbatch, tape, forgotten>>

(* The publisher takes a message to deliver it.                            *)
Taken == /\ out_q # <<>> /\ out_q' = Tail(out_q) /\ msg' = Head(out_q)
         /\ InHand = 0 /\ InHand' = 1 /\ InBatch' = InBatch
         /\ UNCHANGED <<cpc, cev, last_aggressor, seq, overruns, tape, forgotten>>

(* The publisher takes a message and forgets it.                           *)
Forgot == /\ out_q # <<>> /\ out_q' = Tail(out_q)
          /\ InHand = 0 /\ InHand' = 0
          /\ InBatch = PubBatch /\ InBatch' = 0
          /\ forgotten' = forgotten \cup {Head(out_q).seq}
          /\ UNCHANGED <<cpc, cev, last_aggressor, seq, overruns, tape>>

(* The publisher puts the message in hand on the tape.                     *)
Delivered == /\ InHand = 1 /\ InHand' = 0
             /\ tape' = Append(tape, msg)
             /\ InBatch' <= InBatch + 1
             /\ UNCHANGED <<cpc, cev, last_aggressor, seq, overruns, out_q, forgotten>>

(* Nothing on the way moves, but a batch or an event may begin or end.     *)
Elsewhere == Untouched /\ InBatch' <= InBatch
               /\ \/ UNCHANGED <<cpc, cev, last_aggressor>>
                  \/ cpc' # "apply"
                  \/ cpc' = "apply" /\ last_aggressor' = Aggressor(cev')

(* Every step is one of these six.                                         *)
LEMMA StepCases ==
    Control /\ [Next]_vars =>
      Elsewhere \/ Pushed \/ Overrun \/ Taken \/ Forgot \/ Delivered
<1> SUFFICES ASSUME Control, [Next]_vars
             PROVE  Elsewhere \/ Pushed \/ Overrun \/ Taken \/ Forgot \/ Delivered
  OBVIOUS
<1> USE BoundsAssumption DEF Control, TypeOK
<1>1. CASE Producer
  <2>1. /\ UNCHANGED <<out_q, tape, forgotten, seq, overruns, pubpc, msg, pbatch>>
        /\ UNCHANGED <<cpc, cev, last_aggressor>>
    BY <1>1 DEF Producer, generate, producer_push, producer_exit, InQ!Push, core, publisher
  <2> QED
    BY <2>1 DEF Elsewhere, Untouched, InHand, InBatch
<1>2. CASE core_pop
  <2>1. UNCHANGED <<out_q, tape, forgotten, seq, overruns, pubpc, msg, pbatch>>
    BY <1>2 DEF core_pop, publisher
  <2>2. cpc' = "apply" => last_aggressor' = Aggressor(cev')
    BY <1>2 DEF core_pop
  <2> QED
    BY <2>1, <2>2 DEF Elsewhere, Untouched, InHand, InBatch
<1>3. CASE core_trade
  BY <1>3 DEF core_trade, OutQ!Push, Pushed, Overrun, CountOverrun
<1>4. CASE core_applied \/ core_keys \/ core_join \/ core_stop \/ core_join_pub
  <2>1. /\ UNCHANGED <<out_q, tape, forgotten, seq, overruns, pubpc, msg, pbatch>>
        /\ cpc' # "apply"
    BY <1>4 DEF core_applied, core_keys, core_join, core_stop, core_join_pub, publisher
  <2> QED
    BY <2>1 DEF Elsewhere, Untouched, InHand, InBatch
<1>5. CASE pub_check
  <2>1. /\ UNCHANGED <<out_q, tape, forgotten, seq, overruns, msg, cpc, cev, last_aggressor>>
        /\ pbatch' = 0 /\ pubpc = "check" /\ pubpc' \in {"poll", "drain"}
    BY <1>5 DEF pub_check, core
  <2> QED
    BY <2>1 DEF Elsewhere, Untouched, InHand, InBatch
<1>6. CASE pub_pop
  <2>1. /\ UNCHANGED <<tape, seq, overruns, cpc, cev, last_aggressor, pbatch>>
        /\ pubpc = "poll"
    BY <1>6 DEF pub_pop, core
  <2>2. CASE out_q = <<>>
    BY <1>6, <2>1, <2>2 DEF pub_pop, OutQ!Pop, Elsewhere, Untouched, InHand, InBatch
  <2>3. CASE out_q # <<>> /\ PubOpen
    BY <1>6, <2>1, <2>3 DEF pub_pop, OutQ!Pop, Taken, InHand, InBatch
  <2>4. CASE out_q # <<>> /\ ~PubOpen
    BY <1>6, <2>1, <2>4 DEF pub_pop, PubOpen, Forgot, InHand, InBatch
  <2> QED
    BY <2>2, <2>3, <2>4
<1>7. CASE pub_drain
  <2>1. /\ UNCHANGED <<tape, seq, overruns, cpc, cev, last_aggressor, pbatch, forgotten>>
        /\ pubpc = "drain"
    BY <1>7 DEF pub_drain, core
  <2> QED
    BY <1>7, <2>1 DEF pub_drain, DrainOne, OutQ!Pop, Elsewhere, Untouched, Taken,
                      InHand, InBatch
<1>8. CASE pub_deliver
  <2>1. /\ UNCHANGED <<seq, overruns, cpc, cev, last_aggressor, out_q, forgotten>>
        /\ tape' = Append(tape, msg)
        /\ \/ pubpc = "deliver" /\ pubpc' = "poll" /\ pbatch' = pbatch + 1
           \/ pubpc = "last" /\ pubpc' = "drain" /\ UNCHANGED pbatch
    BY <1>8 DEF pub_deliver, Record, core
  <2> QED
    BY <2>1 DEF Delivered, InHand, InBatch
<1>9. CASE UNCHANGED vars
  BY <1>9 DEF vars, Elsewhere, Untouched, InHand, InBatch
<1> QED
  BY <1>1, <1>2, <1>3, <1>4, <1>5, <1>6, <1>7, <1>8, <1>9
     DEF Next, Core, Publisher, Terminated

-----------------------------------------------------------------------------
(* The stream in order, the sides and the losses. *)

(* The elements of a queue after a push and after a pop.                   *)
LEMMA PushItems ==
    ASSUME NEW S, NEW s \in Seq(S), NEW x \in S
    PROVE  /\ Len(Append(s, x)) = Len(s) + 1
           /\ \A j \in 1 .. Len(s) : Append(s, x)[j] = s[j]
           /\ Append(s, x)[Len(s) + 1] = x
BY AppendProperties

(* What a pop takes and what it leaves.                                    *)
LEMMA PopItems ==
    ASSUME NEW S, NEW s \in Seq(S), s # <<>>
    PROVE  /\ Len(s) \in Nat \ {0} /\ Head(s) = s[1]
           /\ Len(Tail(s)) = Len(s) - 1
           /\ \A j \in 1 .. Len(Tail(s)) : Tail(s)[j] = s[j + 1]
BY HeadTailProperties, EmptySeq

(* The sequence numbers on the way are natural numbers.                    *)
LEMMA SeqTypes ==
    Control => /\ Len(tape) \in Nat /\ Len(out_q) \in Nat
               /\ \A i \in 1 .. Len(tape) : tape[i] \in OutMsg /\ tape[i].seq \in Nat
               /\ \A j \in 1 .. Len(out_q) : out_q[j] \in OutMsg /\ out_q[j].seq \in Nat
               /\ InHand = 1 => msg \in OutMsg /\ msg.seq \in Nat
               /\ seq \in Nat /\ forgotten \subseteq Nat
               /\ cpc = "apply" => SinkMsg \in OutMsg /\ SinkMsg.seq = seq
<1> SUFFICES ASSUME Control PROVE
      /\ Len(tape) \in Nat /\ Len(out_q) \in Nat
      /\ \A i \in 1 .. Len(tape) : tape[i] \in OutMsg
      /\ \A j \in 1 .. Len(out_q) : out_q[j] \in OutMsg
      /\ InHand = 1 => msg \in OutMsg
      /\ seq \in Nat /\ forgotten \subseteq Nat
      /\ cpc = "apply" => SinkMsg \in OutMsg /\ SinkMsg.seq = seq
  BY DEF OutMsg
<1>1. tape \in Seq(OutMsg) /\ out_q \in Seq(OutMsg)
  BY DEF Control, TypeOK
<1>2. cpc = "apply" => SinkMsg \in OutMsg /\ SinkMsg.seq = seq
  BY DEF Control, TypeOK, Handed, SinkMsg, OutMsg
<1> QED
  BY <1>1, <1>2, ElementOfSeq, LenProperties DEF Control, TypeOK, Handed

(* Every step keeps the trades in order.                                   *)
LEMMA NextOrder == Control /\ InOrder /\ [Next]_vars => InOrder'
<1> SUFFICES ASSUME Control, InOrder, [Next]_vars PROVE InOrder'
  OBVIOUS
<1> USE SeqTypes DEF InOrder, Increasing
<1>0. tape \in Seq(OutMsg) /\ out_q \in Seq(OutMsg)
  BY DEF Control, TypeOK
<1>1. CASE Elsewhere
  BY <1>1 DEF Elsewhere, Untouched
<1>2. CASE Pushed
  <2>1. /\ Len(out_q') = Len(out_q) + 1
        /\ \A j \in 1 .. Len(out_q) : out_q'[j] = out_q[j]
        /\ out_q'[Len(out_q) + 1].seq = seq
    BY <1>0, <1>2, PushItems DEF Pushed
  <2>2. InHand' = InHand
    BY <1>2 DEF Pushed, InHand
  <2> QED
    BY <1>2, <2>1, <2>2 DEF Pushed
<1>3. CASE Overrun
  <2>1. InHand' = InHand
    BY <1>3 DEF Overrun, InHand
  <2> QED
    BY <1>3, <2>1 DEF Overrun
<1>4. CASE Taken \/ Forgot
  <2>1. /\ Len(out_q) \in Nat \ {0} /\ Head(out_q) = out_q[1]
        /\ Len(out_q') = Len(out_q) - 1
        /\ \A j \in 1 .. Len(out_q') : out_q'[j] = out_q[j + 1]
    BY <1>0, <1>4, PopItems DEF Taken, Forgot
  <2>2. CASE Taken
    BY <2>1, <2>2 DEF Taken
  <2>3. CASE Forgot
    <3>1. /\ forgotten' = forgotten \cup {out_q[1].seq} /\ InHand' = 0
          /\ tape' = tape /\ seq' = seq
      BY <2>1, <2>3 DEF Forgot
    <3>2. \A j \in 1 .. Len(out_q') :
            j + 1 \in 1 .. Len(out_q) /\ 1 < j + 1 /\ out_q'[j] = out_q[j + 1]
      BY <2>1
    <3>3. ASSUME NEW i \in 1 .. Len(out_q'), NEW j \in 1 .. Len(out_q'), i < j
          PROVE  out_q'[i].seq < out_q'[j].seq
      <4>1. i + 1 \in 1 .. Len(out_q) /\ j + 1 \in 1 .. Len(out_q) /\ i + 1 < j + 1
        BY <3>2, <3>3
      <4>2. out_q[i + 1].seq < out_q[j + 1].seq
        BY <4>1
      <4> QED
        BY <3>2, <4>2
    <3>4. ASSUME NEW n \in forgotten'
          PROVE  n < seq' /\ \A j \in 1 .. Len(out_q') : n < out_q'[j].seq
      <4>1. CASE n \in forgotten
        BY <3>1, <3>2, <4>1
      <4>2. CASE n = out_q[1].seq
        <5>1. 1 \in 1 .. Len(out_q)
          BY <2>1
        <5>2. \A j \in 1 .. Len(out_q) : 1 < j => n < out_q[j].seq
          BY <4>2, <5>1
        <5>3. n < seq
          BY <4>2, <5>1
        <5> QED
          BY <3>1, <3>2, <5>2, <5>3
      <4> QED
        BY <3>1, <4>1, <4>2
    <3>5. /\ \A i \in 1 .. Len(tape), j \in 1 .. Len(out_q') : tape[i].seq < out_q'[j].seq
          /\ \A j \in 1 .. Len(out_q') : out_q'[j].seq < seq
      BY <3>2
    <3> QED
      BY <3>1, <3>3, <3>4, <3>5
  <2> QED
    BY <1>4, <2>2, <2>3
<1>5. CASE Delivered
  <2>1. /\ Len(tape') = Len(tape) + 1
        /\ \A j \in 1 .. Len(tape) : tape'[j] = tape[j]
        /\ tape'[Len(tape) + 1] = msg
    BY <1>0, <1>5, PushItems DEF Delivered
  <2> QED
    BY <1>5, <2>1 DEF Delivered
<1> QED
  BY <1>1, <1>2, <1>3, <1>4, <1>5, StepCases

(* Every step keeps the sides of the trades.                               *)
LEMMA NextSides == Control /\ SidesTrue /\ [Next]_vars => SidesTrue'
<1> SUFFICES ASSUME Control, SidesTrue, [Next]_vars PROVE SidesTrue'
  OBVIOUS
<1> USE SeqTypes DEF SidesTrue, TrueSide
<1>0. tape \in Seq(OutMsg) /\ out_q \in Seq(OutMsg)
  BY DEF Control, TypeOK
<1>1. CASE Elsewhere
  BY <1>1 DEF Elsewhere, Untouched, Aggressor
<1>2. CASE Pushed
  <2>1. /\ Len(out_q') = Len(out_q) + 1
        /\ \A j \in 1 .. Len(out_q) : out_q'[j] = out_q[j]
        /\ out_q'[Len(out_q) + 1] = SinkMsg
    BY <1>0, <1>2, PushItems DEF Pushed
  <2>2. TrueSide(SinkMsg) /\ InHand' = InHand
    BY <1>2 DEF Pushed, SinkMsg, InHand
  <2> QED
    BY <1>2, <2>1, <2>2 DEF Pushed
<1>3. CASE Overrun
  <2>1. InHand' = InHand
    BY <1>3 DEF Overrun, InHand
  <2> QED
    BY <1>3, <2>1 DEF Overrun
<1>4. CASE Taken \/ Forgot
  <2>1. /\ Len(out_q) \in Nat \ {0} /\ Head(out_q) = out_q[1]
        /\ Len(out_q') = Len(out_q) - 1
        /\ \A j \in 1 .. Len(out_q') : out_q'[j] = out_q[j + 1]
    BY <1>0, <1>4, PopItems DEF Taken, Forgot
  <2>2. \A j \in 1 .. Len(out_q') : TrueSide(out_q'[j])
    <3> SUFFICES ASSUME NEW j \in 1 .. Len(out_q') PROVE TrueSide(out_q'[j])
      OBVIOUS
    <3>1. j + 1 \in 1 .. Len(out_q) /\ out_q'[j] = out_q[j + 1]
      BY <2>1
    <3>2. TrueSide(out_q[j + 1])
      BY <3>1
    <3> QED
      BY <3>1, <3>2
  <2>3. CASE Taken
    BY <2>1, <2>2, <2>3 DEF Taken
  <2>4. CASE Forgot
    BY <2>2, <2>4 DEF Forgot
  <2> QED
    BY <1>4, <2>3, <2>4
<1>5. CASE Delivered
  <2>1. /\ Len(tape') = Len(tape) + 1
        /\ \A j \in 1 .. Len(tape) : tape'[j] = tape[j]
        /\ tape'[Len(tape) + 1] = msg
    BY <1>0, <1>5, PushItems DEF Delivered
  <2> QED
    BY <1>5, <2>1 DEF Delivered
<1> QED
  BY <1>1, <1>2, <1>3, <1>4, <1>5, StepCases

(* Every step accounts for every trade.                                    *)
LEMMA NextAccounted == Control /\ InOrder /\ Accounted /\ [Next]_vars => Accounted'
<1> SUFFICES ASSUME Control, InOrder, Accounted, [Next]_vars PROVE Accounted'
  OBVIOUS
<1> DEFINE lost == Cardinality(forgotten)
<1> USE BoundsAssumption DEF Accounted
<1>0. /\ tape \in Seq(OutMsg) /\ out_q \in Seq(OutMsg)
      /\ Len(tape) \in Nat /\ Len(out_q) \in Nat /\ seq \in Nat /\ overruns \in Nat
      /\ lost \in Nat /\ InHand \in 0 .. 1 /\ InBatch \in Nat /\ InBatch' \in Nat
      /\ PubBatch * lost \in Nat
  <2>1. InBatch \in Nat /\ InBatch' \in Nat
    BY NextControl DEF Control, TypeOK, InBatch
  <2>2. lost \in Nat
    BY FS_CardinalityType
  <2>3. PubBatch * lost \in Nat
    BY <2>2
  <2>4. InHand \in 0 .. 1
    BY DEF InHand
  <2> HIDE DEF lost
  <2> QED
    BY <2>1, <2>2, <2>3, <2>4, SeqTypes DEF Control, TypeOK
<1>1. CASE Elsewhere
  BY <1>0, <1>1 DEF Elsewhere, Untouched
<1>2. CASE Pushed
  <2>1. Len(out_q') = Len(out_q) + 1
    BY <1>0, <1>2, SeqTypes, PushItems DEF Pushed
  <2>2. InHand' = InHand /\ InBatch' = InBatch
    BY <1>2 DEF Pushed, InHand, InBatch
  <2> QED
    BY <1>0, <1>2, <2>1, <2>2 DEF Pushed
<1>3. CASE Overrun
  <2>1. InHand' = InHand /\ InBatch' = InBatch
    BY <1>3 DEF Overrun, InHand, InBatch
  <2> QED
    BY <1>0, <1>3, <2>1 DEF Overrun
<1>4. CASE Taken
  <2>1. Len(out_q') = Len(out_q) - 1
    BY <1>0, <1>4, PopItems DEF Taken
  <2> QED
    BY <1>0, <1>4, <2>1 DEF Taken
<1>5. CASE Forgot
  <2>1. Len(out_q) \in Nat \ {0} /\ Head(out_q) = out_q[1] /\ Len(out_q') = Len(out_q) - 1
    BY <1>0, <1>5, PopItems DEF Forgot
  <2>2. Head(out_q).seq \notin forgotten
    BY <2>1, SeqTypes DEF InOrder
  <2>3. IsFiniteSet(forgotten') /\ Cardinality(forgotten') = lost + 1
    BY <1>5, <2>2, FS_AddElement DEF Forgot
  <2>4. PubBatch * (lost + 1) = PubBatch * lost + PubBatch
    BY <1>0
  <2>5. PubBatch * Cardinality(forgotten') = PubBatch * lost + PubBatch
    BY <2>3, <2>4
  <2>6. PubBatch * Cardinality(forgotten') + InBatch' <= Len(tape')
    <3>1. InBatch = PubBatch /\ InBatch' = 0 /\ tape' = tape
      BY <1>5 DEF Forgot
    <3>2. PubBatch * lost + PubBatch <= Len(tape)
      BY <3>1
    <3> QED
      BY <1>0, <2>5, <3>1, <3>2
  <2>7. seq' = Len(tape') + InHand' + Len(out_q') + overruns' + Cardinality(forgotten')
    BY <1>0, <1>5, <2>1, <2>3 DEF Forgot
  <2> QED
    BY <2>3, <2>6, <2>7
<1>6. CASE Delivered
  <2>1. Len(tape') = Len(tape) + 1
    BY <1>0, <1>6, SeqTypes, PushItems DEF Delivered
  <2>2. seq' = Len(tape') + InHand' + Len(out_q') + overruns' + Cardinality(forgotten')
    BY <1>0, <1>6, <2>1 DEF Delivered
  <2>3. PubBatch * Cardinality(forgotten') + InBatch' <= Len(tape')
    <3> DEFINE b == PubBatch * lost
    <3>1. InBatch' <= InBatch + 1 /\ PubBatch * Cardinality(forgotten') = b
      BY <1>6 DEF Delivered
    <3>2. b \in Nat /\ b + InBatch <= Len(tape)
      BY <1>0
    <3> HIDE DEF b, lost
    <3> QED
      BY <1>0, <2>1, <3>1, <3>2
  <2>4. IsFiniteSet(forgotten')
    BY <1>6 DEF Delivered
  <2> QED
    BY <2>2, <2>3, <2>4
<1> QED
  BY <1>1, <1>2, <1>3, <1>4, <1>5, <1>6, StepCases

-----------------------------------------------------------------------------
(* The pipeline is sound: the inductive invariant holds in every state of  *)
(* the three threads, for every queue size and batch limit.                *)
THEOREM PipelineSafety == Spec => []PipelineInv
<1>1. PipelineInv /\ [Next]_vars => PipelineInv'
  BY NextControl, NextOrder, NextSides, NextAccounted DEF PipelineInv, Control
<1> QED
  BY <1>1, InitInv, PTL DEF Spec

(* Queues, counters and messages keep their types and bounds.              *)
THEOREM TypeCorrect == Spec => []TypeOK
BY PipelineSafety, PTL DEF PipelineInv

(* When main has joined its threads, no message is left in the outbound    *)
(* queue or in the hands of the publisher.                                 *)
THEOREM Drained == Spec => []DrainedAtExit
<1>1. PipelineInv => DrainedAtExit
  BY DEF PipelineInv, Stopping, DrainedAtExit, InHand
<1> QED
  BY <1>1, PipelineSafety, PTL

(* Trades are lost to overruns and, one after every PubBatch that were     *)
(* delivered, to full batches of Publisher::run; never otherwise.          *)
THEOREM LossIsBounded == Spec => []LossBounded
<1>1. PipelineInv => LossBounded
  <2> SUFFICES ASSUME PipelineInv PROVE LossBounded
    OBVIOUS
  <2>1. /\ Cardinality(forgotten) \in Nat /\ InBatch \in Nat /\ Len(tape) \in Nat
        /\ PubBatch * Cardinality(forgotten) \in Nat
    BY FS_CardinalityType, SeqTypes, BoundsAssumption
       DEF PipelineInv, Accounted, Control, TypeOK, InBatch
  <2> QED
    BY <2>1 DEF PipelineInv, Accounted, LossBounded
<1> QED
  BY <1>1, PipelineSafety, PTL

(* A trade of an ADD is published with the side of that order.             *)
THEOREM SidesPublished == Spec => []AggressorSide
<1>1. PipelineInv => AggressorSide
  BY DEF PipelineInv, SidesTrue, TrueSide, AggressorSide
<1> QED
  BY <1>1, PipelineSafety, PTL

(* Trades reach the tape in execution order, none twice.                   *)
THEOREM TapeOrdered == Spec => []TapeInOrder
<1>1. PipelineInv => TapeInOrder
  <2> SUFFICES ASSUME PipelineInv PROVE TapeInOrder
    OBVIOUS
  <2> DEFINE hand == IF InHand = 1 THEN <<msg>> ELSE <<>>
             front == tape \o hand
             stream == front \o out_q
  <2>1. /\ tape \in Seq(OutMsg) /\ out_q \in Seq(OutMsg) /\ hand \in Seq(OutMsg)
        /\ Len(hand) = InHand /\ (InHand = 1 => hand[1] = msg) /\ InHand \in 0 .. 1
    BY DEF PipelineInv, TypeOK, Handed, InHand
  <2> HIDE DEF hand
  <2>2. /\ front \in Seq(OutMsg) /\ Len(front) = Len(tape) + InHand
        /\ \A i \in 1 .. Len(front) :
              front[i] = IF i <= Len(tape) THEN tape[i] ELSE hand[i - Len(tape)]
    BY <2>1, ConcatProperties
  <2> HIDE DEF front
  <2>3. /\ Len(stream) = Len(front) + Len(out_q)
        /\ \A i \in 1 .. Len(front) + Len(out_q) :
              stream[i] = IF i <= Len(front) THEN front[i] ELSE out_q[i - Len(front)]
    <3>1. front \in Seq(OutMsg) /\ out_q \in Seq(OutMsg)
      BY <2>1, <2>2
    <3> QED
      BY <3>1, ConcatProperties
  <2>4. \A i \in 1 .. Len(stream) :
          \/ i \in 1 .. Len(tape) /\ stream[i] = tape[i]
          \/ InHand = 1 /\ i = Len(tape) + 1 /\ stream[i] = msg
          \/ i - (Len(tape) + InHand) \in 1 .. Len(out_q)
                /\ stream[i] = out_q[i - (Len(tape) + InHand)]
    BY <2>1, <2>2, <2>3, SeqTypes DEF PipelineInv, Control
  <2>5. Len(stream) \in Nat /\ Len(tape) \in Nat /\ Len(out_q) \in Nat
    BY <2>1, <2>2, <2>3, SeqTypes DEF PipelineInv, Control
  <2> HIDE DEF stream
  <2>6. ASSUME NEW i \in 1 .. Len(stream) PROVE stream[i].seq < seq
    BY <2>4 DEF PipelineInv, InOrder
  <2>7. ASSUME NEW i \in 1 .. Len(stream), NEW j \in 1 .. Len(stream), i < j
        PROVE  stream[i].seq < stream[j].seq
    <3>1. CASE i \in 1 .. Len(tape) /\ stream[i] = tape[i]
      BY <2>1, <2>4, <2>5, <2>7, <3>1 DEF PipelineInv, InOrder, Increasing
    <3>2. CASE InHand = 1 /\ i = Len(tape) + 1 /\ stream[i] = msg
      <4>1. j - (Len(tape) + InHand) \in 1 .. Len(out_q)
              /\ stream[j] = out_q[j - (Len(tape) + InHand)]
        BY <2>4, <2>5, <2>7, <3>2
      <4> QED
        BY <3>2, <4>1 DEF PipelineInv, InOrder
    <3>3. CASE i - (Len(tape) + InHand) \in 1 .. Len(out_q)
                /\ stream[i] = out_q[i - (Len(tape) + InHand)]
      <4>1. j - (Len(tape) + InHand) \in 1 .. Len(out_q)
              /\ stream[j] = out_q[j - (Len(tape) + InHand)]
        <5>1. i \in Nat /\ j \in Nat /\ InHand \in Nat /\ j > Len(tape) + InHand
          BY <2>1, <2>5, <2>7, <3>3
        <5> QED
          BY <2>4, <2>5, <5>1
      <4> QED
        BY <2>1, <2>5, <2>7, <3>3, <4>1 DEF PipelineInv, InOrder, Increasing
    <3> QED
      BY <2>4, <3>1, <3>2, <3>3
  <2> QED
    BY <2>6, <2>7 DEF TapeInOrder, stream, front, hand
<1> QED
  BY <1>1, PipelineSafety, PTL

=============================================================================
