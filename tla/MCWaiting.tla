------------------------------- MODULE MCWaiting -------------------------------
(***************************************************************************)
(* Flows with messages waiting, for TLC: what wakes a flow that has        *)
(* something to send (UdpFlows), for two of which one may have any number  *)
(* of messages waiting; the pointers the round robin is kept in            *)
(* (PendingList), for four flows on two transports; and the flow of a sink,*)
(* which waits for a pipe in the middle of a message (SinkStream).  Each is*)
(* explored from initial states of its own.                                *)
(***************************************************************************)
EXTENDS UdpFlows, TLC

CONSTANTS f1, f2, f3, f4, LinkedFlow, Transport, NoTransport, MovesWaiting,
          SinkLimit, MinSize, MaxSize, Lengths, PipeSize, Modulus, MaxWaiting

\* MIN_SIZE holds the length, of two bytes, that a message starts with.
ASSUME SinkAssumption ==
  /\ MinSize \in Nat /\ MinSize >= 2 /\ MaxSize \in Nat
  /\ Lengths \subseteq MinSize..MaxSize
  /\ PipeSize \in Nat
  /\ Modulus \in Nat \ {0}

TwoFlows == {f1, f2}
FourFlows == {f1, f2, f3, f4}
LimitOneNone == f1 :> 1 @@ f2 :> -1

VARIABLES part,
          head, tail, current, nextOf, prevOf, on,
          open, notify, buffer, msgIndex, sinkOn, sinkTimer, sinkPending, sinkOff, sinkServing,
          sent, disturbed, pipe, input, rxLength, rxBytes, expected, sound

Lists == INSTANCE PendingList WITH Flow <- LinkedFlow

Sink == INSTANCE SinkStream WITH
  QueueLimit <- SinkLimit, MaxPending <- MaxWaiting,
  on <- sinkOn, txTimer <- sinkTimer, pendingMessages <- sinkPending, offPending <- sinkOff,
  serving <- sinkServing

lists == <<head, tail, current, nextOf, prevOf, on>>
sink == <<open, notify, buffer, msgIndex, sinkOn, sinkTimer, sinkPending, sinkOff, sinkServing,
          sent, disturbed, pipe, input, rxLength, rxBytes, expected, sound>>

MCInit == part \in {"flows", "pointers", "sink"} /\ Init /\ Lists!Init /\ Sink!Init

Flows == part = "flows" /\ Next /\ UNCHANGED <<part, lists, sink>>
Pointers == part = "pointers" /\ Lists!Next /\ UNCHANGED <<part, vars, sink>>
Sinking == part = "sink" /\ Sink!Next /\ UNCHANGED <<part, vars, lists>>

MCSpec ==
  /\ MCInit
  /\ [][Flows \/ Pointers \/ Sinking]_<<part, vars, lists, sink>>
  /\ part = "sink" => Sink!Fairness

\* The pointers of the pending lists keep one round robin per transport.
RefinesQueues == Lists!RefinesQueues

\* The source handles the messages the sink took, each whole and once, in order.
Framed == Sink!Framed

\* Every message the sink has taken arrives, though the rest of it may be left
\* in the buffer without a notification.
Arrives == Sink!Arrives
================================================================================
