---------------------------- MODULE PendingQueues -----------------------------
(***************************************************************************)
(* What the pending lists of all transports promise: each one is a round   *)
(* robin of PendingQueue of its own, and a flow waits in the one of the    *)
(* transport it is on.  PendingList is the linked list that implements it. *)
(***************************************************************************)
EXTENDS PendingQueue

CONSTANTS Transport,     \* the transports of one mgen process
          NoTransport    \* a flow that is off

VARIABLES queue,  \* of each transport
          on      \* flow_transport of each flow

Init ==
  /\ queue = [t \in Transport |-> EmptyQueue]
  /\ on = [f \in Flow |-> NoTransport]

\* ON: of a flow that is off.
On(f, t) ==
  /\ on[f] = NoTransport
  /\ on' = [on EXCEPT ![f] = t]
  /\ UNCHANGED queue

\* The flow has a message, or an OFF, to wait for the transport with.
Wait(f) ==
  /\ on[f] # NoTransport
  /\ queue' = [queue EXCEPT ![on[f]] = AppendFlow(@, f)]
  /\ UNCHANGED on

\* The flow leaves its transport, and is off or on another one.
Leave(f, t) ==
  /\ on[f] # NoTransport
  /\ queue' = [queue EXCEPT ![on[f]] = RemoveFlow(@, f)]
  /\ on' = [on EXCEPT ![f] = t]

\* The transport is done with the flow at the cursor, for good or for now.
Serve(t) ==
  /\ queue[t].cur # NoFlow
  /\ queue' = [queue EXCEPT ![t] = RemoveFromPendingList(@)]
     \/ queue' = [queue EXCEPT ![t] = Advance(@)]
  /\ UNCHANGED on

Next ==
  \/ \E f \in Flow :
       \/ Wait(f)
       \/ \E t \in Transport : On(f, t)
       \/ \E t \in Transport \cup {NoTransport} : Leave(f, t)
  \/ \E t \in Transport : Serve(t)

Spec == Init /\ [][Next]_<<queue, on>>
================================================================================
