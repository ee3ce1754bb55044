----------------------------- MODULE PendingList ------------------------------
(***************************************************************************)
(* The pending list of each MgenTransport as the code keeps it: doubly     *)
(* linked through the two pointers every MgenFlow has, which all the       *)
(* transports share, with a head, a tail and a cursor per transport.  A    *)
(* flow with a message to send may be at the cursor in any state of its    *)
(* backlog here: whether it stays is UdpFlows' to say.                     *)
(***************************************************************************)
EXTENDS Integers, Sequences, FiniteSets

CONSTANTS Flow, NoFlow,            \* the flows, finitely many, and NULL
          Transport, NoTransport,  \* the transports, and NULL
          MovesWaiting             \* MODs change the SRC of flows that wait, too

VARIABLES head, tail, current,  \* pending_head, _tail and _current
          nextOf, prevOf,       \* pending_next and pending_prev
          on                    \* flow_transport

cursors == <<head, tail, current>>
links == <<nextOf, prevOf>>
vars == <<cursors, links, on>>

Pointer == Flow \cup {NoFlow}

TypeOK ==
  /\ head \in [Transport -> Pointer]
  /\ tail \in [Transport -> Pointer]
  /\ current \in [Transport -> Pointer]
  /\ \A t \in Transport : current[t] = NoFlow <=> head[t] = NoFlow
  /\ nextOf \in [Flow -> Pointer]
  /\ prevOf \in [Flow -> Pointer]
  /\ on \in [Flow -> Transport \cup {NoTransport}]

Init ==
  /\ head = [t \in Transport |-> NoFlow]
  /\ tail = [t \in Transport |-> NoFlow]
  /\ current = [t \in Transport |-> NoFlow]
  /\ nextOf = [f \in Flow |-> NoFlow]
  /\ prevOf = [f \in Flow |-> NoFlow]
  /\ on = [f \in Flow |-> NoTransport]

\* The flows that the loop of RemoveFlow comes by, from the head on.
Walk(t) ==
  LET at[n \in 1..Cardinality(Flow)] ==
        IF n = 1 THEN head[t]
        ELSE IF at[n - 1] = NoFlow THEN NoFlow ELSE nextOf[at[n - 1]]
      length == Cardinality({n \in DOMAIN at : at[n] # NoFlow})
  IN [n \in 1..length |-> at[n]]

Listed(t) == {Walk(t)[n] : n \in DOMAIN Walk(t)}

\* The flow before f in the list of t, NULL for the head.
Before(t, f) ==
  LET w == Walk(t)
      n == CHOOSE i \in DOMAIN w : w[i] = f /\ \A j \in 1..(i - 1) : w[j] # f
  IN IF n = 1 THEN NoFlow ELSE w[n - 1]

\* Mutant: the test that the flow is not the tail is left out.
AppendTailAgain(t, f) ==
  IF head[t] = NoFlow
  THEN /\ head' = [head EXCEPT ![t] = f]
       /\ tail' = [tail EXCEPT ![t] = f]
       /\ current' = [current EXCEPT ![t] = f]
       /\ nextOf' = [nextOf EXCEPT ![f] = NoFlow]
       /\ UNCHANGED prevOf
  ELSE IF nextOf[f] = NoFlow
  THEN /\ nextOf' = [nextOf EXCEPT ![tail[t]] = f, ![f] = NoFlow]
       /\ prevOf' = [prevOf EXCEPT ![f] = tail[t]]
       /\ tail' = [tail EXCEPT ![t] = f]
       /\ UNCHANGED <<head, current>>
  ELSE UNCHANGED <<cursors, links>>

\* A flow is known to be in the list by its next, or by being the tail.
AppendFlow(t, f) ==
  IF head[t] = NoFlow
  THEN /\ head' = [head EXCEPT ![t] = f]
       /\ tail' = [tail EXCEPT ![t] = f]
       /\ current' = [current EXCEPT ![t] = f]
       /\ nextOf' = [nextOf EXCEPT ![f] = NoFlow]
       /\ UNCHANGED prevOf
  ELSE IF nextOf[f] = NoFlow /\ tail[t] # f
  THEN /\ nextOf' = [nextOf EXCEPT ![tail[t]] = f, ![f] = NoFlow]
       /\ prevOf' = [prevOf EXCEPT ![f] = tail[t]]
       /\ tail' = [tail EXCEPT ![t] = f]
       /\ UNCHANGED <<head, current>>
  ELSE UNCHANGED <<cursors, links>>

\* Take f out from between b and its next.
Unlink(f, b, back) ==
  /\ nextOf' = [g \in Flow |-> IF g = f THEN NoFlow
                               ELSE IF g = b THEN nextOf[f] ELSE nextOf[g]]
  /\ prevOf' = [g \in Flow |-> IF g = f THEN NoFlow
                               ELSE IF g = nextOf[f] THEN back ELSE prevOf[g]]

\* The tail stays where it is when the only flow is removed.
RemoveFlow(t, f) ==
  LET b      == Before(t, f)
      isTail == b # NoFlow /\ tail[t] = f
  IN IF f \notin Listed(t) THEN UNCHANGED <<cursors, links>>
     ELSE /\ head' = [head EXCEPT ![t] = IF b = NoFlow THEN nextOf[f] ELSE @]
          /\ tail' = [tail EXCEPT ![t] = IF isTail THEN b ELSE @]
          /\ current' = [current EXCEPT ![t] = IF isTail THEN head[t]
                                               ELSE IF @ = f THEN nextOf[f] ELSE @]
          /\ Unlink(f, b, IF b = NoFlow THEN NoFlow ELSE prevOf[f])

\* The flow at the cursor leaves the list; the one before it is found by its
\* pointer here, not by a walk.
RemoveFromPendingList(t) ==
  LET f == current[t]
      n == nextOf[f]
      p == prevOf[f]
  IN /\ head' = [head EXCEPT ![t] = IF p = NoFlow THEN n ELSE @]
     /\ tail' = [tail EXCEPT ![t] = IF n = NoFlow THEN p ELSE @]
     /\ current' = [current EXCEPT ![t] = IF n # NoFlow THEN n ELSE head'[t]]
     /\ Unlink(f, p, p)

\* The cursor moves on, from the tail to the head.
Advance(t) ==
  /\ current' = [current EXCEPT ![t] =
                   IF nextOf[@] # NoFlow THEN nextOf[@] ELSE head[t]]
  /\ UNCHANGED <<head, tail, links>>

-------------------------------------------------------------------------------
\* ON of a flow that is off.
On(f, t) ==
  /\ on[f] = NoTransport
  /\ on' = [on EXCEPT ![f] = t]
  /\ UNCHANGED <<cursors, links>>

\* SendMessage and OnTxTimeout, for a message that cannot be sent yet, and
\* Update for an OFF that has to wait.
Wait(f) ==
  /\ on[f] # NoTransport
  /\ AppendFlow(on[f], f)
  /\ UNCHANGED on

\* StopFlow; DoOnEvent, when an ON comes before the flow has completed its OFF
\* and has another SRC, or another DST, for which the flow stays on (t = on[f]).
Leave(f, t) ==
  /\ on[f] # NoTransport
  /\ RemoveFlow(on[f], f)
  /\ on' = [on EXCEPT ![f] = t]

\* DoModEvent with another SRC: the flow stays in the list it is in.
ModSource(f, t) ==
  /\ on[f] \notin {NoTransport, t}
  /\ f \in Listed(on[f]) => MovesWaiting
  /\ on' = [on EXCEPT ![f] = t]
  /\ UNCHANGED <<cursors, links>>

\* An iteration of SendPendingMessage that does not fail to send.
Serve(t) ==
  /\ current[t] # NoFlow
  /\ RemoveFromPendingList(t) \/ Advance(t)
  /\ UNCHANGED on

Next ==
  \/ \E f \in Flow :
       \/ Wait(f)
       \/ \E t \in Transport : On(f, t) \/ ModSource(f, t)
       \/ \E t \in Transport \cup {NoTransport} : Leave(f, t)
  \/ \E t \in Transport : Serve(t)

Spec == Init /\ [][Next]_vars

-------------------------------------------------------------------------------
(* Properties.                                                             *)

\* The pointers of AppendFlow, RemoveFlow, RemoveFromPendingList and
\* SendPendingMessage implement, for every transport at once, the round robin
\* that PendingQueue describes.
Abstract ==
  INSTANCE PendingQueues
    WITH queue <- [t \in Transport |-> [list |-> Walk(t), cur |-> current[t]]]
RefinesQueues == Abstract!Spec

\* A flow waits in the list of the transport it sends on, and in no other one: a
\* MOD that changes the SRC does not see to it (MovesWaiting).
OwnList == \A t \in Transport : \A f \in Listed(t) : on[f] = t
================================================================================
