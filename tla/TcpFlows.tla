------------------------------- MODULE TcpFlows -------------------------------
(***************************************************************************)
(* Flows that send to the same destination over TCP share one connection   *)
(* (MgenTcpTransport): who uses it, whose message is on its way, how it is  *)
(* made, lost and made again (RETRY), and which sequence numbers the other *)
(* end gets.  How a message is cut into fragments and buffers is in        *)
(* TcpFraming; here a message is written whole, or in part.                *)
(*                                                                         *)
(* The socket and the network are external.  A handler is one step, except *)
(* that the loop of SendPendingMessage takes a step per iteration.  Left   *)
(* out: MOD of a running flow, SUSPEND and RESUME, a COUNT after which the *)
(* flow is not kept alive (UdpFlows), and errors of Open and Connect.      *)
(***************************************************************************)
EXTENDS PendingQueue, FiniteSets

CONSTANTS QueueLimit,          \* queue_limit of each flow, < 0: no limit
          Fast,                \* the flows of unlimited rate
          Counts,              \* values of COUNT
          RetryCount,          \* of the RETRY option of every ON
          Writes,              \* what a write may do
          Tidy,                \* an OFF comes when the flow is alone and connected
          PendingMessageLimit, \* iterations before SendPendingMessage yields
          MaxPending,          \* bound of an instance on a backlog
          MaxFailures          \* bound of an instance on lost connections

Unlimited == -1  \* of COUNT, RETRY and PendingMessageLimit

ASSUME TcpFlowsAssumption ==
  /\ IsFiniteSet(Flow)
  /\ QueueLimit \in [Flow -> Int]
  /\ Fast \subseteq Flow
  /\ Counts \subseteq Nat \cup {Unlimited}
  /\ RetryCount \in Nat \cup {Unlimited}
  /\ Writes \subseteq {"whole", "part", "error", "lost"}
  /\ Tidy \in BOOLEAN
  /\ PendingMessageLimit \in Nat \cup {Unlimited}
  /\ MaxPending \in Nat
  /\ MaxFailures \in Nat

VARIABLES flows,      \* the MgenFlows
          tcp,        \* their MgenTcpTransport
          pend,       \* its round robin
          reconnects, \* the flows with a RECONNECT event to come
          breakOut,   \* iterations of SendPendingMessage, or NotServing
          step,       \* from the number of a message to that of the flow's next one
          failures    \* connections lost

vars == <<flows, tcp, pend, reconnects, breakOut, step, failures>>

NotServing == -1
NoMessage == [flow |-> NoFlow, number |-> 0]

(***************************************************************************)
(* A handler is a function of the state it changes.  nextNumber is seq_num *)
(* counted from the number of the last message of the flow that was sent;  *)
(* wanted says that the last event of the script was an ON.                *)
(***************************************************************************)
State == [flows |-> flows, tcp |-> tcp, pend |-> pend, reconnects |-> reconnects, step |-> step]

Becomes(s) ==
  /\ flows' = s.flows
  /\ tcp' = s.tcp
  /\ pend' = s.pend
  /\ reconnects' = s.reconnects
  /\ step' = s.step

Init ==
  /\ flows = [f \in Flow |->
       [on |-> FALSE, wanted |-> FALSE, timer |-> FALSE, paused |-> FALSE, offPending |-> FALSE,
        socketError |-> FALSE, pending |-> 0, limit |-> Unlimited, sent |-> 0, nextNumber |-> 1]]
  /\ tcp = [socket |-> "closed", references |-> 0, notify |-> FALSE, retries |-> 0, message |-> NoMessage]
  /\ pend = EmptyQueue
  /\ reconnects = {}
  /\ breakOut = NotServing
  /\ step = 1
  /\ failures = 0

-------------------------------------------------------------------------------
(***************************************************************************)
(* The transport.  A socket that was shut down, or is broken, is still     *)
(* connected until its event comes, but nothing can be written; one that   *)
(* lost its connection is open and idle.                                   *)
(***************************************************************************)
IsConnected(s) == s.tcp.socket \in {"connected", "shut", "broken"}
IsConnecting(s) == s.tcp.socket = "connecting"
IsTransmitting(s) == s.tcp.message # NoMessage
TransmittingFlow(s, f) == s.tcp.message.flow = f
Using(s) == {f \in Flow : s.flows[f].on}

Notify(s, on) == [s EXCEPT !.tcp.notify = on]

\* MgenSocketTransport::Close.
Close(s) ==
  IF s.tcp.references = 0 THEN s
  ELSE IF s.tcp.references > 1 THEN [s EXCEPT !.tcp.references = @ - 1]
  ELSE [s EXCEPT !.tcp.references = 0, !.tcp.socket = "closed", !.tcp.notify = FALSE]

\* Does Shutdown shut the connection down?  If not it takes a reference back.
ShutsDown(s) == s.tcp.references = 1 /\ IsConnected(s)

\* How StopFlow leaves the connection: the last flow shuts it down and waits
\* for the other end; another one calls Shutdown and then Close.
Leave(s, f) ==
  IF ShutsDown(s)
  THEN [s EXCEPT !.tcp.socket = "shut", !.flows[f].offPending = TRUE]
  ELSE LET less == [s EXCEPT !.tcp.references = IF @ = 0 THEN 0 ELSE @ - 1]
       IN [Close(less) EXCEPT !.flows[f].on = FALSE]

StopFlow(s, f) ==
  LET stopped == [s EXCEPT !.flows[f] = [@ EXCEPT !.limit = Unlimited, !.pending = 0, !.sent = 0,
                                                  !.offPending = FALSE, !.timer = FALSE]]
  IN IF s.flows[f].on THEN Leave([stopped EXCEPT !.pend = RemoveFlow(@, f)], f) ELSE stopped

(***************************************************************************)
(* A connection is lost, or cannot be made.  ScheduleReconnect pauses the  *)
(* flows on it and sends each a RECONNECT; ShutdownTransport takes them    *)
(* off it.  A flow that is off its transport keeps its backlog and its     *)
(* place in the round robin.                                               *)
(***************************************************************************)
ScheduleReconnect(s) ==
  [s EXCEPT !.tcp.retries = IF @ > 0 THEN @ - 1 ELSE @,
            !.tcp.socket = "idle",
            !.flows = [f \in Flow |-> IF @[f].on THEN [@[f] EXCEPT !.paused = TRUE, !.timer = FALSE]
                                      ELSE @[f]],
            !.reconnects = @ \cup Using(s)]

\* Mutant: the message on its way is not forgotten.
ShutdownTransportKeeps(s) ==
  [s EXCEPT !.tcp.references = 0,
            !.tcp.socket = "closed",
            !.tcp.notify = FALSE,
            !.flows = [f \in Flow |-> IF @[f].on THEN [@[f] EXCEPT !.on = FALSE] ELSE @[f]]]

ShutdownTransport(s) ==
  LET left == s.tcp.references - Cardinality(Using(s))
  IN [s EXCEPT !.tcp.references = IF left > 0 THEN left ELSE 0,
               !.tcp.socket = IF s.tcp.references > 0 /\ left <= 0 THEN "closed" ELSE "idle",
               !.tcp.notify = FALSE,
               !.tcp.message = NoMessage,
               !.flows = [f \in Flow |->
                  IF @[f].on THEN [@[f] EXCEPT !.on = FALSE, !.offPending = FALSE, !.timer = FALSE]
                  ELSE @[f]]]

Lost(s, write) == s.tcp.socket = "connected" /\ write \in {"error", "lost"}

Disconnected(s) == IF s.tcp.retries # 0 THEN ScheduleReconnect(s) ELSE ShutdownTransport(s)

-------------------------------------------------------------------------------
(***************************************************************************)
(* MgenFlow::SendMessage and MgenTcpTransport::SendMessage.  A message     *)
(* takes the next number; one that was not sent, or not whole, gives it    *)
(* back and joins the backlog.                                             *)
(***************************************************************************)

LimitReached(s, f) == s.flows[f].limit >= 0 /\ s.flows[f].sent >= s.flows[f].limit
Keeps(f) == QueueLimit[f] # 0 \/ f \in Fast
Full(s, f) == QueueLimit[f] > 0 /\ s.flows[f].pending >= QueueLimit[f]

\* The message with this number is on its way as a whole.
Completed(s, f, number) ==
  [s EXCEPT !.step = number,
            !.flows[f].nextNumber = @ - number,
            !.flows[f].sent = IF s.flows[f].limit >= 0 THEN @ + 1 ELSE @]

\* An unlimited flow in error is left to output notification again.
SentOne(s, f) ==
  LET recovers == f \in Fast /\ s.flows[f].timer /\ s.flows[f].socketError
      less == [s EXCEPT !.flows[f].pending = IF @ > 0 THEN @ - 1 ELSE 0]
  IN IF ~recovers THEN less
     ELSE Notify([less EXCEPT !.flows[f].socketError = FALSE, !.flows[f].timer = FALSE], TRUE)

\* Mutant: the flow does not join the round robin.
QueueUnlisted(s, f) == [s EXCEPT !.flows[f].pending = @ + 1,
                                 !.flows[f].timer = @ /\ ~Full([s EXCEPT !.flows[f].pending = @ + 1], f)]

\* One more message of f waits; a full queue stops its timer.
Queue(s, f) ==
  LET more == [s EXCEPT !.flows[f].pending = @ + 1, !.pend = AppendFlow(@, f)]
  IN IF Full(more, f) THEN [more EXCEPT !.flows[f].timer = FALSE] ELSE more

\* Mutant: a number that was not used is not given back.
GiveBackNever(s, f) == s

GiveBack(s, f) == [s EXCEPT !.flows[f].nextNumber = @ - 1]

\* The flow may have lost its transport in the failure.
NotSent(s, f, failed) ==
  LET back == GiveBack(s, f)
      queued == Queue(back, f)
  IN IF ~(Keeps(f) /\ back.flows[f].on /\ IsConnected(back)) THEN back
     ELSE IF ~failed THEN Notify(queued, TRUE)
     ELSE IF f \in Fast
     THEN Notify([queued EXCEPT !.flows[f].socketError = TRUE, !.flows[f].timer = ~back.flows[f].paused], FALSE)
     ELSE queued

\* What a write may do: the socket takes all or part of the message, or finds
\* that the connection is lost; the event comes later, or inside the call.
CanWrite(s, write) ==
  /\ write \in Writes
  /\ s.tcp.socket # "connected" => write = "error"
  /\ Lost(s, write) => failures < MaxFailures

SendMessage(s, f, write) ==
  LET number == s.flows[f].nextNumber
      taken == [s EXCEPT !.flows[f].nextNumber = @ + 1]
  IN IF IsTransmitting(s) THEN NotSent(taken, f, FALSE)
     ELSE CASE write = "whole" -> SentOne(Notify(Completed(taken, f, number), FALSE), f)
            [] write = "part"  -> NotSent([Notify(taken, TRUE) EXCEPT
                                             !.tcp.message = [flow |-> f, number |-> number]], f, FALSE)
            [] write = "error" -> NotSent([Notify(taken, FALSE) EXCEPT
                                             !.tcp.socket = IF @ = "connected" THEN "broken" ELSE @], f, TRUE)
            [] write = "lost"  -> NotSent(Notify(Disconnected(taken), FALSE), f, TRUE)

-------------------------------------------------------------------------------
(***************************************************************************)
(* Events of the script.                                                   *)
(***************************************************************************)
Idle == breakOut = NotServing

\* Mutant: an ON does not know of the OFF it comes before.
RestartsNever(f) == FALSE

\* DoOnEvent; a flow whose OFF is pending keeps its one reference.
Restarts(f) == flows[f].offPending

On(f, count) ==
  LET opens == tcp.socket \in {"closed", "idle"}
  IN /\ Idle
     /\ ~flows[f].wanted
     /\ Tidy => \A g \in Flow \ {f} : ~flows[g].offPending /\ (flows[g].pending > 0 \/ g \in Queued(pend) => flows[g].on)
     /\ flows' = [flows EXCEPT ![f] = [@ EXCEPT !.on = TRUE, !.wanted = TRUE, !.offPending = FALSE,
                                                !.limit = count, !.sent = 0, !.timer = ~flows[f].paused]]
     /\ tcp' = [tcp EXCEPT !.socket = IF opens THEN "connecting" ELSE @,
                           !.references = IF Restarts(f) THEN @ ELSE @ + 1,
                           !.retries = RetryCount]
     /\ UNCHANGED <<pend, reconnects, breakOut, step, failures>>

\* OFF waits for the message on its way and for the backlog.
Defers(f) == flows[f].on /\ (TransmittingFlow(State, f) \/ flows[f].pending > 0)

Off(f) ==
  LET unwanted == [State EXCEPT !.flows[f].wanted = FALSE]
      deferred == [unwanted EXCEPT !.flows[f].offPending = TRUE, !.pend = AppendFlow(@, f)]
  IN /\ Idle
     /\ flows[f].wanted
     /\ Tidy => Using(State) \subseteq {f} /\ ~flows[f].paused /\ ~IsConnecting(State)
     /\ Becomes(IF ~Defers(f) THEN StopFlow(unwanted, f)
                ELSE IF flows[f].socketError THEN StopFlow(deferred, f)
                ELSE Notify([deferred EXCEPT !.flows[f].timer = FALSE], TRUE))
     /\ UNCHANGED <<breakOut, failures>>

\* MOD RECONNECT: MgenFlow::Reconnect and the end of Update.
Reconnect(f) ==
  /\ Idle
  /\ f \in reconnects
  /\ reconnects' = reconnects \ {f}
  /\ IF flows[f].on
     THEN /\ flows' = [flows EXCEPT ![f].paused = FALSE, ![f].timer = TRUE]
          /\ tcp' = [tcp EXCEPT !.socket = IF @ = "idle" THEN "connecting" ELSE @]
     ELSE UNCHANGED <<flows, tcp>>
  /\ UNCHANGED <<pend, breakOut, step, failures>>

-------------------------------------------------------------------------------
(***************************************************************************)
(* Events of the socket.  Once it is connected it can be written to, and   *)
(* OnEvent expects to be told ("Tcp finally connected?").                  *)
(***************************************************************************)
Connected ==
  /\ Idle
  /\ IsConnecting(State)
  /\ tcp' = [tcp EXCEPT !.socket = "connected", !.notify = TRUE]
  /\ UNCHANGED <<flows, pend, reconnects, breakOut, step, failures>>

\* ERROR_ or DISCONNECT.  The other end always closes what was shut down.
Fails ==
  /\ Idle
  /\ tcp.socket \in {"connecting", "connected"}
  /\ failures < MaxFailures
  /\ failures' = failures + 1
  /\ Becomes(Disconnected(State))
  /\ UNCHANGED breakOut

Ends ==
  /\ Idle
  /\ tcp.socket \in {"shut", "broken"}
  /\ Becomes(Disconnected(State))
  /\ UNCHANGED <<breakOut, failures>>

(***************************************************************************)
(* OnEvent(SEND): the rest of the message on its way, and then the flows   *)
(* that wait, in the loop of SendPendingMessage.                           *)
(***************************************************************************)
OutputReady ==
  /\ Idle
  /\ tcp.notify
  /\ tcp.socket = "connected"
  /\ ~IsTransmitting(State)
  /\ breakOut' = 0
  /\ Becomes(Notify(State, FALSE))
  /\ UNCHANGED failures

Continue(write) ==
  LET m == tcp.message
      done == [Notify(Completed(State, m.flow, m.number), FALSE) EXCEPT !.tcp.message = NoMessage]
  IN /\ Idle
     /\ tcp.notify
     /\ IsTransmitting(State)
     /\ tcp.socket = "connected"
     /\ CanWrite(State, write)
     /\ write # "part"
     /\ breakOut' = IF write = "whole" THEN 0 ELSE NotServing
     /\ Becomes(CASE write = "whole" -> done
                  [] write = "error" -> [State EXCEPT !.tcp.socket = "broken"]
                  [] write = "lost"  -> Disconnected(State))
     /\ failures' = IF Lost(State, write) THEN failures + 1 ELSE failures

SendMore(f) == flows[f].limit < 0 \/ flows[f].sent < flows[f].limit
ToSend(f) == flows[f].pending > 0 \/ (f \in Fast /\ SendMore(f))
Serves(f) == /\ breakOut # NotServing
             /\ pend.cur = f
             /\ tcp.socket # "closed"
             /\ ~IsTransmitting(State)

\* The rest of an iteration: a queue below its limit goes on with its timer, a
\* flow with nothing to send leaves the round robin, and the next one follows.
\* Mutant: the timer starts again one message too late.
BelowLimitLate(s, f) == QueueLimit[f] > 0 /\ s.flows[f].pending + 1 < QueueLimit[f]

BelowLimit(s, f) ==
  \/ QueueLimit[f] > 0 /\ s.flows[f].pending < QueueLimit[f]
  \/ QueueLimit[f] < 0 /\ s.flows[f].pending = 0
  \/ QueueLimit[f] = 0

Drained(s, f) ==
  /\ s.flows[f].pending = 0
  /\ f \in Fast => s.flows[f].limit >= 0 /\ s.flows[f].sent >= s.flows[f].limit

ServeNext(s, f) ==
  [s EXCEPT !.pend = IF Drained(s, f) THEN RemoveFromPendingList(@) ELSE Advance(@),
            !.flows[f].timer = @ \/ (BelowLimit(s, f) /\ f \notin Fast /\ ~s.flows[f].paused)]

GoesOn(drained) ==
  breakOut' = IF PendingMessageLimit = Unlimited THEN 0
              ELSE IF ~drained /\ breakOut + 1 > PendingMessageLimit THEN NotServing
              ELSE breakOut + 1

ServeSend(f, write) ==
  LET result == SendMessage(State, f, write)
  IN /\ Serves(f)
     /\ ToSend(f)
     /\ flows[f].on /\ ~LimitReached(State, f) /\ ~(flows[f].offPending /\ f \in Fast)
     /\ write = "whole" \/ flows[f].pending < MaxPending
     /\ CanWrite(State, write)
     /\ IF write = "whole"
        THEN /\ Becomes(ServeNext(result, f))
             /\ GoesOn(Drained(result, f))
        ELSE /\ Becomes(result)
             /\ breakOut' = NotServing
     /\ failures' = IF Lost(State, write) THEN failures + 1 ELSE failures

\* A flow that cannot send ends the loop; its OFF, at an unlimited rate, too.
ServeStop(f) ==
  /\ Serves(f)
  /\ ToSend(f)
  /\ ~flows[f].on \/ LimitReached(State, f) \/ (flows[f].offPending /\ f \in Fast)
  /\ Becomes(IF flows[f].offPending /\ f \in Fast THEN StopFlow(State, f)
             ELSE [State EXCEPT !.flows[f].timer = FALSE])
  /\ breakOut' = NotServing
  /\ UNCHANGED failures

ServeSkip(f) ==
  /\ Serves(f)
  /\ ~ToSend(f)
  /\ Becomes(ServeNext(State, f))
  /\ GoesOn(Drained(State, f))
  /\ UNCHANGED failures

ServeEnd ==
  /\ breakOut # NotServing
  /\ tcp.socket = "closed" \/ IsTransmitting(State) \/ pend.cur = NoFlow
  /\ breakOut' = NotServing
  /\ Becomes(Notify(State, tcp.notify /\ (IsTransmitting(State) \/ pend.list # << >>)))
  /\ UNCHANGED failures

-------------------------------------------------------------------------------
(***************************************************************************)
(* MgenFlow::OnTxTimeout.                                                  *)
(***************************************************************************)
TxFires(f) == Idle /\ flows[f].timer

TxNothing(f) ==
  /\ TxFires(f)
  /\ ~flows[f].on \/ LimitReached(State, f)
  /\ flows' = [flows EXCEPT ![f].timer = FALSE]
  /\ UNCHANGED <<tcp, pend, reconnects, breakOut, step, failures>>

TxReady(f) == TxFires(f) /\ flows[f].on /\ ~LimitReached(State, f)

TxOff(f) ==
  LET waits == TransmittingFlow(State, f) \/ (~flows[f].socketError /\ flows[f].pending > 0)
  IN /\ TxReady(f)
     /\ flows[f].offPending
     /\ Becomes(IF waits THEN Notify([State EXCEPT !.flows[f].timer = FALSE, !.pend = AppendFlow(@, f)], TRUE)
                ELSE StopFlow(State, f))
     /\ UNCHANGED <<breakOut, failures>>

\* While the connection is being made every message waits; later one waits for
\* the flows before it, if its queue has a limit, and is dropped otherwise.
Waits(f) == pend.list # << >> /\ f \notin Fast /\ ~flows[f].socketError

TxQueue(f) ==
  /\ TxReady(f)
  /\ ~flows[f].offPending
  /\ f \notin Fast
  /\ IsConnecting(State) \/ QueueLimit[f] > 0 => flows[f].pending < MaxPending
  /\ IF IsConnecting(State) THEN Becomes(Queue(State, f))
     ELSE /\ Waits(f)
          /\ Becomes(Notify(IF QueueLimit[f] > 0 THEN Queue(State, f) ELSE State, TRUE))
  /\ UNCHANGED <<breakOut, failures>>

\* GetNextInterval starts the timer again, also one that a full queue stopped.
TxSend(f, write) ==
  LET waiting == IF IsConnecting(State) THEN Queue(State, f) ELSE State
      result == SendMessage(waiting, f, write)
  IN /\ TxReady(f)
     /\ ~flows[f].offPending
     /\ f \in Fast \/ ~(IsConnecting(State) \/ Waits(f))
     /\ (write = "whole" /\ ~IsTransmitting(State)) \/ flows[f].pending < MaxPending
     /\ CanWrite(State, write)
     /\ f \in Fast => result.flows[f].on  \* after that anything may happen
     /\ Becomes(IF f \notin Fast THEN [result EXCEPT !.flows[f].timer = @ \/ ~result.flows[f].paused]
                ELSE IF result.flows[f].socketError THEN [result EXCEPT !.flows[f].timer = TRUE]
                ELSE Notify([result EXCEPT !.flows[f].timer = FALSE, !.pend = AppendFlow(@, f)], TRUE))
     /\ UNCHANGED breakOut
     /\ failures' = IF Lost(State, write) THEN failures + 1 ELSE failures

-------------------------------------------------------------------------------
Serve ==
  \/ \E f \in Flow :
       \/ \E write \in Writes : ServeSend(f, write)
       \/ ServeStop(f)
       \/ ServeSkip(f)
  \/ ServeEnd

Socket == Connected \/ Ends \/ OutputReady

TxTimeout(f) ==
  \/ TxNothing(f)
  \/ TxOff(f)
  \/ TxQueue(f)
  \/ \E write \in Writes : TxSend(f, write)

Next ==
  \/ Serve
  \/ Socket
  \/ Fails
  \/ \E write \in Writes : Continue(write)
  \/ \E f \in Flow :
       \/ \E count \in Counts : On(f, count)
       \/ Off(f)
       \/ Reconnect(f)
       \/ TxTimeout(f)

Spec == Init /\ [][Next]_vars

-------------------------------------------------------------------------------
TypeOK ==
  /\ flows \in [Flow ->
       [on : BOOLEAN, wanted : BOOLEAN, timer : BOOLEAN, paused : BOOLEAN, offPending : BOOLEAN,
        socketError : BOOLEAN, pending : 0..(MaxPending + 1), limit : Nat \cup {Unlimited},
        sent : Nat, nextNumber : 0..2]]
  /\ tcp.socket \in {"closed", "idle", "connecting", "connected", "shut", "broken"}
  /\ tcp.references \in Nat
  /\ tcp.notify \in BOOLEAN
  /\ tcp.retries \in Nat \cup {Unlimited}
  /\ tcp.message = NoMessage \/ tcp.message \in [flow : Flow, number : 0..1]
  /\ pend \in Queues
  /\ reconnects \subseteq Flow
  /\ breakOut \in Nat \cup {NotServing}
  /\ step \in 0..1
  /\ failures \in 0..MaxFailures

\* Every flow on the connection has one reference to it, through ON before the
\* OFF is done, connections lost and made again, and events inside a write.
ReferencesMatch == tcp.references = Cardinality(Using(State))

\* The socket is never closed under a flow that uses it ("the close event will
\* ensure were aren't closing a socket another flow is using", StopFlow).
ClosedUnused == tcp.socket = "closed" => Using(State) = {}

\* A message on its way belongs to a flow that still uses the connection: OFF
\* waits for it, and a connection that is lost for good takes it along.
OwnMessage == IsTransmitting(State) => flows[tcp.message.flow].on

\* The messages counted as sent never pass the COUNT in force, although a
\* message may be counted by the timer, by the round robin or when its rest goes.
SentWithinCount == \A f \in Flow : flows[f].limit >= 0 => flows[f].sent <= flows[f].limit

\* The numbers of a flow's messages have no gap at the other end, whatever was
\* refused, failed or cut off between them.
NoGap == step \in 0..1

\* Every message has a number of its own ("message was not sent, so sequence
\* number is decremented back one", MgenFlow::SendMessage).  It has not when the
\* other end was given a part of it.
OwnNumber == step = 1

\* As long as nobody in the round robin blocks it, a flow that may still send
\* is woken by its timer, a reconnection, an event of the socket or the loop
\* that is running: full queues, pauses and errors stop timers, and each of the
\* events that should start them again may come between the others.
Wakes(f) ==
  \/ flows[f].timer
  \/ f \in reconnects
  \/ tcp.socket \in {"connecting", "shut", "broken"}
  \/ breakOut # NotServing
  \/ tcp.notify /\ tcp.socket = "connected" /\ (f \in Queued(pend) \/ TransmittingFlow(State, f))

Blocks(g) == g \in Queued(pend) /\ (LimitReached(State, g) \/ ~flows[g].on)

NoLostWakeup ==
  (\A g \in Flow : ~Blocks(g)) =>
    \A f \in Flow : flows[f].on /\ ~LimitReached(State, f) => Wakes(f)

(***************************************************************************)
(* The event loop serves sockets and timers that are ready; a timer may be *)
(* stopped and started on the way, hence SF.  The other end answers, and   *)
(* in the end takes messages whole.                                        *)
(***************************************************************************)
Fairness ==
  /\ WF_vars(Serve)
  /\ WF_vars(Connected)
  /\ WF_vars(Ends)
  /\ WF_vars(OutputReady \/ \E write \in Writes : Continue(write))
  /\ \A f \in Flow : SF_vars(TxTimeout(f)) /\ WF_vars(Reconnect(f))
  /\ <>[][\A f \in Flow : ~ServeSend(f, "part") /\ ~TxSend(f, "part")]_vars

FairSpec == Spec /\ Fairness

\* An OFF that waits for a message on its way or for a backlog is carried out
\* in the end, unless an ON comes first, the COUNT was used up, or a flow that
\* cannot send is in the round robin.
OffCompletes ==
  \A f \in Flow : ~flows[f].wanted /\ flows[f].on ~>
      \/ flows[f].wanted
      \/ ~flows[f].on
      \/ LimitReached(State, f)
      \/ \E g \in Flow : Blocks(g)
================================================================================
