------------------------------- MODULE UdpFlows -------------------------------
(***************************************************************************)
(* The transmission machine of mgen: MgenFlows that share one UDP          *)
(* MgenTransport (flows without a SRC option, or with the same one, do).   *)
(* A flow has a transmission timer, a backlog of messages the socket would *)
(* not take, a message count, and an OFF event it may have to defer; the   *)
(* transport has a reference count, a round robin of flows with a backlog, *)
(* and output notification, which makes the dispatcher call the transport  *)
(* when the socket is writable.  The dispatcher is single threaded: a      *)
(* handler is atomic, except that the loop of SendPendingMessage takes one *)
(* step per iteration (serving), during which nothing else runs.           *)
(*                                                                         *)
(* External: SendTo answers OK, BLOCKED or FAILED.  Left out: the CONNECT   *)
(* option, SRC changes (PendingList), LISTEN and IGNORE, payload and sizes. *)
(* A definition introduced as a mutant, here and in the other modules, is a*)
(* plausible bug of the one after it, and no part of the model.            *)
(***************************************************************************)
EXTENDS PendingQueue, FiniteSets

CONSTANTS QueueLimit,          \* queue_limit of each flow, < 0: no limit
          Patterns,            \* the kinds of PATTERN the script uses
          Counts,              \* the COUNTs the script uses
          Commands,            \* the events and remote commands used
          Results,             \* what SendTo may answer
          ValidateEvents,      \* ENABLE_EVENT_VALIDATION, or a script in order
          OpenMayFail,         \* the socket cannot always be opened
          PendingMessageLimit, \* iterations before SendPendingMessage yields
          MaxPending,          \* bound of an instance on retries of a backlog
          MaxReferences        \* bound of an instance on ONs without an OFF

ASSUME UdpFlowsAssumption ==
  /\ IsFiniteSet(Flow)
  /\ QueueLimit \in [Flow -> Int]
  /\ Patterns \subseteq {"rate", "zero", "fast"}
  /\ Counts \subseteq Nat \cup {-1}
  /\ Commands \subseteq {"ON", "MOD", "DST", "OFF", "SUSPEND", "RESUME", "RESET"}
  /\ Results \subseteq {"OK", "BLOCKED", "FAILED"}
  /\ ValidateEvents \in BOOLEAN
  /\ OpenMayFail \in BOOLEAN
  /\ PendingMessageLimit \in Nat
  /\ MaxPending \in Nat
  /\ MaxReferences \in Nat

VARIABLES flowTransport,    \* flow_transport is not NULL
          oldTransport,     \* old_transport is not NULL
          pattern, txTimer, pendingMessages, messagesSent, messageLimit,
          keepAlive, offPending, flowSuspended, socketError,
          lastEvent,        \* type of the latest event of the flow's script
          socketOpen, referenceCount, outputNotify, pend, serving, breakOut

flowVars == <<flowTransport, oldTransport, pattern, txTimer, pendingMessages,
              messagesSent, messageLimit, keepAlive, offPending,
              flowSuspended, socketError, lastEvent>>
loopVars == <<serving, breakOut>>
socketVars == <<socketOpen, referenceCount>>
vars == <<flowVars, socketVars, outputNotify, pend, loopVars>>

Unlimited == -1  \* of a COUNT
NoCount == -2    \* an event without the option
EventTypes == {"NONE", "ON", "MOD", "OFF"}

TypeOK ==
  /\ flowTransport \in [Flow -> BOOLEAN]
  /\ oldTransport \in [Flow -> BOOLEAN]
  /\ pattern \in [Flow -> {"rate", "zero", "fast"}]
  /\ txTimer \in [Flow -> BOOLEAN]
  /\ pendingMessages \in [Flow -> Nat]
  /\ messagesSent \in [Flow -> Nat]
  /\ messageLimit \in [Flow -> Nat \cup {Unlimited}]
  /\ keepAlive \in [Flow -> BOOLEAN]
  /\ offPending \in [Flow -> BOOLEAN]
  /\ flowSuspended \in [Flow -> BOOLEAN]
  /\ socketError \in [Flow -> BOOLEAN]
  /\ lastEvent \in [Flow -> EventTypes]
  /\ socketOpen \in BOOLEAN
  /\ referenceCount \in Nat
  /\ outputNotify \in BOOLEAN
  /\ pend \in Queues
  /\ serving \in BOOLEAN
  /\ breakOut \in Nat

Init ==
  /\ flowTransport = [f \in Flow |-> FALSE]
  /\ oldTransport = [f \in Flow |-> FALSE]
  /\ pattern = [f \in Flow |-> "zero"]
  /\ txTimer = [f \in Flow |-> FALSE]
  /\ pendingMessages = [f \in Flow |-> 0]
  /\ messagesSent = [f \in Flow |-> 0]
  /\ messageLimit = [f \in Flow |-> Unlimited]
  /\ keepAlive = [f \in Flow |-> TRUE]
  /\ offPending = [f \in Flow |-> FALSE]
  /\ flowSuspended = [f \in Flow |-> FALSE]
  /\ socketError = [f \in Flow |-> FALSE]
  /\ lastEvent = [f \in Flow |-> "NONE"]
  /\ socketOpen = FALSE
  /\ referenceCount = 0
  /\ outputNotify = FALSE
  /\ pend = EmptyQueue
  /\ serving = FALSE
  /\ breakOut = 0

-------------------------------------------------------------------------------
(* Helpers of the handlers below.                                          *)

\* The pattern is sent as fast as the socket takes it (rate -1).
UnlimitedRate(f) == pattern[f] = "fast"

\* Mutant: > for >=.
LimitReachedLate(f) == messageLimit[f] >= 0 /\ messagesSent[f] > messageLimit[f]

LimitReached(f) == messageLimit[f] >= 0 /\ messagesSent[f] >= messageLimit[f]

\* Mutant: the last reference is not waited for.
CloseAlways(n) ==
  /\ referenceCount' = IF referenceCount > 0 THEN referenceCount - 1 ELSE 0
  /\ socketOpen' = FALSE
  /\ outputNotify' = FALSE

\* MgenSocketTransport::Close gives back one reference, and the last one
\* closes the socket; n is the state of output notification before it.
Close(n) ==
  /\ referenceCount' = IF referenceCount > 0 THEN referenceCount - 1 ELSE 0
  /\ socketOpen' = (socketOpen /\ referenceCount # 1)
  /\ outputNotify' = (n /\ referenceCount # 1)

\* StopFlow forgets the count and the backlog and leaves the transport.  A
\* UDP transport has no Shutdown: OFF is logged and the socket released.  n
\* and q are the output notification and the round robin it starts from.
StopFlow(f, n, q) ==
  /\ messageLimit' = [messageLimit EXCEPT ![f] = Unlimited]
  /\ pendingMessages' = [pendingMessages EXCEPT ![f] = 0]
  /\ messagesSent' = [messagesSent EXCEPT ![f] = 0]
  /\ offPending' = [offPending EXCEPT ![f] = FALSE]
  /\ txTimer' = [txTimer EXCEPT ![f] = FALSE]
  /\ flowTransport' = [flowTransport EXCEPT ![f] = FALSE]
  /\ IF flowTransport[f] THEN pend' = RemoveFlow(q, f) /\ Close(n)
     ELSE pend' = q /\ outputNotify' = n /\ UNCHANGED socketVars

\* Is the timer running after GetNextInterval, when it was (a) before?  (An
\* unlimited flow does not come to it over UDP.)
NextInterval(f, a) == pattern[f] = "rate" /\ (a \/ ~flowSuspended[f])

\* GetNextInterval stops a flow at rate zero that is not to be kept alive.
StopsAtZero(f) == pattern[f] = "zero" /\ ~keepAlive[f]

\* Mutant: the timer of a suspended flow is started.
ScheduledAnyway(f, p) == p # "zero"

\* Update schedules the timer at the end of an ON or MOD event.
Scheduled(f, p) ==
  CASE p = "zero" -> FALSE
    [] p = "rate" -> txTimer[f] \/ ~flowSuspended[f]
    [] p = "fast" -> ~flowSuspended[f]

\* ValidateEvent compares an event with the one before it in the list.
Valid(f, type) ==
  ValidateEvents =>
    IF type = "ON" THEN lastEvent[f] \notin {"ON", "MOD"}
                   ELSE lastEvent[f] \notin {"OFF", "NONE"}

-------------------------------------------------------------------------------
(* Script events and remote commands, while no handler is running.         *)

\* The COUNT option of an ON or MOD event: NoCount leaves the count alone, any
\* other one starts a new count.
SetCount(f, c, k) ==
  IF c = NoCount THEN UNCHANGED <<messageLimit, messagesSent, keepAlive>>
  ELSE /\ messageLimit' = [messageLimit EXCEPT ![f] = c]
       /\ messagesSent' = [messagesSent EXCEPT ![f] = 0]
       /\ keepAlive' = [keepAlive EXCEPT ![f] = k]

\* Is an ON to start a flow whose OFF is still pending?
Restarts(f) == offPending[f]

\* DoOnEvent when the socket opens.  A flow whose OFF is still pending keeps
\* the one reference it has and its backlog, unless its destination (d)
\* changes; a flow that is on already will release the old reference later.
OnOpened(f, p, d) ==
  LET restart == Restarts(f)
      clear   == restart /\ d /\ pendingMessages[f] > 0
  IN /\ socketOpen' = TRUE
     /\ referenceCount' = IF restart THEN referenceCount ELSE referenceCount + 1
     /\ oldTransport' = [oldTransport EXCEPT ![f] = flowTransport[f] /\ ~restart]
     /\ offPending' = [offPending EXCEPT ![f] = FALSE]
     /\ pendingMessages' = IF clear THEN [pendingMessages EXCEPT ![f] = 0]
                           ELSE pendingMessages
     /\ pend' = IF clear THEN RemoveFlow(pend, f) ELSE pend
     /\ txTimer' = [txTimer EXCEPT ![f] = Scheduled(f, p)]

\* A failed Open leaves the flow holding a transport it has no reference to.
OnNotOpened(f) ==
  /\ OpenMayFail
  /\ ~socketOpen
  /\ oldTransport' = [oldTransport EXCEPT ![f] = flowTransport[f]]
  /\ UNCHANGED <<socketVars, offPending, pendingMessages, pend, txTimer>>

On(f, p, c, k, d) ==
  /\ ~serving
  /\ "ON" \in Commands
  /\ Valid(f, "ON")
  /\ referenceCount < MaxReferences
  /\ SetCount(f, c, k)
  /\ flowTransport' = [flowTransport EXCEPT ![f] = TRUE]
  /\ pattern' = [pattern EXCEPT ![f] = p]
  /\ lastEvent' = [lastEvent EXCEPT ![f] = "ON"]
  /\ OnOpened(f, p, d) \/ OnNotOpened(f)
  /\ UNCHANGED <<flowSuspended, socketError, outputNotify, loopVars>>

\* MOD of the pattern or the count, without a change of the socket.
Mod(f, p, c, k) ==
  /\ ~serving
  /\ "MOD" \in Commands
  /\ Valid(f, "MOD")
  /\ lastEvent' = [lastEvent EXCEPT ![f] = "MOD"]
  /\ IF flowTransport[f]
     THEN /\ SetCount(f, c, k)
          /\ pattern' = [pattern EXCEPT ![f] = p]
          /\ txTimer' = [txTimer EXCEPT ![f] = Scheduled(f, p)]
     ELSE UNCHANGED <<messageLimit, messagesSent, keepAlive, pattern, txTimer>>
  /\ UNCHANGED <<flowTransport, oldTransport, pendingMessages, offPending,
                 flowSuspended, socketError, socketVars, outputNotify, pend,
                 loopVars>>

\* MOD of the destination: the flow gives its reference back and takes a new
\* one, of the same transport, whose socket was closed in between when the
\* reference was the last.  The backlog is dropped, the place in the round
\* robin is not.  The pattern stays: a rate of zero would end the event.
ModDestination(f) ==
  /\ ~serving
  /\ "DST" \in Commands
  /\ Valid(f, "MOD")
  /\ lastEvent' = [lastEvent EXCEPT ![f] = "MOD"]
  /\ IF flowTransport[f]
     THEN LET closes == referenceCount = 1
              kept   == IF referenceCount > 0 THEN referenceCount - 1 ELSE 0
          IN /\ oldTransport' = [oldTransport EXCEPT ![f] = FALSE]
             /\ pendingMessages' = [pendingMessages EXCEPT ![f] = 0]
             /\ outputNotify' = (outputNotify /\ ~closes)
             /\ txTimer' = [txTimer EXCEPT ![f] = Scheduled(f, pattern[f])]
             /\ \/ socketOpen' = TRUE /\ referenceCount' = kept + 1
                \/ /\ OpenMayFail
                   /\ ~socketOpen \/ closes
                   /\ socketOpen' = FALSE
                   /\ referenceCount' = kept
     ELSE UNCHANGED <<oldTransport, pendingMessages, outputNotify, socketVars,
                      txTimer>>
  /\ UNCHANGED <<flowTransport, pattern, messagesSent, messageLimit, keepAlive,
                 offPending, flowSuspended, socketError, pend, loopVars>>

\* OFF is deferred while there is a backlog, unless the socket is in error.
Off(f) ==
  /\ ~serving
  /\ "OFF" \in Commands
  /\ Valid(f, "OFF")
  /\ lastEvent' = [lastEvent EXCEPT ![f] = "OFF"]
  /\ IF flowTransport[f] /\ pendingMessages[f] > 0 /\ ~socketError[f]
     THEN /\ offPending' = [offPending EXCEPT ![f] = TRUE]
          /\ pend' = AppendFlow(pend, f)
          /\ outputNotify' = TRUE
          /\ txTimer' = [txTimer EXCEPT ![f] = FALSE]
          /\ UNCHANGED <<flowTransport, pendingMessages, messagesSent,
                         messageLimit, socketVars>>
     ELSE StopFlow(f, outputNotify,
                   IF flowTransport[f] /\ pendingMessages[f] > 0
                   THEN AppendFlow(pend, f) ELSE pend)
  /\ UNCHANGED <<oldTransport, pattern, keepAlive, flowSuspended, socketError,
                 loopVars>>

Suspend(f) ==
  /\ ~serving
  /\ "SUSPEND" \in Commands
  /\ txTimer' = [txTimer EXCEPT ![f] = FALSE]
  /\ flowSuspended' = [flowSuspended EXCEPT ![f] = TRUE]
  /\ UNCHANGED <<flowTransport, oldTransport, pattern, pendingMessages,
                 messagesSent, messageLimit, keepAlive, offPending, socketError,
                 lastEvent, socketVars, outputNotify, pend, loopVars>>

\* Resume and Reset restart the timer of a suspended flow; Reset also starts
\* the count again, for a flow that is not suspended too.
Wake(f) ==
  /\ txTimer' = [txTimer EXCEPT ![f] = @ \/ flowSuspended[f]]
  /\ flowSuspended' = [flowSuspended EXCEPT ![f] = FALSE]
  /\ UNCHANGED <<flowTransport, oldTransport, pattern, pendingMessages,
                 messageLimit, keepAlive, offPending, socketError,
                 lastEvent, socketVars, outputNotify, pend, loopVars>>

Resume(f) ==
  /\ ~serving
  /\ "RESUME" \in Commands
  /\ Wake(f)
  /\ UNCHANGED messagesSent

Reset(f) ==
  /\ ~serving
  /\ "RESET" \in Commands
  /\ Wake(f)
  /\ messagesSent' = [messagesSent EXCEPT ![f] = 0]

-------------------------------------------------------------------------------
(* MgenFlow::OnTxTimeout: one action per way through the handler.  The     *)
(* timer is running when it fires, and stays so unless the handler stops   *)
(* it.                                                                     *)

TxFires(f) == ~serving /\ txTimer[f]

\* Done: the flow has left its transport, or has sent its count.
TxCounted(f) ==
  /\ TxFires(f)
  /\ ~flowTransport[f] \/ LimitReached(f)
  /\ IF keepAlive[f]
     THEN /\ txTimer' = [txTimer EXCEPT ![f] = FALSE]
          /\ UNCHANGED <<flowTransport, pendingMessages, messagesSent,
                         messageLimit, offPending, socketVars, outputNotify,
                         pend>>
     ELSE StopFlow(f, outputNotify, pend)
  /\ UNCHANGED <<oldTransport, pattern, keepAlive, flowSuspended, socketError,
                 lastEvent, loopVars>>

\* The first timeout after the flow was put on a transport again releases
\* the reference it had before.
TxLeaveOld(f) ==
  /\ TxFires(f)
  /\ flowTransport[f]
  /\ ~LimitReached(f)
  /\ oldTransport[f]
  /\ oldTransport' = [oldTransport EXCEPT ![f] = FALSE]
  /\ pend' = RemoveFlow(pend, f)
  /\ IF socketOpen THEN Close(outputNotify)
     ELSE UNCHANGED <<socketVars, outputNotify>>
  /\ UNCHANGED <<flowTransport, pattern, txTimer, pendingMessages, messagesSent,
                 messageLimit, keepAlive, offPending, flowSuspended,
                 socketError, lastEvent, loopVars>>

TxReady(f) ==
  TxFires(f) /\ flowTransport[f] /\ ~LimitReached(f) /\ ~oldTransport[f]

\* A deferred OFF: the backlog first, then the flow stops.
TxOff(f) ==
  /\ TxReady(f)
  /\ offPending[f]
  /\ IF pendingMessages[f] > 0 /\ ~socketError[f]
     THEN /\ txTimer' = [txTimer EXCEPT ![f] = FALSE]
          /\ pend' = AppendFlow(pend, f)
          /\ outputNotify' = TRUE
          /\ UNCHANGED <<flowTransport, pendingMessages, messagesSent,
                         messageLimit, offPending, socketVars>>
     ELSE StopFlow(f, outputNotify, pend)
  /\ UNCHANGED <<oldTransport, pattern, keepAlive, flowSuspended, socketError,
                 lastEvent, loopVars>>

\* While any flow waits for the transport the others queue behind it: the
\* message joins the backlog if the flow has a limited queue, and is dropped
\* if not.  A full queue stops the timer.
Waits(f) == pend.list # << >> /\ ~UnlimitedRate(f) /\ ~socketError[f]

TxQueue(f) ==
  /\ TxReady(f)
  /\ ~offPending[f]
  /\ Waits(f)
  /\ QueueLimit[f] > 0 => pendingMessages[f] < MaxPending
  /\ LET joins == QueueLimit[f] > 0
         full  == joins /\ pendingMessages[f] + 1 >= QueueLimit[f]
         q     == IF joins THEN AppendFlow(pend, f) ELSE pend
     IN IF ~full /\ StopsAtZero(f)
        THEN StopFlow(f, TRUE, q)
        ELSE /\ outputNotify' = TRUE
             /\ pend' = q
             /\ pendingMessages' = [pendingMessages EXCEPT ![f] =
                                      IF joins THEN @ + 1 ELSE @]
             /\ txTimer' = [txTimer EXCEPT ![f] = ~full /\ NextInterval(f, @)]
             /\ UNCHANGED <<flowTransport, messagesSent, messageLimit,
                            offPending, socketVars>>
  /\ UNCHANGED <<oldTransport, pattern, keepAlive, flowSuspended, socketError,
                 lastEvent, loopVars>>

-------------------------------------------------------------------------------
(* MgenFlow::SendMessage over UDP, for a flow that may send: the effect of *)
(* each answer r of SendTo, but for the timer.  A message that was not     *)
(* sent joins the backlog, whether it was in it already or not, except in  *)
(* a flow without a queue.  seq_num is put back when a message is not sent *)
(* and so follows the messages sent; it is left to the TCP model.          *)
(* messages_sent is only ever compared with a count, and a new count sets  *)
(* it to 0: without a count it is not counted.                             *)

Keeps(f) == QueueLimit[f] # 0 \/ UnlimitedRate(f)

BacklogAfter(f, r) ==
  IF r = "OK" THEN IF pendingMessages[f] > 0 THEN pendingMessages[f] - 1 ELSE 0
  ELSE IF Keeps(f) THEN pendingMessages[f] + 1 ELSE pendingMessages[f]

ErrorAfter(f, r) ==
  IF r = "OK" THEN socketError[f] /\ ~(UnlimitedRate(f) /\ txTimer[f])
  ELSE socketError[f] \/ (r = "FAILED" /\ UnlimitedRate(f))

QueueAfter(f, r) ==
  IF r # "OK" /\ Keeps(f) THEN AppendFlow(pend, f) ELSE pend

\* Output notification goes on when the socket is full, off when an unlimited
\* flow cannot send, and on again when that flow can.
NotifyAfter(f, r) ==
  CASE r = "OK" -> outputNotify \/ (socketError[f] /\ ~ErrorAfter(f, r))
    [] r = "BLOCKED" -> outputNotify \/ Keeps(f)
    [] r = "FAILED" -> outputNotify /\ ~UnlimitedRate(f)

\* A full queue stops the timer; the timer also is what retries after an
\* error of an unlimited flow.
TimerAfter(f, r) ==
  LET full == QueueLimit[f] > 0 /\ BacklogAfter(f, r) >= QueueLimit[f]
  IN CASE r = "OK" -> txTimer[f] /\ ~(socketError[f] /\ ~ErrorAfter(f, r))
       [] r = "BLOCKED" -> txTimer[f] /\ ~full
       [] r = "FAILED" -> \/ txTimer[f] /\ ~full
                          \/ UnlimitedRate(f) /\ ~flowSuspended[f]

Sent(f, r) ==
  /\ r \in Results
  /\ r # "OK" => pendingMessages[f] < MaxPending
  /\ messagesSent' = [messagesSent EXCEPT ![f] =
                        IF r = "OK" /\ messageLimit[f] >= 0 THEN @ + 1 ELSE @]
  /\ pendingMessages' = [pendingMessages EXCEPT ![f] = BacklogAfter(f, r)]
  /\ socketError' = [socketError EXCEPT ![f] = ErrorAfter(f, r)]

\* The timer sends a message.  An unlimited flow goes on through output
\* notification, or after an error with a short timer; another one as
\* GetNextInterval says.
TxSend(f, r) ==
  /\ TxReady(f)
  /\ ~offPending[f]
  /\ ~Waits(f)
  /\ IF StopsAtZero(f)
     THEN /\ r \in Results
          /\ socketError' = [socketError EXCEPT ![f] = ErrorAfter(f, r)]
          /\ StopFlow(f, NotifyAfter(f, r), QueueAfter(f, r))
     ELSE LET goesOn == UnlimitedRate(f) /\ ~ErrorAfter(f, r)
          IN /\ Sent(f, r)
             /\ pend' = IF goesOn THEN AppendFlow(pend, f) ELSE QueueAfter(f, r)
             /\ outputNotify' = (goesOn \/ NotifyAfter(f, r))
             /\ txTimer' = [txTimer EXCEPT ![f] =
                              IF UnlimitedRate(f) THEN ~goesOn
                              ELSE NextInterval(f, TimerAfter(f, r))]
             /\ UNCHANGED <<flowTransport, messageLimit, offPending, socketVars>>
  /\ UNCHANGED <<oldTransport, pattern, keepAlive, flowSuspended, lastEvent,
                 loopVars>>

-------------------------------------------------------------------------------
(* MgenTransport::SendPendingMessage, called when the socket is writable.  *)

OutputReady ==
  /\ ~serving
  /\ outputNotify
  /\ socketOpen
  /\ serving' = TRUE
  /\ breakOut' = 0
  /\ UNCHANGED <<flowVars, socketVars, outputNotify, pend>>

\* Is there something to send for the flow at the cursor?
SendMore(f) == ~(messageLimit[f] >= 0) \/ messagesSent[f] < messageLimit[f]
ToSend(f) == pendingMessages[f] > 0 \/ (UnlimitedRate(f) /\ SendMore(f))
Serves(f) == serving /\ socketOpen /\ pend.cur = f

EndLoop == serving' = FALSE /\ breakOut' = 0

\* Mutants: the timer waits for one message less, and a flow leaves the round
\* robin whatever its backlog.
BelowLimitLate(f, b) == QueueLimit[f] > 0 /\ b < QueueLimit[f] - 1
DrainedAnyway(f, b) == TRUE

\* With b messages left of its backlog, may the timer of f go on, and has f
\* nothing to wait for?
BelowLimit(f, b) == \/ QueueLimit[f] > 0 /\ b < QueueLimit[f]
                    \/ QueueLimit[f] < 0 /\ b = 0
                    \/ QueueLimit[f] = 0
Drained(f, b) == b = 0 /\ (~UnlimitedRate(f) \/ ~SendMore(f))

\* The rest of an iteration, with b messages left of the flow's backlog and
\* its timer running or not (t): restart the timer of a queue below its limit,
\* take a flow without backlog out, and move on.
ServeNext(f, b, t) ==
  /\ txTimer' = [txTimer EXCEPT ![f] =
       t \/ (BelowLimit(f, b) /\ ~UnlimitedRate(f) /\ ~flowSuspended[f])]
  /\ pend' = IF Drained(f, b) THEN RemoveFromPendingList(pend) ELSE Advance(pend)
  /\ IF Drained(f, b) \/ breakOut < PendingMessageLimit
     THEN serving' = TRUE /\ breakOut' = breakOut + 1
     ELSE EndLoop

\* A flow that is to send: it stops if its OFF is pending and its rate is
\* unlimited, cannot if its count is reached, and else tries.  Whatever keeps
\* it from sending ends the loop.
ServeStop(f) ==
  /\ Serves(f)
  /\ ToSend(f)
  /\ offPending[f]
  /\ UnlimitedRate(f)
  /\ StopFlow(f, outputNotify, pend)
  /\ EndLoop
  /\ UNCHANGED <<oldTransport, pattern, keepAlive, flowSuspended, socketError,
                 lastEvent>>

ServeCounted(f) ==
  /\ Serves(f)
  /\ ToSend(f)
  /\ ~(offPending[f] /\ UnlimitedRate(f))
  /\ LimitReached(f)
  /\ txTimer' = [txTimer EXCEPT ![f] = FALSE]
  /\ EndLoop
  /\ UNCHANGED <<flowTransport, oldTransport, pattern, pendingMessages,
                 messagesSent, messageLimit, keepAlive, offPending,
                 flowSuspended, socketError, lastEvent, socketVars,
                 outputNotify, pend>>

ServeSend(f, r) ==
  /\ Serves(f)
  /\ ToSend(f)
  /\ ~(offPending[f] /\ UnlimitedRate(f))
  /\ ~LimitReached(f)
  /\ Sent(f, r)
  /\ outputNotify' = NotifyAfter(f, r)
  /\ IF r = "OK"
     THEN ServeNext(f, BacklogAfter(f, r), TimerAfter(f, r))
     ELSE /\ pend' = QueueAfter(f, r)
          /\ txTimer' = [txTimer EXCEPT ![f] = TimerAfter(f, r)]
          /\ EndLoop
  /\ UNCHANGED <<flowTransport, oldTransport, pattern, messageLimit, keepAlive,
                 offPending, flowSuspended, lastEvent, socketVars>>

ServeSkip(f) ==
  /\ Serves(f)
  /\ ~ToSend(f)
  /\ ServeNext(f, pendingMessages[f], txTimer[f])
  /\ UNCHANGED <<flowTransport, oldTransport, pattern, pendingMessages,
                 messagesSent, messageLimit, keepAlive, offPending,
                 flowSuspended, socketError, lastEvent, socketVars,
                 outputNotify>>

\* The list is empty, or the socket closed: stop asking for the socket.
ServeEnd ==
  /\ serving
  /\ ~socketOpen \/ pend.cur = NoFlow
  /\ EndLoop
  /\ outputNotify' = (outputNotify /\ pend.list # << >>)
  /\ UNCHANGED <<flowVars, socketVars, pend>>

-------------------------------------------------------------------------------
Serve ==
  \/ OutputReady
  \/ \E f \in Flow :
       \/ ServeStop(f)
       \/ ServeCounted(f)
       \/ ServeSkip(f)
       \/ \E r \in Results : ServeSend(f, r)
  \/ ServeEnd

TxTimeout(f) ==
  \/ TxCounted(f)
  \/ TxLeaveOld(f)
  \/ TxOff(f)
  \/ TxQueue(f)
  \/ \E r \in Results : TxSend(f, r)

Script(f) ==
  \/ \E p \in Patterns, c \in Counts \cup {NoCount}, k, d \in BOOLEAN :
       On(f, p, c, k, d)
  \/ \E p \in Patterns, c \in Counts \cup {NoCount}, k \in BOOLEAN :
       Mod(f, p, c, k)
  \/ ModDestination(f)
  \/ Off(f)

Remote(f) == Suspend(f) \/ Resume(f) \/ Reset(f)

Next == Serve \/ \E f \in Flow : Script(f) \/ Remote(f) \/ TxTimeout(f)

Spec == Init /\ [][Next]_vars

-------------------------------------------------------------------------------
(* Properties.                                                             *)

\* Every flow on the transport holds one reference to it, every flow that is
\* leaving it another, and the socket is open exactly as long as there is one.
ReferencesMatch ==
  /\ referenceCount = Cardinality({f \in Flow : flowTransport[f]})
                      + Cardinality({f \in Flow : oldTransport[f]})
  /\ socketOpen <=> referenceCount > 0

\* Where the events of a script come in order (ValidateEvent) a flow is on its
\* transport from its ON until its OFF is done, and never holds two references.
OnOnce ==
  \A f \in Flow :
    /\ ~oldTransport[f]
    /\ offPending[f] => flowTransport[f]
    /\ flowTransport[f] => lastEvent[f] \in {"ON", "MOD"} \/ offPending[f]

\* The round robin holds no flow twice and its cursor never dangles; a flow
\* waits in it whenever it has a backlog, and only while it is on.
BacklogQueued ==
  /\ WellFormed(pend)
  /\ \A f \in Flow :
       /\ pendingMessages[f] > 0 => f \in Queued(pend)
       /\ f \in Queued(pend) => flowTransport[f]

\* Whatever the order of the events, the round robin holds no flow twice and
\* its cursor is on a flow in it.
RoundRobin == WellFormed(pend)

\* The count of messages sent never passes the COUNT in force, over every mix
\* of timer, output notification, retries and new counts.
SentWithinCount ==
  \A f \in Flow : messageLimit[f] >= 0 => messagesSent[f] <= messageLimit[f]

\* The timer of a suspended flow is never started behind its back.
SuspendedTimerOff == \A f \in Flow : flowSuspended[f] => ~txTimer[f]

\* No lost wakeup: a flow that has a rate and no count to reach, or an OFF to
\* complete, is going to be called, by its timer or by the socket.
Wakes(f) == txTimer[f] \/ (outputNotify /\ f \in Queued(pend))
NoLostWakeup ==
  \A f \in Flow :
    (/\ flowTransport[f]
     /\ ~flowSuspended[f]
     /\ ~LimitReached(f)
     /\ pattern[f] # "zero" \/ offPending[f])
      => Wakes(f)

\* A socket is closed only when no flow is left on it.
ClosedUnused ==
  [][socketOpen /\ ~socketOpen' => \A f \in Flow : ~flowTransport'[f]]_vars

-------------------------------------------------------------------------------
(* Liveness.  The dispatcher fires an active timer once its time has come  *)
(* and calls a handler for a writable socket whose notification is on, and *)
(* a handler runs to its end.  Of the network it is assumed that congestion *)
(* ends: from some time on, SendTo takes what it is given.                 *)

SendFails == \E f \in Flow, r \in Results \ {"OK"} : ServeSend(f, r) \/ TxSend(f, r)

Fairness ==
  /\ WF_vars(Serve)
  /\ \A f \in Flow : SF_vars(TxTimeout(f))
  /\ <>[][~SendFails]_vars

FairSpec == Spec /\ Fairness

\* A deferred OFF completes (or the flow is started again).
OffCompletes == \A f \in Flow : offPending[f] ~> ~offPending[f]

\* Every backlog is served, or dropped with the flow.
BacklogServed ==
  \A f \in Flow :
    pendingMessages[f] > 0 ~> (Serves(f) \/ pendingMessages[f] = 0)
================================================================================
