---------------------------- MODULE Waiting_proofs -----------------------------
(***************************************************************************)
(* Flows with messages waiting.  Proofs about UdpFlows, for any set of     *)
(* flows, any queue limits, counts, patterns and commands; about the lists *)
(* that transports keep in the links of their flows (PendingList, which is *)
(* Lists in MCWaiting), for any flows and transports; and about the stream *)
(* of a sink (SinkStream, which is Sink there), for any lengths of messages*)
(* and any size of the pipe.                                               *)
(***************************************************************************)
EXTENDS MCWaiting, PendingQueueLemmas, FiniteSetTheorems, FunctionTheorems, SequenceTheorems,
        WellFoundedInduction, NaturalsInduction

\* The inductive invariant behind type correctness: the cursor of the round
\* robin must be in its list, or the flow to take out of it would be unknown.
Typed == TypeOK /\ RoundRobin

LEMMA TypedRound == Typed => Round(pend)
BY DEF Typed, TypeOK, RoundRobin, Round

\* What StopFlow leaves behind has the right types.
LEMMA StopFlowTyped ==
  ASSUME Typed, NEW f \in Flow, NEW n \in BOOLEAN, NEW q, Round(q), StopFlow(f, n, q)
  PROVE  /\ Round(pend')
         /\ referenceCount' \in Nat
         /\ socketOpen' \in BOOLEAN
         /\ outputNotify' \in BOOLEAN
         /\ messageLimit' \in [Flow -> Nat \cup {Unlimited}]
         /\ pendingMessages' \in [Flow -> Nat]
         /\ messagesSent' \in [Flow -> Nat]
         /\ offPending' \in [Flow -> BOOLEAN]
         /\ txTimer' \in [Flow -> BOOLEAN]
         /\ flowTransport' \in [Flow -> BOOLEAN]
<1>1. Round(RemoveFlow(q, f))
  BY RemoveFlowProperties
<1>2. Round(pend')
  BY <1>1 DEF StopFlow
<1>3. referenceCount' \in Nat
  BY DEF StopFlow, Close, Typed, TypeOK, socketVars
<1>4. socketOpen' \in BOOLEAN /\ outputNotify' \in BOOLEAN
  <2>1. CASE flowTransport[f]
    BY <2>1 DEF StopFlow, Close
  <2>2. CASE ~flowTransport[f]
    BY <2>2 DEF StopFlow, Typed, TypeOK, socketVars
  <2> QED
    BY <2>1, <2>2
<1>5. /\ messageLimit' \in [Flow -> Nat \cup {Unlimited}]
      /\ pendingMessages' \in [Flow -> Nat]
      /\ messagesSent' \in [Flow -> Nat]
      /\ offPending' \in [Flow -> BOOLEAN]
      /\ txTimer' \in [Flow -> BOOLEAN]
      /\ flowTransport' \in [Flow -> BOOLEAN]
  BY DEF StopFlow, Typed, TypeOK
<1> QED
  BY <1>2, <1>3, <1>4, <1>5

LEMMA TypedInit == Init => Typed
<1> SUFFICES ASSUME Init PROVE Typed
  OBVIOUS
<1>1. pend \in Queues /\ RoundRobin
  BY EmptyQueueProperties DEF Init, RoundRobin, Round
<1>2. TypeOK
  BY <1>1 DEF Init, TypeOK, EventTypes, Unlimited
<1> QED
  BY <1>1, <1>2 DEF Typed

\* Script events and remote commands.
LEMMA SetCountTyped ==
  ASSUME Typed, NEW f \in Flow, NEW c \in Counts \cup {NoCount}, NEW k \in BOOLEAN,
         SetCount(f, c, k)
  PROVE  /\ messageLimit' \in [Flow -> Nat \cup {Unlimited}]
         /\ messagesSent' \in [Flow -> Nat]
         /\ keepAlive' \in [Flow -> BOOLEAN]
BY UdpFlowsAssumption DEF SetCount, Typed, TypeOK, Unlimited, NoCount

LEMMA OnTyped ==
  ASSUME Typed, NEW f \in Flow, NEW p \in Patterns, NEW c \in Counts \cup {NoCount},
         NEW k \in BOOLEAN, NEW d \in BOOLEAN, On(f, p, c, k, d)
  PROVE  Typed'
<1>1. Round(pend) /\ Round(RemoveFlow(pend, f))
  BY TypedRound, RemoveFlowProperties
<1>2. /\ messageLimit' \in [Flow -> Nat \cup {Unlimited}]
      /\ messagesSent' \in [Flow -> Nat]
      /\ keepAlive' \in [Flow -> BOOLEAN]
  BY SetCountTyped DEF On
<1>3. /\ flowTransport' \in [Flow -> BOOLEAN]
      /\ pattern' \in [Flow -> {"rate", "zero", "fast"}]
      /\ lastEvent' \in [Flow -> EventTypes]
  BY UdpFlowsAssumption DEF On, Typed, TypeOK, EventTypes
<1>4. Scheduled(f, p) \in BOOLEAN
  BY UdpFlowsAssumption DEF Scheduled, Typed, TypeOK
<1>5. /\ Round(pend')
      /\ oldTransport' \in [Flow -> BOOLEAN]
      /\ txTimer' \in [Flow -> BOOLEAN]
      /\ pendingMessages' \in [Flow -> Nat]
      /\ offPending' \in [Flow -> BOOLEAN]
      /\ socketOpen' \in BOOLEAN
      /\ referenceCount' \in Nat
  <2>1. CASE OnOpened(f, p, d)
    BY <1>1, <1>4, <2>1 DEF OnOpened, Typed, TypeOK
  <2>2. CASE OnNotOpened(f)
    BY <1>1, <2>2 DEF OnNotOpened, Typed, TypeOK, socketVars
  <2> QED
    BY <2>1, <2>2 DEF On
<1>6. UNCHANGED <<flowSuspended, socketError, outputNotify, serving, breakOut>>
  BY DEF On, loopVars
<1> QED
  BY <1>2, <1>3, <1>5, <1>6 DEF Typed, TypeOK, RoundRobin, Round

LEMMA ModTyped ==
  ASSUME Typed, NEW f \in Flow, NEW p \in Patterns, NEW c \in Counts \cup {NoCount},
         NEW k \in BOOLEAN, Mod(f, p, c, k)
  PROVE  Typed'
<1>1. /\ messageLimit' \in [Flow -> Nat \cup {Unlimited}]
      /\ messagesSent' \in [Flow -> Nat]
      /\ keepAlive' \in [Flow -> BOOLEAN]
  <2>1. CASE flowTransport[f]
    BY <2>1, SetCountTyped DEF Mod
  <2>2. CASE ~flowTransport[f]
    BY <2>2 DEF Mod, Typed, TypeOK
  <2> QED
    BY <2>1, <2>2
<1>2. Scheduled(f, p) \in BOOLEAN
  BY UdpFlowsAssumption DEF Scheduled, Typed, TypeOK
<1>3. /\ pattern' \in [Flow -> {"rate", "zero", "fast"}]
      /\ txTimer' \in [Flow -> BOOLEAN]
      /\ lastEvent' \in [Flow -> EventTypes]
  BY <1>2, UdpFlowsAssumption DEF Mod, Typed, TypeOK, EventTypes
<1>4. UNCHANGED <<flowTransport, oldTransport, pendingMessages, offPending,
                  flowSuspended, socketError, socketOpen, referenceCount,
                  outputNotify, pend, serving, breakOut>>
  BY DEF Mod, loopVars, socketVars
<1> QED
  BY <1>1, <1>3, <1>4 DEF Typed, TypeOK, RoundRobin

LEMMA ModDestinationTyped ==
  ASSUME Typed, NEW f \in Flow, ModDestination(f)
  PROVE  Typed'
<1>1. Scheduled(f, pattern[f]) \in BOOLEAN
  BY DEF Scheduled, Typed, TypeOK
<1>2. lastEvent' \in [Flow -> EventTypes]
  BY DEF ModDestination, Typed, TypeOK, EventTypes
<1>3. /\ oldTransport' \in [Flow -> BOOLEAN]
      /\ pendingMessages' \in [Flow -> Nat]
      /\ txTimer' \in [Flow -> BOOLEAN]
      /\ outputNotify' \in BOOLEAN
      /\ socketOpen' \in BOOLEAN
      /\ referenceCount' \in Nat
  <2>1. CASE flowTransport[f]
    <3> DEFINE kept == IF referenceCount > 0 THEN referenceCount - 1 ELSE 0
    <3>1. /\ oldTransport' = [oldTransport EXCEPT ![f] = FALSE]
          /\ pendingMessages' = [pendingMessages EXCEPT ![f] = 0]
          /\ outputNotify' = (outputNotify /\ ~(referenceCount = 1))
          /\ txTimer' = [txTimer EXCEPT ![f] = Scheduled(f, pattern[f])]
          /\ socketOpen' \in {TRUE, FALSE}
          /\ referenceCount' \in {kept, kept + 1}
      BY <2>1 DEF ModDestination
    <3>2. kept \in Nat
      BY DEF Typed, TypeOK
    <3>3. referenceCount' \in Nat
      BY <3>1, <3>2
    <3> QED
      BY <1>1, <3>1, <3>3 DEF Typed, TypeOK
  <2>2. CASE ~flowTransport[f]
    <3>1. UNCHANGED <<oldTransport, pendingMessages, outputNotify, socketOpen,
                      referenceCount, txTimer>>
      BY <2>2 DEF ModDestination, socketVars
    <3> QED
      BY <3>1 DEF Typed, TypeOK
  <2> QED
    BY <2>1, <2>2
<1>4. UNCHANGED <<flowTransport, pattern, messagesSent, messageLimit, keepAlive,
                  offPending, flowSuspended, socketError, pend, serving, breakOut>>
  BY DEF ModDestination, loopVars
<1> QED
  BY <1>2, <1>3, <1>4 DEF Typed, TypeOK, RoundRobin

LEMMA OffTyped ==
  ASSUME Typed, NEW f \in Flow, Off(f)
  PROVE  Typed'
<1>1. Round(pend) /\ Round(AppendFlow(pend, f))
  BY TypedRound, AppendFlowProperties
<1>2. outputNotify \in BOOLEAN /\ lastEvent' \in [Flow -> EventTypes]
  BY DEF Off, Typed, TypeOK, EventTypes
<1>3. /\ Round(pend')
      /\ referenceCount' \in Nat
      /\ socketOpen' \in BOOLEAN
      /\ outputNotify' \in BOOLEAN
      /\ messageLimit' \in [Flow -> Nat \cup {Unlimited}]
      /\ pendingMessages' \in [Flow -> Nat]
      /\ messagesSent' \in [Flow -> Nat]
      /\ offPending' \in [Flow -> BOOLEAN]
      /\ txTimer' \in [Flow -> BOOLEAN]
      /\ flowTransport' \in [Flow -> BOOLEAN]
  <2>1. CASE flowTransport[f] /\ pendingMessages[f] > 0 /\ ~socketError[f]
    BY <1>1, <2>1 DEF Off, Typed, TypeOK, socketVars
  <2>2. CASE ~(flowTransport[f] /\ pendingMessages[f] > 0 /\ ~socketError[f])
    <3> DEFINE q == IF flowTransport[f] /\ pendingMessages[f] > 0
                    THEN AppendFlow(pend, f) ELSE pend
    <3>1. StopFlow(f, outputNotify, q)
      BY <2>2 DEF Off
    <3>2. Round(q)
      BY <1>1
    <3> HIDE DEF q
    <3> QED
      BY <1>2, <3>1, <3>2, StopFlowTyped
  <2> QED
    BY <2>1, <2>2
<1>4. UNCHANGED <<oldTransport, pattern, keepAlive, flowSuspended, socketError,
                  serving, breakOut>>
  BY DEF Off, loopVars
<1> QED
  BY <1>2, <1>3, <1>4 DEF Typed, TypeOK, RoundRobin, Round

LEMMA RemoteTyped ==
  ASSUME Typed, NEW f \in Flow, Remote(f)
  PROVE  Typed'
<1>1. CASE Suspend(f)
  BY <1>1 DEF Suspend, Typed, TypeOK, RoundRobin, loopVars, socketVars
<1>2. CASE Resume(f)
  BY <1>2 DEF Resume, Wake, Typed, TypeOK, RoundRobin, loopVars, socketVars
<1>3. CASE Reset(f)
  BY <1>3 DEF Reset, Wake, Typed, TypeOK, RoundRobin, loopVars, socketVars
<1> QED
  BY <1>1, <1>2, <1>3 DEF Remote

-------------------------------------------------------------------------------
(* The transmission timer.                                                 *)

LEMMA TxCountedTyped ==
  ASSUME Typed, NEW f \in Flow, TxCounted(f)
  PROVE  Typed'
<1>1. UNCHANGED <<oldTransport, pattern, keepAlive, flowSuspended, socketError,
                  lastEvent, serving, breakOut>>
  BY DEF TxCounted, loopVars
<1>2. CASE keepAlive[f]
  <2>1. txTimer' \in [Flow -> BOOLEAN]
    BY <1>2 DEF TxCounted, Typed, TypeOK
  <2>2. UNCHANGED <<flowTransport, pendingMessages, messagesSent, messageLimit,
                    offPending, socketOpen, referenceCount, outputNotify, pend>>
    BY <1>2 DEF TxCounted, socketVars
  <2> QED
    BY <1>1, <2>1, <2>2 DEF Typed, TypeOK, RoundRobin
<1>3. CASE ~keepAlive[f]
  <2>1. StopFlow(f, outputNotify, pend) /\ outputNotify \in BOOLEAN
    BY <1>3 DEF TxCounted, Typed, TypeOK
  <2>2. Round(pend)
    BY TypedRound
  <2>3. /\ Round(pend')
        /\ referenceCount' \in Nat
        /\ socketOpen' \in BOOLEAN
        /\ outputNotify' \in BOOLEAN
        /\ messageLimit' \in [Flow -> Nat \cup {Unlimited}]
        /\ pendingMessages' \in [Flow -> Nat]
        /\ messagesSent' \in [Flow -> Nat]
        /\ offPending' \in [Flow -> BOOLEAN]
        /\ txTimer' \in [Flow -> BOOLEAN]
        /\ flowTransport' \in [Flow -> BOOLEAN]
    BY <2>1, <2>2, StopFlowTyped
  <2> QED
    BY <1>1, <2>3 DEF Typed, TypeOK, RoundRobin, Round
<1> QED
  BY <1>2, <1>3

LEMMA TxLeaveOldTyped ==
  ASSUME Typed, NEW f \in Flow, TxLeaveOld(f)
  PROVE  Typed'
<1>1. Round(pend')
  BY TypedRound, RemoveFlowProperties DEF TxLeaveOld
<1>2. oldTransport' \in [Flow -> BOOLEAN]
  BY DEF TxLeaveOld, Typed, TypeOK
<1>3. referenceCount' \in Nat /\ socketOpen' \in BOOLEAN /\ outputNotify' \in BOOLEAN
  <2>1. CASE socketOpen
    <3>1. referenceCount' \in Nat
      BY <2>1 DEF TxLeaveOld, Close, Typed, TypeOK
    <3>2. socketOpen' \in BOOLEAN /\ outputNotify' \in BOOLEAN
      BY <2>1 DEF TxLeaveOld, Close
    <3> QED
      BY <3>1, <3>2
  <2>2. CASE ~socketOpen
    BY <2>2 DEF TxLeaveOld, Typed, TypeOK, socketVars
  <2> QED
    BY <2>1, <2>2
<1>4. UNCHANGED <<flowTransport, pattern, txTimer, pendingMessages, messagesSent,
                  messageLimit, keepAlive, offPending, flowSuspended, socketError,
                  lastEvent, serving, breakOut>>
  BY DEF TxLeaveOld, loopVars
<1> QED
  BY <1>1, <1>2, <1>3, <1>4 DEF Typed, TypeOK, RoundRobin, Round

LEMMA TxOffTyped ==
  ASSUME Typed, NEW f \in Flow, TxOff(f)
  PROVE  Typed'
<1>1. UNCHANGED <<oldTransport, pattern, keepAlive, flowSuspended, socketError,
                  lastEvent, serving, breakOut>>
  BY DEF TxOff, loopVars
<1>2. CASE pendingMessages[f] > 0 /\ ~socketError[f]
  <2>1. txTimer' \in [Flow -> BOOLEAN] /\ outputNotify' \in BOOLEAN
    BY <1>2 DEF TxOff, Typed, TypeOK
  <2>2. Round(pend')
    BY <1>2, TypedRound, AppendFlowProperties DEF TxOff
  <2>3. UNCHANGED <<flowTransport, pendingMessages, messagesSent, messageLimit,
                    offPending, socketOpen, referenceCount>>
    BY <1>2 DEF TxOff, socketVars
  <2> QED
    BY <1>1, <2>1, <2>2, <2>3 DEF Typed, TypeOK, RoundRobin, Round
<1>3. CASE ~(pendingMessages[f] > 0 /\ ~socketError[f])
  <2>1. StopFlow(f, outputNotify, pend) /\ outputNotify \in BOOLEAN
    BY <1>3 DEF TxOff, Typed, TypeOK
  <2>2. Round(pend)
    BY TypedRound
  <2>3. /\ Round(pend')
        /\ referenceCount' \in Nat
        /\ socketOpen' \in BOOLEAN
        /\ outputNotify' \in BOOLEAN
        /\ messageLimit' \in [Flow -> Nat \cup {Unlimited}]
        /\ pendingMessages' \in [Flow -> Nat]
        /\ messagesSent' \in [Flow -> Nat]
        /\ offPending' \in [Flow -> BOOLEAN]
        /\ txTimer' \in [Flow -> BOOLEAN]
        /\ flowTransport' \in [Flow -> BOOLEAN]
    BY <2>1, <2>2, StopFlowTyped
  <2> QED
    BY <1>1, <2>3 DEF Typed, TypeOK, RoundRobin, Round
<1> QED
  BY <1>2, <1>3

LEMMA TxQueueTyped ==
  ASSUME Typed, NEW f \in Flow, TxQueue(f)
  PROVE  Typed'
<1> DEFINE joins == QueueLimit[f] > 0
           full  == joins /\ pendingMessages[f] + 1 >= QueueLimit[f]
           q     == IF joins THEN AppendFlow(pend, f) ELSE pend
<1>1. UNCHANGED <<oldTransport, pattern, keepAlive, flowSuspended, socketError,
                  lastEvent, serving, breakOut>>
  BY DEF TxQueue, loopVars
<1>2. Round(q)
  BY TypedRound, AppendFlowProperties
<1>3. CASE ~full /\ StopsAtZero(f)
  <2>1. StopFlow(f, TRUE, q)
    BY <1>3 DEF TxQueue
  <2> HIDE DEF q
  <2>2. /\ Round(pend')
        /\ referenceCount' \in Nat
        /\ socketOpen' \in BOOLEAN
        /\ outputNotify' \in BOOLEAN
        /\ messageLimit' \in [Flow -> Nat \cup {Unlimited}]
        /\ pendingMessages' \in [Flow -> Nat]
        /\ messagesSent' \in [Flow -> Nat]
        /\ offPending' \in [Flow -> BOOLEAN]
        /\ txTimer' \in [Flow -> BOOLEAN]
        /\ flowTransport' \in [Flow -> BOOLEAN]
    BY <1>2, <2>1, StopFlowTyped
  <2> QED
    BY <1>1, <2>2 DEF Typed, TypeOK, RoundRobin, Round
<1>4. CASE ~(~full /\ StopsAtZero(f))
  <2>1. /\ outputNotify' = TRUE
        /\ pend' = q
        /\ pendingMessages' = [pendingMessages EXCEPT ![f] = IF joins THEN @ + 1 ELSE @]
        /\ txTimer' = [txTimer EXCEPT ![f] = ~full /\ NextInterval(f, @)]
        /\ UNCHANGED <<flowTransport, messagesSent, messageLimit, offPending,
                       socketOpen, referenceCount>>
    BY <1>4 DEF TxQueue, socketVars
  <2> HIDE DEF full, q, joins
  <2>2. pendingMessages' \in [Flow -> Nat]
    BY <2>1 DEF Typed, TypeOK
  <2>3. txTimer' \in [Flow -> BOOLEAN]
    <3>1. (~full /\ NextInterval(f, txTimer[f])) \in BOOLEAN
      OBVIOUS
    <3> QED
      BY <2>1, <3>1 DEF Typed, TypeOK
  <2> QED
    BY <1>1, <1>2, <2>1, <2>2, <2>3 DEF Typed, TypeOK, RoundRobin, Round
<1> QED
  BY <1>3, <1>4

-------------------------------------------------------------------------------
(* SendMessage, from the timer and from the loop of SendPendingMessage.    *)

LEMMA SendResultsTyped ==
  ASSUME Typed, NEW f \in Flow, NEW r \in Results
  PROVE  /\ BacklogAfter(f, r) \in Nat
         /\ ErrorAfter(f, r) \in BOOLEAN
         /\ NotifyAfter(f, r) \in BOOLEAN
         /\ TimerAfter(f, r) \in BOOLEAN
         /\ Round(QueueAfter(f, r))
<1>1. BacklogAfter(f, r) \in Nat
  BY DEF BacklogAfter, Typed, TypeOK
<1>2. ErrorAfter(f, r) \in BOOLEAN
  BY DEF ErrorAfter
<1>3. r = "OK" \/ r = "BLOCKED" \/ r = "FAILED"
  BY UdpFlowsAssumption
<1>4. NotifyAfter(f, r) \in BOOLEAN
  BY <1>3 DEF NotifyAfter
<1>5. TimerAfter(f, r) \in BOOLEAN
  BY <1>3 DEF TimerAfter
<1>6. Round(QueueAfter(f, r))
  BY TypedRound, AppendFlowProperties DEF QueueAfter
<1> QED
  BY <1>1, <1>2, <1>4, <1>5, <1>6

LEMMA SentTyped ==
  ASSUME Typed, NEW f \in Flow, NEW r \in Results, Sent(f, r)
  PROVE  /\ messagesSent' \in [Flow -> Nat]
         /\ pendingMessages' \in [Flow -> Nat]
         /\ socketError' \in [Flow -> BOOLEAN]
BY SendResultsTyped DEF Sent, Typed, TypeOK

LEMMA TxSendTyped ==
  ASSUME Typed, NEW f \in Flow, NEW r \in Results, TxSend(f, r)
  PROVE  Typed'
<1>1. UNCHANGED <<oldTransport, pattern, keepAlive, flowSuspended, lastEvent,
                  serving, breakOut>>
  BY DEF TxSend, loopVars
<1>2. /\ NotifyAfter(f, r) \in BOOLEAN
      /\ ErrorAfter(f, r) \in BOOLEAN
      /\ Round(QueueAfter(f, r))
      /\ Round(AppendFlow(pend, f))
  BY SendResultsTyped, TypedRound, AppendFlowProperties
<1>3. CASE StopsAtZero(f)
  <2>1. /\ StopFlow(f, NotifyAfter(f, r), QueueAfter(f, r))
        /\ socketError' = [socketError EXCEPT ![f] = ErrorAfter(f, r)]
    BY <1>3 DEF TxSend
  <2>2. socketError' \in [Flow -> BOOLEAN]
    BY <1>2, <2>1 DEF Typed, TypeOK
  <2>3. /\ Round(pend')
        /\ referenceCount' \in Nat
        /\ socketOpen' \in BOOLEAN
        /\ outputNotify' \in BOOLEAN
        /\ messageLimit' \in [Flow -> Nat \cup {Unlimited}]
        /\ pendingMessages' \in [Flow -> Nat]
        /\ messagesSent' \in [Flow -> Nat]
        /\ offPending' \in [Flow -> BOOLEAN]
        /\ txTimer' \in [Flow -> BOOLEAN]
        /\ flowTransport' \in [Flow -> BOOLEAN]
    BY <1>2, <2>1, StopFlowTyped
  <2> QED
    BY <1>1, <2>2, <2>3 DEF Typed, TypeOK, RoundRobin, Round
<1>4. CASE ~StopsAtZero(f)
  <2> DEFINE goesOn == UnlimitedRate(f) /\ ~ErrorAfter(f, r)
             t == IF UnlimitedRate(f) THEN ~goesOn
                  ELSE NextInterval(f, TimerAfter(f, r))
  <2>1. /\ Sent(f, r)
        /\ pend' = IF goesOn THEN AppendFlow(pend, f) ELSE QueueAfter(f, r)
        /\ outputNotify' = (goesOn \/ NotifyAfter(f, r))
        /\ txTimer' = [txTimer EXCEPT ![f] = t]
        /\ UNCHANGED <<flowTransport, messageLimit, offPending, socketOpen,
                       referenceCount>>
    BY <1>4 DEF TxSend, socketVars
  <2>2. t \in BOOLEAN
    BY DEF NextInterval
  <2>3. outputNotify' \in BOOLEAN /\ Round(pend')
    BY <1>2, <2>1
  <2> HIDE DEF t
  <2>4. txTimer' \in [Flow -> BOOLEAN]
    BY <2>1, <2>2 DEF Typed, TypeOK
  <2>5. /\ messagesSent' \in [Flow -> Nat]
        /\ pendingMessages' \in [Flow -> Nat]
        /\ socketError' \in [Flow -> BOOLEAN]
    BY <2>1, SentTyped
  <2> QED
    BY <1>1, <2>1, <2>3, <2>4, <2>5 DEF Typed, TypeOK, RoundRobin, Round
<1> QED
  BY <1>3, <1>4

\* The flow the loop serves is in the list.
LEMMA ServedQueued ==
  ASSUME Typed, NEW f \in Flow, Serves(f)
  PROVE  pend.list # << >> /\ pend.cur = f /\ f \in Queued(pend)
<1>1. pend.list # << >> /\ pend.cur = f
  BY TypedRound, RoundElim, NoFlowAssumption DEF Serves
<1> QED
  BY <1>1, TypedRound, AfterProperties

LEMMA ServeNextTyped ==
  ASSUME Typed, NEW f \in Flow, Serves(f), NEW b \in Nat, NEW t \in BOOLEAN,
         ServeNext(f, b, t)
  PROVE  /\ txTimer' \in [Flow -> BOOLEAN]
         /\ Round(pend')
         /\ serving' \in BOOLEAN
         /\ breakOut' \in Nat
<1>1. Round(RemoveFromPendingList(pend)) /\ Round(Advance(pend))
  BY TypedRound, ServedQueued, RemoveFromPendingListProperties, AdvanceProperties
<1>2. Round(pend')
  BY <1>1 DEF ServeNext
<1>3. serving' \in BOOLEAN /\ breakOut' \in Nat
  <2>1. \/ serving' = TRUE /\ breakOut' = breakOut + 1
        \/ serving' = FALSE /\ breakOut' = 0
    BY DEF ServeNext, EndLoop
  <2>2. serving' \in BOOLEAN
    BY <2>1
  <2>3. breakOut \in Nat
    BY DEF Typed, TypeOK
  <2> QED
    BY <2>1, <2>2, <2>3
<1>4. txTimer' \in [Flow -> BOOLEAN]
  BY DEF ServeNext, Typed, TypeOK
<1> QED
  BY <1>2, <1>3, <1>4

LEMMA ServeTyped ==
  ASSUME Typed, Serve
  PROVE  Typed'
<1>1. CASE OutputReady
  <2>1. serving' \in BOOLEAN /\ breakOut' \in Nat
    BY <1>1 DEF OutputReady
  <2>2. UNCHANGED <<flowTransport, oldTransport, pattern, txTimer,
                    pendingMessages, messagesSent, messageLimit, keepAlive,
                    offPending, flowSuspended, socketError, lastEvent,
                    socketOpen, referenceCount, outputNotify, pend>>
    BY <1>1 DEF OutputReady, flowVars, socketVars
  <2> QED
    BY <2>1, <2>2 DEF Typed, TypeOK, RoundRobin
<1>2. CASE ServeEnd
  <2>1. serving' \in BOOLEAN /\ breakOut' \in Nat /\ outputNotify' \in BOOLEAN
    BY <1>2 DEF ServeEnd, EndLoop
  <2>2. UNCHANGED <<flowTransport, oldTransport, pattern, txTimer,
                    pendingMessages, messagesSent, messageLimit, keepAlive,
                    offPending, flowSuspended, socketError, lastEvent,
                    socketOpen, referenceCount, pend>>
    BY <1>2 DEF ServeEnd, flowVars, socketVars
  <2> QED
    BY <2>1, <2>2 DEF Typed, TypeOK, RoundRobin
<1>3. ASSUME NEW f \in Flow, ServeStop(f) PROVE Typed'
  <2>1. StopFlow(f, outputNotify, pend) /\ outputNotify \in BOOLEAN
    BY <1>3 DEF ServeStop, Typed, TypeOK
  <2>2. /\ Round(pend')
        /\ referenceCount' \in Nat
        /\ socketOpen' \in BOOLEAN
        /\ outputNotify' \in BOOLEAN
        /\ messageLimit' \in [Flow -> Nat \cup {Unlimited}]
        /\ pendingMessages' \in [Flow -> Nat]
        /\ messagesSent' \in [Flow -> Nat]
        /\ offPending' \in [Flow -> BOOLEAN]
        /\ txTimer' \in [Flow -> BOOLEAN]
        /\ flowTransport' \in [Flow -> BOOLEAN]
    BY <2>1, TypedRound, StopFlowTyped
  <2>3. serving' = FALSE /\ breakOut' = 0
    BY <1>3 DEF ServeStop, EndLoop
  <2>4. UNCHANGED <<oldTransport, pattern, keepAlive, flowSuspended, socketError,
                    lastEvent>>
    BY <1>3 DEF ServeStop
  <2> QED
    BY <2>2, <2>3, <2>4 DEF Typed, TypeOK, RoundRobin, Round
<1>4. ASSUME NEW f \in Flow, ServeCounted(f) PROVE Typed'
  <2>1. txTimer' \in [Flow -> BOOLEAN] /\ serving' = FALSE /\ breakOut' = 0
    BY <1>4 DEF ServeCounted, EndLoop, Typed, TypeOK
  <2>2. UNCHANGED <<flowTransport, oldTransport, pattern, pendingMessages,
                    messagesSent, messageLimit, keepAlive, offPending,
                    flowSuspended, socketError, lastEvent, socketOpen,
                    referenceCount, outputNotify, pend>>
    BY <1>4 DEF ServeCounted, socketVars
  <2> QED
    BY <2>1, <2>2 DEF Typed, TypeOK, RoundRobin
<1>5. ASSUME NEW f \in Flow, ServeSkip(f) PROVE Typed'
  <2>1. pendingMessages[f] \in Nat /\ txTimer[f] \in BOOLEAN
    BY DEF Typed, TypeOK
  <2>2. /\ txTimer' \in [Flow -> BOOLEAN]
        /\ Round(pend')
        /\ serving' \in BOOLEAN
        /\ breakOut' \in Nat
    BY <1>5, <2>1, ServeNextTyped DEF ServeSkip
  <2>3. UNCHANGED <<flowTransport, oldTransport, pattern, pendingMessages,
                    messagesSent, messageLimit, keepAlive, offPending,
                    flowSuspended, socketError, lastEvent, socketOpen,
                    referenceCount, outputNotify>>
    BY <1>5 DEF ServeSkip, socketVars
  <2> QED
    BY <2>2, <2>3 DEF Typed, TypeOK, RoundRobin, Round
<1>6. ASSUME NEW f \in Flow, NEW r \in Results, ServeSend(f, r) PROVE Typed'
  <2>1. /\ BacklogAfter(f, r) \in Nat
        /\ NotifyAfter(f, r) \in BOOLEAN
        /\ TimerAfter(f, r) \in BOOLEAN
        /\ Round(QueueAfter(f, r))
    BY SendResultsTyped
  <2>2. /\ messagesSent' \in [Flow -> Nat]
        /\ pendingMessages' \in [Flow -> Nat]
        /\ socketError' \in [Flow -> BOOLEAN]
    BY <1>6, SentTyped DEF ServeSend
  <2>3. outputNotify' \in BOOLEAN
    BY <1>6, <2>1 DEF ServeSend
  <2>4. /\ txTimer' \in [Flow -> BOOLEAN]
        /\ Round(pend')
        /\ serving' \in BOOLEAN
        /\ breakOut' \in Nat
    <3>1. CASE r = "OK"
      BY <1>6, <2>1, <3>1, ServeNextTyped DEF ServeSend
    <3>2. CASE r # "OK"
      <4>1. /\ pend' = QueueAfter(f, r)
            /\ txTimer' = [txTimer EXCEPT ![f] = TimerAfter(f, r)]
            /\ serving' = FALSE
            /\ breakOut' = 0
        BY <1>6, <3>2 DEF ServeSend, EndLoop
      <4> QED
        BY <2>1, <4>1 DEF Typed, TypeOK
    <3> QED
      BY <3>1, <3>2
  <2>5. UNCHANGED <<flowTransport, oldTransport, pattern, messageLimit, keepAlive,
                    offPending, flowSuspended, lastEvent, socketOpen,
                    referenceCount>>
    BY <1>6 DEF ServeSend, socketVars
  <2> QED
    BY <2>2, <2>3, <2>4, <2>5 DEF Typed, TypeOK, RoundRobin, Round
<1> QED
  BY <1>1, <1>2, <1>3, <1>4, <1>5, <1>6 DEF Serve

\* A step that changes nothing.
LEMMA StutterTyped == Typed /\ UNCHANGED vars => Typed'
BY DEF Typed, TypeOK, RoundRobin, vars, flowVars, socketVars, loopVars

LEMMA NextTyped ==
  ASSUME Typed, [Next]_vars
  PROVE  Typed'
<1>1. CASE Serve
  BY <1>1, ServeTyped
<1>2. ASSUME NEW f \in Flow, Script(f) PROVE Typed'
  BY <1>2, OnTyped, ModTyped, ModDestinationTyped, OffTyped DEF Script
<1>3. ASSUME NEW f \in Flow, Remote(f) PROVE Typed'
  BY <1>3, RemoteTyped
<1>4. ASSUME NEW f \in Flow, TxTimeout(f) PROVE Typed'
  BY <1>4, TxCountedTyped, TxLeaveOldTyped, TxOffTyped, TxQueueTyped, TxSendTyped
     DEF TxTimeout
<1>5. CASE UNCHANGED vars
  BY <1>5, StutterTyped
<1> QED
  BY <1>1, <1>2, <1>3, <1>4, <1>5 DEF Next

\* Whatever the commands, in whatever order, and whatever the socket answers:
\* the variables keep their types, reference_count never goes below 0, and the
\* cursor of the round robin is on a flow in it.
THEOREM TypeCorrect == Spec => [](TypeOK /\ RoundRobin)
<1>1. Init => Typed
  BY TypedInit
<1>2. Typed /\ [Next]_vars => Typed'
  BY NextTyped
<1> QED
  BY <1>1, <1>2, PTL DEF Spec, Typed

-------------------------------------------------------------------------------
(* The timer of a suspended flow.                                          *)

\* A handler that restarts the timer of a flow only if it is not suspended, or
\* the timer was running.
LEMMA TimerOnlyAwake ==
  ASSUME Typed, SuspendedTimerOff, NEW f \in Flow, NEW v,
         txTimer' = [txTimer EXCEPT ![f] = v],
         flowSuspended' = flowSuspended,
         v => txTimer[f] \/ ~flowSuspended[f]
  PROVE  SuspendedTimerOff'
BY DEF SuspendedTimerOff, Typed, TypeOK

LEMMA TimerUntouched ==
  ASSUME SuspendedTimerOff, UNCHANGED <<txTimer, flowSuspended>>
  PROVE  SuspendedTimerOff'
BY DEF SuspendedTimerOff

LEMMA ScriptSuspended ==
  ASSUME Typed, SuspendedTimerOff, NEW f \in Flow, Script(f)
  PROVE  SuspendedTimerOff'
<1>1. \A p \in Patterns : Scheduled(f, p) => txTimer[f] \/ ~flowSuspended[f]
  BY UdpFlowsAssumption DEF Scheduled
<1>2. pattern[f] \in {"rate", "zero", "fast"}
  BY DEF Typed, TypeOK
<1>3. Scheduled(f, pattern[f]) => txTimer[f] \/ ~flowSuspended[f]
  BY <1>2 DEF Scheduled
<1>4. ASSUME NEW p \in Patterns, NEW c, NEW k, NEW d, On(f, p, c, k, d)
      PROVE  SuspendedTimerOff'
  <2>1. flowSuspended' = flowSuspended
    BY <1>4 DEF On
  <2>2. CASE txTimer' = txTimer
    BY <2>1, <2>2, TimerUntouched
  <2>3. CASE txTimer' = [txTimer EXCEPT ![f] = Scheduled(f, p)]
    BY <1>1, <2>1, <2>3, TimerOnlyAwake
  <2> QED
    BY <1>4, <2>2, <2>3 DEF On, OnOpened, OnNotOpened
<1>5. ASSUME NEW p \in Patterns, NEW c, NEW k, Mod(f, p, c, k)
      PROVE  SuspendedTimerOff'
  <2>1. flowSuspended' = flowSuspended
    BY <1>5 DEF Mod
  <2>2. CASE txTimer' = txTimer
    BY <2>1, <2>2, TimerUntouched
  <2>3. CASE txTimer' = [txTimer EXCEPT ![f] = Scheduled(f, p)]
    BY <1>1, <2>1, <2>3, TimerOnlyAwake
  <2> QED
    BY <1>5, <2>2, <2>3 DEF Mod
<1>6. CASE ModDestination(f)
  <2>1. flowSuspended' = flowSuspended
    BY <1>6 DEF ModDestination
  <2>2. CASE txTimer' = txTimer
    BY <2>1, <2>2, TimerUntouched
  <2>3. CASE txTimer' = [txTimer EXCEPT ![f] = Scheduled(f, pattern[f])]
    BY <1>3, <2>1, <2>3, TimerOnlyAwake
  <2> QED
    BY <1>6, <2>2, <2>3 DEF ModDestination
<1>7. CASE Off(f)
  <2>1. flowSuspended' = flowSuspended /\ txTimer' = [txTimer EXCEPT ![f] = FALSE]
    BY <1>7 DEF Off, StopFlow
  <2> QED
    BY <2>1, TimerOnlyAwake
<1> QED
  BY <1>4, <1>5, <1>6, <1>7 DEF Script

LEMMA RemoteSuspended ==
  ASSUME Typed, SuspendedTimerOff, NEW f \in Flow, Remote(f)
  PROVE  SuspendedTimerOff'
<1>1. CASE Suspend(f)
  BY <1>1 DEF Suspend, SuspendedTimerOff, Typed, TypeOK
<1>2. CASE Resume(f) \/ Reset(f)
  BY <1>2 DEF Resume, Reset, Wake, SuspendedTimerOff, Typed, TypeOK
<1> QED
  BY <1>1, <1>2 DEF Remote

LEMMA TxSuspended ==
  ASSUME Typed, SuspendedTimerOff, NEW f \in Flow, TxTimeout(f)
  PROVE  SuspendedTimerOff'
<1>1. txTimer[f]
  BY DEF TxTimeout, TxCounted, TxLeaveOld, TxOff, TxQueue, TxSend, TxReady, TxFires
<1>2. ASSUME NEW v, txTimer' = [txTimer EXCEPT ![f] = v], flowSuspended' = flowSuspended
      PROVE  SuspendedTimerOff'
  BY <1>1, <1>2, TimerOnlyAwake
<1>3. CASE TxCounted(f)
  <2>1. flowSuspended' = flowSuspended /\ txTimer' = [txTimer EXCEPT ![f] = FALSE]
    BY <1>3 DEF TxCounted, StopFlow
  <2> QED
    BY <1>2, <2>1
<1>4. CASE TxLeaveOld(f)
  BY <1>4, TimerUntouched DEF TxLeaveOld
<1>5. CASE TxOff(f)
  <2>1. flowSuspended' = flowSuspended /\ txTimer' = [txTimer EXCEPT ![f] = FALSE]
    BY <1>5 DEF TxOff, StopFlow
  <2> QED
    BY <1>2, <2>1
<1>6. CASE TxQueue(f)
  <2>1. flowSuspended' = flowSuspended
    BY <1>6 DEF TxQueue
  <2>2. \E v : txTimer' = [txTimer EXCEPT ![f] = v]
    BY <1>6 DEF TxQueue, StopFlow
  <2> QED
    BY <1>2, <2>1, <2>2
<1>7. ASSUME NEW r \in Results, TxSend(f, r) PROVE SuspendedTimerOff'
  <2>1. flowSuspended' = flowSuspended
    BY <1>7 DEF TxSend
  <2>2. \E v : txTimer' = [txTimer EXCEPT ![f] = v]
    BY <1>7 DEF TxSend, StopFlow
  <2> QED
    BY <1>2, <2>1, <2>2
<1> QED
  BY <1>3, <1>4, <1>5, <1>6, <1>7 DEF TxTimeout

LEMMA ServeSuspended ==
  ASSUME Typed, SuspendedTimerOff, Serve
  PROVE  SuspendedTimerOff'
<1>1. CASE OutputReady \/ ServeEnd
  BY <1>1, TimerUntouched DEF OutputReady, ServeEnd, flowVars
<1>2. ASSUME NEW f \in Flow, ServeStop(f) \/ ServeCounted(f)
      PROVE  SuspendedTimerOff'
  <2>1. flowSuspended' = flowSuspended /\ txTimer' = [txTimer EXCEPT ![f] = FALSE]
    BY <1>2 DEF ServeStop, ServeCounted, StopFlow
  <2> QED
    BY <2>1, TimerOnlyAwake
<1>3. ASSUME NEW f \in Flow, NEW b, NEW t, ServeNext(f, b, t),
             flowSuspended' = flowSuspended, t => txTimer[f] \/ ~flowSuspended[f]
      PROVE  SuspendedTimerOff'
  <2> DEFINE v == t \/ (BelowLimit(f, b) /\ ~UnlimitedRate(f) /\ ~flowSuspended[f])
  <2>1. txTimer' = [txTimer EXCEPT ![f] = v]
    BY <1>3 DEF ServeNext
  <2>2. v => txTimer[f] \/ ~flowSuspended[f]
    BY <1>3
  <2> HIDE DEF v
  <2> QED
    BY <1>3, <2>1, <2>2, TimerOnlyAwake
<1>4. ASSUME NEW f \in Flow, ServeSkip(f) PROVE SuspendedTimerOff'
  BY <1>3, <1>4 DEF ServeSkip
<1>5. ASSUME NEW f \in Flow, NEW r \in Results, ServeSend(f, r)
      PROVE  SuspendedTimerOff'
  <2>1. TimerAfter(f, r) => txTimer[f] \/ ~flowSuspended[f]
    BY UdpFlowsAssumption DEF TimerAfter
  <2>2. flowSuspended' = flowSuspended
    BY <1>5 DEF ServeSend
  <2>3. CASE r = "OK"
    BY <1>3, <1>5, <2>1, <2>2, <2>3 DEF ServeSend
  <2>4. CASE r # "OK"
    BY <1>5, <2>1, <2>2, <2>4, TimerOnlyAwake DEF ServeSend
  <2> QED
    BY <2>3, <2>4
<1> QED
  BY <1>1, <1>2, <1>4, <1>5 DEF Serve

\* No handler, in whatever order they run, starts the timer of a flow that is
\* suspended: not an ON or MOD, not the loop that serves a backlog, not the
\* retry after an error.
THEOREM SuspendedStaysOff == Spec => []SuspendedTimerOff
<1>1. Init => Typed /\ SuspendedTimerOff
  BY TypedInit DEF Init, SuspendedTimerOff
<1>2. Typed /\ SuspendedTimerOff /\ [Next]_vars => Typed' /\ SuspendedTimerOff'
  <2> SUFFICES ASSUME Typed, SuspendedTimerOff, [Next]_vars
               PROVE  SuspendedTimerOff'
    BY NextTyped
  <2>1. CASE UNCHANGED vars
    BY <2>1, TimerUntouched DEF vars, flowVars
  <2> QED
    BY <2>1, ScriptSuspended, RemoteSuspended, TxSuspended, ServeSuspended DEF Next
<1> QED
  BY <1>1, <1>2, PTL DEF Spec

-------------------------------------------------------------------------------
(* The count of messages.                                                  *)

LEMMA CountKept ==
  ASSUME SentWithinCount, UNCHANGED <<messageLimit, messagesSent>>
  PROVE  SentWithinCount'
BY DEF SentWithinCount

LEMMA CountSet ==
  ASSUME Typed, SentWithinCount, NEW f \in Flow, NEW m, NEW s,
         messageLimit' = [messageLimit EXCEPT ![f] = m],
         messagesSent' = [messagesSent EXCEPT ![f] = s],
         m >= 0 => s <= m
  PROVE  SentWithinCount'
BY DEF SentWithinCount, Typed, TypeOK

LEMMA StopFlowCount ==
  ASSUME Typed, SentWithinCount, NEW f \in Flow, NEW n, NEW q, StopFlow(f, n, q)
  PROVE  SentWithinCount'
<1>1. /\ messageLimit' = [messageLimit EXCEPT ![f] = Unlimited]
      /\ messagesSent' = [messagesSent EXCEPT ![f] = 0]
  BY DEF StopFlow
<1> QED
  BY <1>1, CountSet DEF Unlimited

LEMMA SetCountCount ==
  ASSUME Typed, SentWithinCount, NEW f \in Flow, NEW c \in Counts \cup {NoCount}, NEW k,
         SetCount(f, c, k)
  PROVE  SentWithinCount'
<1>1. CASE c = NoCount
  BY <1>1, CountKept DEF SetCount
<1>2. CASE c # NoCount
  <2>1. /\ messageLimit' = [messageLimit EXCEPT ![f] = c]
        /\ messagesSent' = [messagesSent EXCEPT ![f] = 0]
    BY <1>2 DEF SetCount
  <2>2. c >= 0 => 0 <= c
    BY <1>2, UdpFlowsAssumption
  <2> QED
    BY <2>1, <2>2, CountSet
<1> QED
  BY <1>1, <1>2

\* A flow sends only while it is below its count.
LEMMA SentCount ==
  ASSUME Typed, SentWithinCount, NEW f \in Flow, NEW r \in Results, Sent(f, r),
         ~LimitReached(f), UNCHANGED messageLimit
  PROVE  SentWithinCount'
<1>1. /\ messagesSent \in [Flow -> Nat]
      /\ messageLimit \in [Flow -> Nat \cup {-1}]
  BY DEF Typed, TypeOK, Unlimited
<1>2. messageLimit[f] >= 0 => messagesSent[f] + 1 <= messageLimit[f]
  BY <1>1 DEF LimitReached
<1> QED
  BY <1>1, <1>2 DEF Sent, SentWithinCount

LEMMA ScriptCount ==
  ASSUME Typed, SentWithinCount, NEW f \in Flow, Script(f) \/ Remote(f)
  PROVE  SentWithinCount'
<1>1. ASSUME NEW p, NEW c \in Counts \cup {NoCount}, NEW k, NEW d, On(f, p, c, k, d)
      PROVE  SentWithinCount'
  BY <1>1, SetCountCount DEF On
<1>2. ASSUME NEW p, NEW c \in Counts \cup {NoCount}, NEW k, Mod(f, p, c, k)
      PROVE  SentWithinCount'
  <2>1. CASE flowTransport[f]
    BY <1>2, <2>1, SetCountCount DEF Mod
  <2>2. CASE ~flowTransport[f]
    BY <1>2, <2>2, CountKept DEF Mod
  <2> QED
    BY <2>1, <2>2
<1>3. CASE ModDestination(f) \/ Suspend(f) \/ Resume(f)
  BY <1>3, CountKept DEF ModDestination, Suspend, Resume, Wake
<1>4. CASE Off(f)
  <2>1. CASE flowTransport[f] /\ pendingMessages[f] > 0 /\ ~socketError[f]
    BY <1>4, <2>1, CountKept DEF Off
  <2>2. CASE ~(flowTransport[f] /\ pendingMessages[f] > 0 /\ ~socketError[f])
    BY <1>4, <2>2, StopFlowCount DEF Off
  <2> QED
    BY <2>1, <2>2
<1>5. CASE Reset(f)
  BY <1>5 DEF Reset, Wake, SentWithinCount, Typed, TypeOK
<1> QED
  BY <1>1, <1>2, <1>3, <1>4, <1>5 DEF Script, Remote

LEMMA TxCount ==
  ASSUME Typed, SentWithinCount, NEW f \in Flow, TxTimeout(f)
  PROVE  SentWithinCount'
<1>1. CASE TxCounted(f)
  <2>1. CASE keepAlive[f]
    BY <1>1, <2>1, CountKept DEF TxCounted
  <2>2. CASE ~keepAlive[f]
    BY <1>1, <2>2, StopFlowCount DEF TxCounted
  <2> QED
    BY <2>1, <2>2
<1>2. CASE TxLeaveOld(f)
  BY <1>2, CountKept DEF TxLeaveOld
<1>3. CASE TxOff(f)
  <2>1. CASE pendingMessages[f] > 0 /\ ~socketError[f]
    BY <1>3, <2>1, CountKept DEF TxOff
  <2>2. CASE ~(pendingMessages[f] > 0 /\ ~socketError[f])
    BY <1>3, <2>2, StopFlowCount DEF TxOff
  <2> QED
    BY <2>1, <2>2
<1>4. CASE TxQueue(f)
  <2>1. CASE UNCHANGED <<messageLimit, messagesSent>>
    BY <2>1, CountKept
  <2>2. ASSUME NEW q, StopFlow(f, TRUE, q) PROVE SentWithinCount'
    BY <2>2, StopFlowCount
  <2> QED
    BY <1>4, <2>1, <2>2 DEF TxQueue
<1>5. ASSUME NEW r \in Results, TxSend(f, r) PROVE SentWithinCount'
  <2>1. CASE StopsAtZero(f)
    BY <1>5, <2>1, StopFlowCount DEF TxSend
  <2>2. CASE ~StopsAtZero(f)
    BY <1>5, <2>2, SentCount DEF TxSend, TxReady
  <2> QED
    BY <2>1, <2>2
<1> QED
  BY <1>1, <1>2, <1>3, <1>4, <1>5 DEF TxTimeout

LEMMA ServeCount ==
  ASSUME Typed, SentWithinCount, Serve
  PROVE  SentWithinCount'
<1>1. CASE OutputReady \/ ServeEnd
  BY <1>1, CountKept DEF OutputReady, ServeEnd, flowVars
<1>2. ASSUME NEW f \in Flow, ServeStop(f) PROVE SentWithinCount'
  BY <1>2, StopFlowCount DEF ServeStop
<1>3. ASSUME NEW f \in Flow, ServeCounted(f) \/ ServeSkip(f) PROVE SentWithinCount'
  BY <1>3, CountKept DEF ServeCounted, ServeSkip
<1>4. ASSUME NEW f \in Flow, NEW r \in Results, ServeSend(f, r) PROVE SentWithinCount'
  BY <1>4, SentCount DEF ServeSend
<1> QED
  BY <1>1, <1>2, <1>3, <1>4 DEF Serve

\* A flow with a COUNT never sends more than that many messages, by its timer
\* and the loop over the backlog together, however often the count is set anew.
THEOREM NeverAboveCount == Spec => []SentWithinCount
<1>1. Init => Typed /\ SentWithinCount
  <2>1. ASSUME Init PROVE SentWithinCount
    BY <2>1 DEF Init, SentWithinCount, Unlimited
  <2> QED
    BY <2>1, TypedInit
<1>2. Typed /\ SentWithinCount /\ [Next]_vars => Typed' /\ SentWithinCount'
  <2> SUFFICES ASSUME Typed, SentWithinCount, [Next]_vars
               PROVE  SentWithinCount'
    BY NextTyped
  <2>1. CASE UNCHANGED vars
    BY <2>1, CountKept DEF vars, flowVars
  <2> QED
    BY <2>1, ScriptCount, TxCount, ServeCount DEF Next
<1> QED
  BY <1>1, <1>2, PTL DEF Spec

-------------------------------------------------------------------------------
(***************************************************************************)
(* The reference count of the transport and the round robin agree with the *)
(* flows, as long as events come in the order ValidateEvent asks for and   *)
(* the socket opens.                                                       *)
(***************************************************************************)

Ordered == ValidateEvents /\ ~OpenMayFail

Holders == {f \in Flow : flowTransport[f]}

\* BacklogQueued but for the shape of the list, which Typed has.
Backlogs ==
  \A f \in Flow :
    /\ pendingMessages[f] > 0 => f \in Queued(pend)
    /\ f \in Queued(pend) => flowTransport[f]

Counted ==
  /\ referenceCount = Cardinality(Holders)
  /\ socketOpen <=> referenceCount > 0

\* The inductive invariant: OnOnce is what makes one reference per flow right.
Balanced == Typed /\ OnOnce /\ Backlogs /\ Counted

LEMMA HoldersFinite ==
  /\ IsFiniteSet(Holders)
  /\ Cardinality(Holders) \in Nat
  /\ \A f \in Flow : flowTransport[f] => Cardinality(Holders) > 0
<1>1. IsFiniteSet(Holders)
  BY UdpFlowsAssumption, FS_Subset DEF Holders
<1>2. Cardinality(Holders) \in Nat
  BY <1>1, FS_CardinalityType
<1>3. ASSUME NEW f \in Flow, flowTransport[f] PROVE Cardinality(Holders) > 0
  <2>1. Cardinality(Holders) # 0
    BY <1>1, <1>3, FS_EmptySet DEF Holders
  <2> QED
    BY <1>2, <2>1
<1> QED
  BY <1>1, <1>2, <1>3

LEMMA BalancedImplies == Balanced => BacklogQueued /\ ReferencesMatch
<1> SUFFICES ASSUME Balanced PROVE BacklogQueued /\ ReferencesMatch
  OBVIOUS
<1>1. BacklogQueued
  BY DEF Balanced, Typed, RoundRobin, Backlogs, BacklogQueued
<1>2. {f \in Flow : oldTransport[f]} = {}
  BY DEF Balanced, OnOnce
<1>3. Cardinality({f \in Flow : oldTransport[f]}) = 0
  BY <1>2, FS_EmptySet
<1>4. referenceCount = Cardinality(Holders)
                       + Cardinality({f \in Flow : oldTransport[f]})
  <2>1. referenceCount = Cardinality(Holders) /\ Cardinality(Holders) \in Nat
    BY HoldersFinite DEF Balanced, Counted
  <2> HIDE DEF Holders
  <2> QED
    BY <1>3, <2>1
<1>5. ReferencesMatch
  BY <1>4 DEF Balanced, Counted, ReferencesMatch, Holders
<1> QED
  BY <1>1, <1>5

-------------------------------------------------------------------------------
(* What leaves each part of the invariant as it was.                       *)

LEMMA CountedKept ==
  ASSUME Counted, UNCHANGED <<flowTransport, socketOpen, referenceCount>>
  PROVE  Counted'
<1>1. Holders' = Holders
  BY DEF Holders
<1> QED
  BY <1>1 DEF Counted

LEMMA OnOnceKept ==
  ASSUME OnOnce, UNCHANGED <<flowTransport, oldTransport, offPending, lastEvent>>
  PROVE  OnOnce'
BY DEF OnOnce

LEMMA BacklogsKept ==
  ASSUME Backlogs, UNCHANGED <<flowTransport, pendingMessages, pend>>
  PROVE  Backlogs'
BY DEF Backlogs

\* A step that touches the backlog of one flow, and its place in the list.
LEMMA BacklogsStep ==
  ASSUME Typed, Backlogs, NEW f \in Flow, NEW b,
         UNCHANGED flowTransport,
         pendingMessages' = [pendingMessages EXCEPT ![f] = b],
         \A g \in Flow \ {f} : g \in Queued(pend') <=> g \in Queued(pend),
         b > 0 => f \in Queued(pend'),
         f \in Queued(pend') => flowTransport[f]
  PROVE  Backlogs'
BY DEF Backlogs, Typed, TypeOK

\* StopFlow takes the flow off the transport and gives its reference back.
LEMMA StopFlowBalanced ==
  ASSUME Balanced, NEW f \in Flow, NEW n, NEW q, Round(q), StopFlow(f, n, q),
         \A g \in Flow \ {f} : g \in Queued(q) <=> g \in Queued(pend),
         f \in Queued(q) => flowTransport[f],
         UNCHANGED oldTransport,
         \A g \in Flow \ {f} : lastEvent'[g] = lastEvent[g]
  PROVE  OnOnce' /\ Backlogs' /\ Counted'
<1>1. /\ flowTransport' = [flowTransport EXCEPT ![f] = FALSE]
      /\ offPending' = [offPending EXCEPT ![f] = FALSE]
      /\ pendingMessages' = [pendingMessages EXCEPT ![f] = 0]
  BY DEF StopFlow
<1>2. OnOnce'
  BY <1>1 DEF OnOnce, Balanced, Typed, TypeOK
<1>3. f \notin Queued(pend') /\ \A g \in Flow \ {f} : g \in Queued(pend') <=> g \in Queued(pend)
  <2>1. CASE flowTransport[f]
    <3>1. pend' = RemoveFlow(q, f)
      BY <2>1 DEF StopFlow
    <3> QED
      BY <3>1, RemoveFlowProperties
  <2>2. CASE ~flowTransport[f]
    BY <2>2 DEF StopFlow
  <2> QED
    BY <2>1, <2>2
<1>4. Backlogs'
  BY <1>1, <1>3 DEF Backlogs, Balanced, Typed, TypeOK
<1>5. Counted'
  <2>1. CASE flowTransport[f]
    <3>1. Holders' = Holders \ {f} /\ f \in Holders
      BY <1>1, <2>1 DEF Holders, Balanced, Typed, TypeOK
    <3>2. Cardinality(Holders') = Cardinality(Holders) - 1
      BY <3>1, HoldersFinite, FS_RemoveElement
    <3>3. Cardinality(Holders) \in Nat /\ Cardinality(Holders) > 0
      BY <2>1, HoldersFinite
    <3>4. Close(n)
      BY <2>1 DEF StopFlow
    <3>5. referenceCount' = referenceCount - 1 /\ referenceCount > 0
      BY <3>3, <3>4 DEF Close, Balanced, Counted
    <3>6. socketOpen' <=> referenceCount # 1
      BY <3>4, <3>5 DEF Close, Balanced, Counted
    <3> QED
      BY <3>2, <3>3, <3>5, <3>6 DEF Balanced, Counted
  <2>2. CASE ~flowTransport[f]
    <3>1. Holders' = Holders
      BY <1>1, <2>2 DEF Holders, Balanced, Typed, TypeOK
    <3> QED
      BY <2>2, <3>1 DEF StopFlow, socketVars, Balanced, Counted
  <2> QED
    BY <2>1, <2>2
<1> QED
  BY <1>2, <1>4, <1>5

-------------------------------------------------------------------------------
(* One lemma per action that touches any of it.                            *)

LEMMA OnBalanced ==
  ASSUME Balanced, Ordered, NEW f \in Flow, NEW p, NEW c, NEW k, NEW d, On(f, p, c, k, d)
  PROVE  OnOnce' /\ Backlogs' /\ Counted'
<1>1. OnOpened(f, p, d)
  BY DEF On, OnNotOpened, Ordered
<1>2. flowTransport[f] <=> offPending[f]
  <2>1. lastEvent[f] \notin {"ON", "MOD"}
    BY DEF On, Valid, Ordered
  <2> QED
    BY <2>1 DEF Balanced, OnOnce
<1>3. /\ flowTransport' = [flowTransport EXCEPT ![f] = TRUE]
      /\ oldTransport' = [oldTransport EXCEPT ![f] = flowTransport[f] /\ ~offPending[f]]
      /\ offPending' = [offPending EXCEPT ![f] = FALSE]
      /\ lastEvent' = [lastEvent EXCEPT ![f] = "ON"]
      /\ socketOpen' = TRUE
      /\ referenceCount' = IF offPending[f] THEN referenceCount ELSE referenceCount + 1
  BY <1>1 DEF On, OnOpened, Restarts
<1>4. OnOnce'
  BY <1>2, <1>3 DEF OnOnce, Balanced, Typed, TypeOK
<1>5. Backlogs'
  <2> DEFINE clear == offPending[f] /\ d /\ pendingMessages[f] > 0
  <2>1. CASE clear
    <3>1. /\ pendingMessages' = [pendingMessages EXCEPT ![f] = 0]
          /\ pend' = RemoveFlow(pend, f)
      BY <1>1, <2>1 DEF OnOpened, Restarts
    <3>2. Queued(pend') = Queued(pend) \ {f}
      BY <3>1, TypedRound, RemoveFlowProperties DEF Balanced
    <3> QED
      BY <1>3, <3>1, <3>2 DEF Backlogs, Balanced, Typed, TypeOK
  <2>2. CASE ~clear
    <3>1. pendingMessages' = pendingMessages /\ pend' = pend
      BY <1>1, <2>2 DEF OnOpened, Restarts
    <3> QED
      BY <1>3, <3>1 DEF Backlogs, Balanced, Typed, TypeOK
  <2> QED
    BY <2>1, <2>2
<1>6. Counted'
  <2>1. CASE offPending[f]
    <3>1. Holders' = Holders /\ flowTransport[f]
      BY <1>2, <1>3, <2>1 DEF Holders, Balanced, Typed, TypeOK
    <3> QED
      BY <1>3, <2>1, <3>1, HoldersFinite DEF Balanced, Counted
  <2>2. CASE ~offPending[f]
    <3>1. Holders' = Holders \cup {f} /\ f \notin Holders
      BY <1>2, <1>3, <2>2 DEF Holders, Balanced, Typed, TypeOK
    <3>2. Cardinality(Holders') = Cardinality(Holders) + 1
      BY <3>1, HoldersFinite, FS_AddElement
    <3> QED
      BY <1>3, <2>2, <3>2, HoldersFinite DEF Balanced, Counted
  <2> QED
    BY <2>1, <2>2
<1> QED
  BY <1>4, <1>5, <1>6

LEMMA ModBalanced ==
  ASSUME Balanced, Ordered, NEW f \in Flow, NEW p, NEW c, NEW k, Mod(f, p, c, k)
  PROVE  OnOnce' /\ Backlogs' /\ Counted'
<1>1. UNCHANGED <<flowTransport, oldTransport, offPending, pendingMessages, pend,
                  socketOpen, referenceCount>>
  BY DEF Mod, socketVars
<1>2. lastEvent' = [lastEvent EXCEPT ![f] = "MOD"]
  BY DEF Mod
<1>3. OnOnce'
  BY <1>1, <1>2 DEF OnOnce, Balanced, Typed, TypeOK
<1> QED
  BY <1>1, <1>3, BacklogsKept, CountedKept DEF Balanced

LEMMA ModDestinationBalanced ==
  ASSUME Balanced, Ordered, NEW f \in Flow, ModDestination(f)
  PROVE  OnOnce' /\ Backlogs' /\ Counted'
<1>1. UNCHANGED <<flowTransport, offPending, pend>>
  BY DEF ModDestination
<1>2. lastEvent' = [lastEvent EXCEPT ![f] = "MOD"]
  BY DEF ModDestination
<1>3. CASE ~flowTransport[f]
  <2>1. UNCHANGED <<oldTransport, pendingMessages, socketOpen, referenceCount>>
    BY <1>3 DEF ModDestination, socketVars
  <2>2. OnOnce'
    BY <1>1, <1>2, <2>1 DEF OnOnce, Balanced, Typed, TypeOK
  <2> QED
    BY <1>1, <2>1, <2>2, BacklogsKept, CountedKept DEF Balanced
<1>4. CASE flowTransport[f]
  <2>1. /\ oldTransport' = [oldTransport EXCEPT ![f] = FALSE]
        /\ pendingMessages' = [pendingMessages EXCEPT ![f] = 0]
        /\ socketOpen' = TRUE
        /\ referenceCount' = (IF referenceCount > 0 THEN referenceCount - 1 ELSE 0) + 1
    BY <1>4 DEF ModDestination, Ordered
  <2>2. referenceCount \in Nat /\ referenceCount > 0
    BY <1>4, HoldersFinite DEF Balanced, Counted
  <2>3. referenceCount' = referenceCount
    BY <2>1, <2>2
  <2>4. socketOpen
    BY <2>2 DEF Balanced, Counted
  <2>5. Counted'
    BY <1>1, <2>1, <2>3, <2>4, CountedKept DEF Balanced
  <2>6. OnOnce'
    BY <1>1, <1>2, <2>1 DEF OnOnce, Balanced, Typed, TypeOK
  <2>7. Backlogs'
    BY <1>1, <2>1 DEF Backlogs, Balanced, Typed, TypeOK
  <2> QED
    BY <2>5, <2>6, <2>7
<1> QED
  BY <1>3, <1>4

LEMMA OffBalanced ==
  ASSUME Balanced, NEW f \in Flow, Off(f)
  PROVE  OnOnce' /\ Backlogs' /\ Counted'
<1>1. UNCHANGED oldTransport /\ lastEvent' = [lastEvent EXCEPT ![f] = "OFF"]
  BY DEF Off
<1>2. Round(pend) /\ Round(AppendFlow(pend, f)) /\ Queued(AppendFlow(pend, f)) = Queued(pend) \cup {f}
  BY TypedRound, AppendFlowProperties DEF Balanced
<1>3. CASE flowTransport[f] /\ pendingMessages[f] > 0 /\ ~socketError[f]
  <2>1. /\ offPending' = [offPending EXCEPT ![f] = TRUE]
        /\ pend' = AppendFlow(pend, f)
        /\ UNCHANGED <<flowTransport, pendingMessages, socketOpen, referenceCount>>
    BY <1>3 DEF Off, socketVars
  <2>2. OnOnce'
    BY <1>1, <1>3, <2>1 DEF OnOnce, Balanced, Typed, TypeOK
  <2>3. Backlogs'
    BY <1>2, <1>3, <2>1 DEF Backlogs, Balanced
  <2> QED
    BY <2>1, <2>2, <2>3, CountedKept DEF Balanced
<1>4. CASE ~(flowTransport[f] /\ pendingMessages[f] > 0 /\ ~socketError[f])
  <2> DEFINE q == IF flowTransport[f] /\ pendingMessages[f] > 0
                  THEN AppendFlow(pend, f) ELSE pend
  <2>1. StopFlow(f, outputNotify, q)
    BY <1>4 DEF Off
  <2>2. /\ Round(q)
        /\ \A g \in Flow \ {f} : g \in Queued(q) <=> g \in Queued(pend)
        /\ f \in Queued(q) => flowTransport[f]
    BY <1>2 DEF Balanced, Backlogs
  <2>3. \A g \in Flow \ {f} : lastEvent'[g] = lastEvent[g]
    BY <1>1 DEF Balanced, Typed, TypeOK
  <2> HIDE DEF q
  <2> QED
    BY <1>1, <2>1, <2>2, <2>3, StopFlowBalanced
<1> QED
  BY <1>3, <1>4

LEMMA RemoteBalanced ==
  ASSUME Balanced, NEW f \in Flow, Remote(f)
  PROVE  OnOnce' /\ Backlogs' /\ Counted'
<1>1. UNCHANGED <<flowTransport, oldTransport, offPending, lastEvent,
                  pendingMessages, pend, socketOpen, referenceCount>>
  BY DEF Remote, Suspend, Resume, Reset, Wake, socketVars
<1> QED
  BY <1>1, OnOnceKept, BacklogsKept, CountedKept DEF Balanced

LEMMA TxCountedBalanced ==
  ASSUME Balanced, NEW f \in Flow, TxCounted(f)
  PROVE  OnOnce' /\ Backlogs' /\ Counted'
<1>1. UNCHANGED <<oldTransport, lastEvent>>
  BY DEF TxCounted
<1>2. CASE keepAlive[f]
  <2>1. UNCHANGED <<flowTransport, offPending, pendingMessages, pend, socketOpen,
                    referenceCount>>
    BY <1>2 DEF TxCounted, socketVars
  <2> QED
    BY <1>1, <2>1, OnOnceKept, BacklogsKept, CountedKept DEF Balanced
<1>3. CASE ~keepAlive[f]
  <2>1. StopFlow(f, outputNotify, pend)
    BY <1>3 DEF TxCounted
  <2>2. Round(pend) /\ (f \in Queued(pend) => flowTransport[f])
    BY TypedRound DEF Balanced, Backlogs
  <2> QED
    BY <1>1, <2>1, <2>2, StopFlowBalanced
<1> QED
  BY <1>2, <1>3

\* OnOnce: there is no old transport to leave.
LEMMA NoOldTransport ==
  ASSUME Balanced, NEW f \in Flow
  PROVE  ~TxLeaveOld(f)
BY DEF TxLeaveOld, Balanced, OnOnce

LEMMA TxOffBalanced ==
  ASSUME Balanced, NEW f \in Flow, TxOff(f)
  PROVE  OnOnce' /\ Backlogs' /\ Counted'
<1>1. UNCHANGED <<oldTransport, lastEvent>> /\ flowTransport[f]
  BY DEF TxOff, TxReady
<1>2. Round(pend) /\ Queued(AppendFlow(pend, f)) = Queued(pend) \cup {f}
  BY TypedRound, AppendFlowProperties DEF Balanced
<1>3. CASE pendingMessages[f] > 0 /\ ~socketError[f]
  <2>1. /\ pend' = AppendFlow(pend, f)
        /\ UNCHANGED <<flowTransport, offPending, pendingMessages, socketOpen,
                       referenceCount>>
    BY <1>3 DEF TxOff, socketVars
  <2>2. Backlogs'
    BY <1>1, <1>2, <2>1 DEF Backlogs, Balanced
  <2> QED
    BY <1>1, <2>1, <2>2, OnOnceKept, CountedKept DEF Balanced
<1>4. CASE ~(pendingMessages[f] > 0 /\ ~socketError[f])
  <2>1. StopFlow(f, outputNotify, pend)
    BY <1>4 DEF TxOff
  <2> QED
    BY <1>1, <1>2, <2>1, StopFlowBalanced
<1> QED
  BY <1>3, <1>4

LEMMA TxQueueBalanced ==
  ASSUME Balanced, NEW f \in Flow, TxQueue(f)
  PROVE  OnOnce' /\ Backlogs' /\ Counted'
<1> DEFINE joins == QueueLimit[f] > 0
           full  == joins /\ pendingMessages[f] + 1 >= QueueLimit[f]
           q     == IF joins THEN AppendFlow(pend, f) ELSE pend
           b     == IF joins THEN pendingMessages[f] + 1 ELSE pendingMessages[f]
<1>1. UNCHANGED <<oldTransport, lastEvent>> /\ flowTransport[f]
  BY DEF TxQueue, TxReady
<1>2. /\ Round(q)
      /\ \A g \in Flow \ {f} : g \in Queued(q) <=> g \in Queued(pend)
      /\ joins => f \in Queued(q)
      /\ ~joins => q = pend
  BY TypedRound, AppendFlowProperties DEF Balanced
<1>3. CASE ~full /\ StopsAtZero(f)
  <2>1. StopFlow(f, TRUE, q)
    BY <1>3 DEF TxQueue
  <2> HIDE DEF q
  <2> QED
    BY <1>1, <1>2, <2>1, StopFlowBalanced
<1>4. CASE ~(~full /\ StopsAtZero(f))
  <2>1. /\ pend' = q
        /\ pendingMessages' = [pendingMessages EXCEPT ![f] = b]
        /\ UNCHANGED <<flowTransport, offPending, socketOpen, referenceCount>>
    BY <1>4 DEF TxQueue, socketVars
  <2>2. b > 0 => f \in Queued(q)
    BY <1>2 DEF Balanced, Backlogs
  <2> HIDE DEF q, b
  <2>3. Backlogs'
    BY <1>1, <1>2, <2>1, <2>2, BacklogsStep DEF Balanced
  <2> QED
    BY <1>1, <2>1, <2>3, OnOnceKept, CountedKept DEF Balanced
<1> QED
  BY <1>3, <1>4

\* A flow whose message was not sent is in the list if it keeps the message.
LEMMA QueueAfterProperties ==
  ASSUME Balanced, NEW f \in Flow, NEW r \in Results
  PROVE  /\ Round(QueueAfter(f, r))
         /\ \A g \in Flow \ {f} : g \in Queued(QueueAfter(f, r)) <=> g \in Queued(pend)
         /\ f \in Queued(pend) => f \in Queued(QueueAfter(f, r))
         /\ BacklogAfter(f, r) > 0 => f \in Queued(QueueAfter(f, r))
<1>1. /\ Round(pend) /\ Round(AppendFlow(pend, f))
      /\ Queued(AppendFlow(pend, f)) = Queued(pend) \cup {f}
  BY TypedRound, AppendFlowProperties DEF Balanced
<1>2. pendingMessages[f] \in Nat /\ (pendingMessages[f] > 0 => f \in Queued(pend))
  BY DEF Balanced, Backlogs, Typed, TypeOK
<1> QED
  BY <1>1, <1>2 DEF QueueAfter, BacklogAfter

LEMMA TxSendBalanced ==
  ASSUME Balanced, NEW f \in Flow, NEW r \in Results, TxSend(f, r)
  PROVE  OnOnce' /\ Backlogs' /\ Counted'
<1>1. UNCHANGED <<oldTransport, lastEvent>> /\ flowTransport[f]
  BY DEF TxSend, TxReady
<1>2. /\ Round(QueueAfter(f, r))
      /\ \A g \in Flow \ {f} : g \in Queued(QueueAfter(f, r)) <=> g \in Queued(pend)
      /\ BacklogAfter(f, r) > 0 => f \in Queued(QueueAfter(f, r))
  BY QueueAfterProperties
<1>3. CASE StopsAtZero(f)
  <2>1. StopFlow(f, NotifyAfter(f, r), QueueAfter(f, r))
    BY <1>3 DEF TxSend
  <2> QED
    BY <1>1, <1>2, <2>1, StopFlowBalanced
<1>4. CASE ~StopsAtZero(f)
  <2> DEFINE goesOn == UnlimitedRate(f) /\ ~ErrorAfter(f, r)
  <2>1. /\ pend' = IF goesOn THEN AppendFlow(pend, f) ELSE QueueAfter(f, r)
        /\ pendingMessages' = [pendingMessages EXCEPT ![f] = BacklogAfter(f, r)]
        /\ UNCHANGED <<flowTransport, offPending, socketOpen, referenceCount>>
    BY <1>4 DEF TxSend, Sent, socketVars
  <2>2. Queued(AppendFlow(pend, f)) = Queued(pend) \cup {f}
    BY TypedRound, AppendFlowProperties DEF Balanced
  <2> HIDE DEF goesOn
  <2>3. Backlogs'
    <3>1. CASE goesOn
      BY <1>1, <2>1, <2>2, <3>1, BacklogsStep DEF Balanced
    <3>2. CASE ~goesOn
      BY <1>1, <1>2, <2>1, <3>2, BacklogsStep DEF Balanced
    <3> QED
      BY <3>1, <3>2
  <2> QED
    BY <1>1, <2>1, <2>3, OnOnceKept, CountedKept DEF Balanced
<1> QED
  BY <1>3, <1>4

\* The loop takes the flow it serves out of the list only without a backlog.
LEMMA ServeNextBacklogs ==
  ASSUME Balanced, NEW f \in Flow, Serves(f), NEW b, NEW t, ServeNext(f, b, t),
         UNCHANGED flowTransport,
         pendingMessages' = [pendingMessages EXCEPT ![f] = b]
  PROVE  Backlogs'
<1> DEFINE done == Drained(f, b)
<1>1. Round(pend) /\ pend.list # << >> /\ pend.cur = f /\ f \in Queued(pend)
  BY TypedRound, ServedQueued DEF Balanced
<1>2. flowTransport[f]
  BY <1>1 DEF Balanced, Backlogs
<1>3. CASE done
  <2>1. Queued(pend') = Queued(pend) \ {f} /\ b = 0
    BY <1>1, <1>3, RemoveFromPendingListProperties DEF ServeNext, Drained
  <2>2. ~(b > 0) /\ f \notin Queued(pend')
    BY <2>1
  <2>3. \A g \in Flow \ {f} : g \in Queued(pend') <=> g \in Queued(pend)
    BY <2>1
  <2> HIDE DEF done
  <2> QED
    BY <2>2, <2>3, BacklogsStep DEF Balanced
<1>4. CASE ~done
  <2>1. Queued(pend') = Queued(pend)
    BY <1>1, <1>4, AdvanceProperties DEF ServeNext
  <2> QED
    BY <1>1, <1>2, <2>1, BacklogsStep DEF Balanced
<1> QED
  BY <1>3, <1>4

LEMMA ServeBalanced ==
  ASSUME Balanced, Serve
  PROVE  OnOnce' /\ Backlogs' /\ Counted'
<1>1. CASE OutputReady \/ ServeEnd
  <2>1. UNCHANGED <<flowTransport, oldTransport, offPending, lastEvent,
                    pendingMessages, pend, socketOpen, referenceCount>>
    BY <1>1 DEF OutputReady, ServeEnd, flowVars, socketVars
  <2> QED
    BY <2>1, OnOnceKept, BacklogsKept, CountedKept DEF Balanced
<1>2. ASSUME NEW f \in Flow, ServeStop(f) PROVE OnOnce' /\ Backlogs' /\ Counted'
  <2>1. /\ StopFlow(f, outputNotify, pend)
        /\ UNCHANGED <<oldTransport, lastEvent>>
    BY <1>2 DEF ServeStop
  <2>2. Round(pend) /\ (f \in Queued(pend) => flowTransport[f])
    BY TypedRound DEF Balanced, Backlogs
  <2> QED
    BY <2>1, <2>2, StopFlowBalanced
<1>3. ASSUME NEW f \in Flow, ServeCounted(f) PROVE OnOnce' /\ Backlogs' /\ Counted'
  <2>1. UNCHANGED <<flowTransport, oldTransport, offPending, lastEvent,
                    pendingMessages, pend, socketOpen, referenceCount>>
    BY <1>3 DEF ServeCounted, socketVars
  <2> QED
    BY <2>1, OnOnceKept, BacklogsKept, CountedKept DEF Balanced
<1>4. ASSUME NEW f \in Flow, ServeSkip(f) PROVE OnOnce' /\ Backlogs' /\ Counted'
  <2>1. UNCHANGED <<flowTransport, oldTransport, offPending, lastEvent,
                    pendingMessages, socketOpen, referenceCount>>
    BY <1>4 DEF ServeSkip, socketVars
  <2>2. pendingMessages' = [pendingMessages EXCEPT ![f] = pendingMessages[f]]
    BY <2>1 DEF Balanced, Typed, TypeOK
  <2>3. Backlogs'
    BY <1>4, <2>1, <2>2, ServeNextBacklogs DEF ServeSkip
  <2> QED
    BY <2>1, <2>3, OnOnceKept, CountedKept DEF Balanced
<1>5. ASSUME NEW f \in Flow, NEW r \in Results, ServeSend(f, r)
      PROVE  OnOnce' /\ Backlogs' /\ Counted'
  <2>1. /\ UNCHANGED <<flowTransport, oldTransport, offPending, lastEvent,
                       socketOpen, referenceCount>>
        /\ pendingMessages' = [pendingMessages EXCEPT ![f] = BacklogAfter(f, r)]
        /\ Serves(f)
    BY <1>5 DEF ServeSend, Sent, socketVars
  <2>2. Backlogs'
    <3>1. CASE r = "OK"
      BY <1>5, <2>1, <3>1, ServeNextBacklogs DEF ServeSend
    <3>2. CASE r # "OK"
      <4>1. pend' = QueueAfter(f, r)
        BY <1>5, <3>2 DEF ServeSend
      <4>2. flowTransport[f]
        BY <2>1, ServedQueued DEF Balanced, Backlogs
      <4> QED
        BY <2>1, <4>1, <4>2, QueueAfterProperties, BacklogsStep DEF Balanced
    <3> QED
      BY <3>1, <3>2
  <2> QED
    BY <2>1, <2>2, OnOnceKept, CountedKept DEF Balanced
<1> QED
  BY <1>1, <1>2, <1>3, <1>4, <1>5 DEF Serve

LEMMA BalancedInit == Init => Balanced
<1> SUFFICES ASSUME Init PROVE Balanced
  OBVIOUS
<1>1. Typed
  BY TypedInit
<1>2. OnOnce
  BY DEF Init, OnOnce
<1>3. Backlogs
  <2>1. Queued(pend) = {}
    BY EmptyQueueProperties DEF Init
  <2>2. ASSUME NEW f \in Flow PROVE ~(pendingMessages[f] > 0)
    <3>1. pendingMessages[f] = 0
      BY DEF Init
    <3> QED
      BY <3>1
  <2> QED
    BY <2>1, <2>2 DEF Backlogs
<1>4. Holders = {}
  BY DEF Init, Holders
<1>5. Counted
  BY <1>4, FS_EmptySet DEF Init, Counted
<1> QED
  BY <1>1, <1>2, <1>3, <1>5 DEF Balanced

LEMMA BalancedNext ==
  ASSUME Ordered, Balanced, [Next]_vars
  PROVE  Balanced'
<1>1. Typed'
  BY NextTyped DEF Balanced
<1>2. ASSUME NEW f \in Flow, Script(f) PROVE OnOnce' /\ Backlogs' /\ Counted'
  BY <1>2, OnBalanced, ModBalanced, ModDestinationBalanced, OffBalanced DEF Script
<1>3. ASSUME NEW f \in Flow, TxTimeout(f) PROVE OnOnce' /\ Backlogs' /\ Counted'
  BY <1>3, TxCountedBalanced, NoOldTransport, TxOffBalanced, TxQueueBalanced,
     TxSendBalanced DEF TxTimeout
<1>4. CASE UNCHANGED vars
  <2>1. UNCHANGED <<flowTransport, oldTransport, offPending, lastEvent,
                    pendingMessages, pend, socketOpen, referenceCount>>
    BY <1>4 DEF vars, flowVars, socketVars
  <2> QED
    BY <1>1, <2>1, OnOnceKept, BacklogsKept, CountedKept DEF Balanced
<1> QED
  BY <1>1, <1>2, <1>3, <1>4, ServeBalanced, RemoteBalanced DEF Next, Balanced

\* With the events of each flow in order and a socket that opens: the
\* reference count is the number of flows that are on, so the socket is closed
\* with the last of them and never before; and every flow with a backlog waits
\* in the round robin, once, and no flow that is off does.
THEOREM ReferencesBalanced ==
  ASSUME Ordered
  PROVE  Spec => [](ReferencesMatch /\ BacklogQueued)
<1>1. Init => Balanced
  BY BalancedInit
<1>2. Balanced /\ [Next]_vars => Balanced'
  BY BalancedNext
<1>3. Balanced => ReferencesMatch /\ BacklogQueued
  BY BalancedImplies
<1> QED
  BY <1>1, <1>2, <1>3, PTL DEF Spec

-------------------------------------------------------------------------------
(***************************************************************************)
(* No flow is left without a wakeup: where events come in order, sockets   *)
(* open, messages are sent or blocked but do not fail, and no flow has a   *)
(* COUNT, a flow that has something to do has its timer running, or waits  *)
(* in the round robin of a socket whose output notification is on.         *)
(***************************************************************************)

Steady == Ordered /\ Counts = {} /\ "FAILED" \notin Results

\* What flows keep to when nothing fails and nothing is counted, and the OFF a
\* pending OFF comes from.
Quiet ==
  \A f \in Flow :
    /\ messageLimit[f] = Unlimited
    /\ ~socketError[f]
    /\ offPending[f] => lastEvent[f] = "OFF"

\* The inductive invariant.  Balanced tells that the flow whose leaving turns the
\* notification off was the last one.
Awake == Balanced /\ Quiet /\ NoLostWakeup

\* A flow that has something to do.
Busy(f) ==
  flowTransport[f] /\ ~flowSuspended[f] /\ (pattern[f] # "zero" \/ offPending[f])

LEMMA NotCounted ==
  ASSUME Quiet, NEW f \in Flow
  PROVE  ~LimitReached(f)
BY DEF Quiet, LimitReached, Unlimited

\* What has to be shown of a step: the flow f it is about is woken, no other one
\* changes, and none of them on the transport loses its wakeup.
LEMMA WakeStep ==
  ASSUME Awake, NEW f \in Flow,
         \A g \in Flow \ {f} :
           /\ Busy(g)' => Busy(g)
           /\ Busy(g)' /\ txTimer[g] => txTimer'[g]
           /\ Busy(g)' /\ outputNotify /\ g \in Queued(pend)
                => outputNotify' /\ g \in Queued(pend'),
         Busy(f)' => Wakes(f)'
  PROVE  NoLostWakeup'
<1> SUFFICES ASSUME NEW g \in Flow, Busy(g)' PROVE Wakes(g)'
  BY DEF NoLostWakeup, Busy
<1>1. CASE g = f
  BY <1>1
<1>2. CASE g # f
  <2>1. Busy(g)
    BY <1>2
  <2>2. Wakes(g)
    BY <2>1, NotCounted DEF Awake, NoLostWakeup, Busy
  <2> QED
    BY <1>2, <2>2 DEF Wakes
<1> QED
  BY <1>1, <1>2

\* With one reference left there is one flow.
LEMMA LastHolder ==
  ASSUME Balanced, NEW f \in Flow, flowTransport[f], referenceCount = 1,
         NEW g \in Flow \ {f}
  PROVE  ~flowTransport[g]
<1>1. IsFiniteSet(Holders) /\ f \in Holders /\ Cardinality(Holders) = 1
  BY HoldersFinite DEF Balanced, Counted, Holders
<1>2. IsFiniteSet(Holders \ {f}) /\ Cardinality(Holders \ {f}) = 0
  BY <1>1, FS_RemoveElement
<1>3. Holders \ {f} = {}
  BY <1>2, FS_EmptySet
<1> QED
  BY <1>3 DEF Holders

-------------------------------------------------------------------------------
(* Quiet.                                                                  *)

LEMMA QuietKept ==
  ASSUME Quiet, UNCHANGED <<messageLimit, socketError, offPending, lastEvent>>
  PROVE  Quiet'
BY DEF Quiet

LEMMA StopFlowQuiet ==
  ASSUME Balanced, Quiet, NEW f \in Flow, NEW n, NEW q, StopFlow(f, n, q),
         \A g \in Flow : ~socketError'[g],
         \A g \in Flow \ {f} : lastEvent'[g] = lastEvent[g]
  PROVE  Quiet'
<1>1. /\ messageLimit' = [messageLimit EXCEPT ![f] = Unlimited]
      /\ offPending' = [offPending EXCEPT ![f] = FALSE]
  BY DEF StopFlow
<1> QED
  BY <1>1 DEF Quiet, Balanced, Typed, TypeOK

LEMMA ScriptQuiet ==
  ASSUME Balanced, Quiet, Steady, NEW f \in Flow, Script(f)
  PROVE  Quiet'
<1>1. ASSUME NEW p, NEW c \in Counts \cup {NoCount}, NEW k, SetCount(f, c, k)
      PROVE  UNCHANGED messageLimit
  BY <1>1 DEF Steady, SetCount
<1>2. ASSUME NEW p, NEW c \in Counts \cup {NoCount}, NEW k, NEW d, On(f, p, c, k, d) PROVE Quiet'
  <2>1. UNCHANGED <<messageLimit, socketError>> /\ OnOpened(f, p, d)
    BY <1>1, <1>2 DEF On, OnNotOpened, Steady, Ordered
  <2>2. /\ offPending' = [offPending EXCEPT ![f] = FALSE]
        /\ lastEvent' = [lastEvent EXCEPT ![f] = "ON"]
    BY <1>2, <2>1 DEF On, OnOpened
  <2> QED
    BY <2>1, <2>2 DEF Quiet, Balanced, Typed, TypeOK
<1>3. ASSUME NEW p, NEW c \in Counts \cup {NoCount}, NEW k, Mod(f, p, c, k) PROVE Quiet'
  <2>1. UNCHANGED <<messageLimit, socketError, offPending>>
    BY <1>1, <1>3 DEF Mod
  <2>2. lastEvent' = [lastEvent EXCEPT ![f] = "MOD"] /\ lastEvent[f] # "OFF"
    BY <1>3 DEF Mod, Valid, Steady, Ordered
  <2> QED
    BY <2>1, <2>2 DEF Quiet, Balanced, Typed, TypeOK
<1>4. CASE ModDestination(f)
  <2>1. UNCHANGED <<messageLimit, socketError, offPending>>
    BY <1>4 DEF ModDestination
  <2>2. lastEvent' = [lastEvent EXCEPT ![f] = "MOD"] /\ lastEvent[f] # "OFF"
    BY <1>4 DEF ModDestination, Valid, Steady, Ordered
  <2> QED
    BY <2>1, <2>2 DEF Quiet, Balanced, Typed, TypeOK
<1>5. CASE Off(f)
  <2>1. UNCHANGED socketError /\ lastEvent' = [lastEvent EXCEPT ![f] = "OFF"]
    BY <1>5 DEF Off
  <2>2. /\ messageLimit' = messageLimit \/ messageLimit' = [messageLimit EXCEPT ![f] = Unlimited]
        /\ \E x : offPending' = [offPending EXCEPT ![f] = x]
    BY <1>5 DEF Off, StopFlow
  <2> QED
    BY <2>1, <2>2 DEF Quiet, Balanced, Typed, TypeOK
<1> QED
  BY <1>2, <1>3, <1>4, <1>5 DEF Script

LEMMA NoErrorAfter ==
  ASSUME Quiet, Steady, NEW f \in Flow, NEW r \in Results
  PROVE  ErrorAfter(f, r) = FALSE
BY DEF Quiet, Steady, ErrorAfter

LEMMA SentQuiet ==
  ASSUME Balanced, Quiet, Steady, NEW f \in Flow, NEW r,
         r \in Results, socketError' = [socketError EXCEPT ![f] = ErrorAfter(f, r)]
  PROVE  \A g \in Flow : ~socketError'[g]
BY NoErrorAfter DEF Quiet, Balanced, Typed, TypeOK

LEMMA TxTimeoutQuiet ==
  ASSUME Balanced, Quiet, Steady, NEW f \in Flow, TxTimeout(f)
  PROVE  Quiet'
<1>1. CASE TxCounted(f)
  <2>1. UNCHANGED <<lastEvent, socketError>>
    BY <1>1 DEF TxCounted
  <2>2. CASE keepAlive[f]
    BY <1>1, <2>1, <2>2, QuietKept DEF TxCounted
  <2>3. CASE ~keepAlive[f]
    BY <1>1, <2>1, <2>3, StopFlowQuiet DEF TxCounted, Quiet
  <2> QED
    BY <2>2, <2>3
<1>2. CASE TxOff(f)
  <2>1. UNCHANGED <<lastEvent, socketError>>
    BY <1>2 DEF TxOff
  <2>2. CASE pendingMessages[f] > 0 /\ ~socketError[f]
    BY <1>2, <2>1, <2>2, QuietKept DEF TxOff
  <2>3. CASE ~(pendingMessages[f] > 0 /\ ~socketError[f])
    BY <1>2, <2>1, <2>3, StopFlowQuiet DEF TxOff, Quiet
  <2> QED
    BY <2>2, <2>3
<1>3. CASE TxQueue(f)
  <2>1. UNCHANGED <<lastEvent, socketError>>
    BY <1>3 DEF TxQueue
  <2>2. CASE UNCHANGED <<messageLimit, offPending>>
    BY <2>1, <2>2, QuietKept
  <2>3. CASE \E n, q : StopFlow(f, n, q)
    BY <2>1, <2>3, StopFlowQuiet DEF Quiet
  <2> QED
    BY <1>3, <2>2, <2>3 DEF TxQueue
<1>4. ASSUME NEW r \in Results, TxSend(f, r) PROVE Quiet'
  <2>1. UNCHANGED lastEvent /\ socketError' = [socketError EXCEPT ![f] = ErrorAfter(f, r)]
    BY <1>4 DEF TxSend, Sent
  <2>2. \A g \in Flow : ~socketError'[g]
    BY <2>1, SentQuiet
  <2>3. CASE StopsAtZero(f)
    BY <1>4, <2>1, <2>2, <2>3, StopFlowQuiet DEF TxSend
  <2>4. CASE ~StopsAtZero(f)
    <3>1. UNCHANGED <<messageLimit, offPending>>
      BY <1>4, <2>4 DEF TxSend
    <3> QED
      BY <2>1, <2>2, <3>1 DEF Quiet
  <2> QED
    BY <2>3, <2>4
<1> QED
  BY <1>1, <1>2, <1>3, <1>4, NoOldTransport DEF TxTimeout

LEMMA ServeQuiet ==
  ASSUME Balanced, Quiet, Steady, Serve
  PROVE  Quiet'
<1>1. CASE OutputReady \/ ServeEnd
  BY <1>1, QuietKept DEF OutputReady, ServeEnd, flowVars
<1>2. ASSUME NEW f \in Flow, ServeStop(f) PROVE Quiet'
  BY <1>2, StopFlowQuiet DEF ServeStop, Quiet
<1>3. ASSUME NEW f \in Flow, ServeCounted(f) \/ ServeSkip(f) PROVE Quiet'
  BY <1>3, QuietKept DEF ServeCounted, ServeSkip
<1>4. ASSUME NEW f \in Flow, NEW r \in Results, ServeSend(f, r) PROVE Quiet'
  <2>1. /\ UNCHANGED <<lastEvent, messageLimit, offPending>>
        /\ socketError' = [socketError EXCEPT ![f] = ErrorAfter(f, r)]
    BY <1>4 DEF ServeSend, Sent
  <2>2. \A g \in Flow : ~socketError'[g]
    BY <2>1, SentQuiet
  <2> QED
    BY <2>1, <2>2 DEF Quiet
<1> QED
  BY <1>1, <1>2, <1>3, <1>4 DEF Serve

-------------------------------------------------------------------------------
(* Wakeups.                                                                *)

\* Close turns the notification off only under the last flow.
LEMMA StopFlowWakes ==
  ASSUME Awake, NEW f \in Flow, NEW n, NEW q, Round(q), StopFlow(f, n, q),
         \A g \in Flow \ {f} : g \in Queued(q) <=> g \in Queued(pend),
         outputNotify => n,
         UNCHANGED <<flowSuspended, pattern>>
  PROVE  NoLostWakeup'
<1>1. /\ flowTransport' = [flowTransport EXCEPT ![f] = FALSE]
      /\ offPending' = [offPending EXCEPT ![f] = FALSE]
      /\ txTimer' = [txTimer EXCEPT ![f] = FALSE]
  BY DEF StopFlow
<1>2. \A g \in Flow \ {f} : g \in Queued(pend') <=> g \in Queued(pend)
  <2>1. CASE flowTransport[f]
    BY <2>1, RemoveFlowProperties DEF StopFlow
  <2>2. CASE ~flowTransport[f]
    BY <2>2 DEF StopFlow
  <2> QED
    BY <2>1, <2>2
<1>3. ~Busy(f)' /\ \A g \in Flow \ {f} : (Busy(g)' => Busy(g)) /\ txTimer'[g] = txTimer[g]
  BY <1>1 DEF Busy, Awake, Balanced, Typed, TypeOK
<1>4. ASSUME NEW g \in Flow \ {f}, Busy(g)', outputNotify PROVE outputNotify'
  <2>1. CASE flowTransport[f]
    <3>1. referenceCount # 1
      BY <1>3, <1>4, <2>1, LastHolder DEF Busy, Awake
    <3> QED
      BY <1>4, <2>1, <3>1 DEF StopFlow, Close
  <2>2. CASE ~flowTransport[f]
    BY <1>4, <2>2 DEF StopFlow
  <2> QED
    BY <2>1, <2>2
<1> QED
  BY <1>2, <1>3, <1>4, WakeStep

\* A step about f that leaves the others in the round robin and the notification on.
LEMMA WakeAlone ==
  ASSUME Awake, NEW f \in Flow,
         \A g \in Flow \ {f} :
           /\ flowTransport'[g] = flowTransport[g]
           /\ flowSuspended'[g] = flowSuspended[g]
           /\ pattern'[g] = pattern[g]
           /\ offPending'[g] = offPending[g]
           /\ txTimer'[g] = txTimer[g]
           /\ g \in Queued(pend) => g \in Queued(pend'),
         outputNotify => outputNotify',
         Busy(f)' => Wakes(f)'
  PROVE  NoLostWakeup'
BY WakeStep DEF Busy

LEMMA OnWakes ==
  ASSUME Awake, Steady, NEW f \in Flow, NEW p \in Patterns, NEW c, NEW k, NEW d,
         On(f, p, c, k, d)
  PROVE  NoLostWakeup'
<1>1. OnOpened(f, p, d)
  BY DEF On, OnNotOpened, Steady, Ordered
<1>2. /\ flowTransport' = [flowTransport EXCEPT ![f] = TRUE]
      /\ pattern' = [pattern EXCEPT ![f] = p]
      /\ offPending' = [offPending EXCEPT ![f] = FALSE]
      /\ txTimer' = [txTimer EXCEPT ![f] = Scheduled(f, p)]
      /\ UNCHANGED <<flowSuspended, outputNotify>>
      /\ pend' = pend \/ pend' = RemoveFlow(pend, f)
  BY <1>1 DEF On, OnOpened
<1>3. \A g \in Flow \ {f} : g \in Queued(pend) => g \in Queued(pend')
  BY <1>2, TypedRound, RemoveFlowProperties DEF Awake, Balanced
<1>4. Busy(f)' => txTimer'[f]
  BY <1>2, UdpFlowsAssumption DEF Busy, Scheduled, Awake, Balanced, Typed, TypeOK
<1> QED
  BY <1>2, <1>3, <1>4, WakeAlone DEF Wakes, Awake, Balanced, Typed, TypeOK

LEMMA ModWakes ==
  ASSUME Awake, Steady, NEW f \in Flow, NEW p \in Patterns, NEW c, NEW k, Mod(f, p, c, k)
  PROVE  NoLostWakeup'
<1>1. UNCHANGED <<flowTransport, flowSuspended, offPending, outputNotify, pend>>
  BY DEF Mod
<1>2. CASE ~flowTransport[f]
  <2>1. UNCHANGED <<pattern, txTimer>>
    BY <1>2 DEF Mod
  <2> QED
    BY <1>1, <1>2, <2>1, WakeAlone DEF Busy
<1>3. CASE flowTransport[f]
  <2>1. /\ pattern' = [pattern EXCEPT ![f] = p]
        /\ txTimer' = [txTimer EXCEPT ![f] = Scheduled(f, p)]
        /\ lastEvent[f] # "OFF"
    BY <1>3 DEF Mod, Valid, Steady, Ordered
  <2>2. ~offPending[f]
    BY <2>1 DEF Awake, Quiet
  <2>3. Busy(f)' => txTimer'[f]
    BY <1>1, <2>1, <2>2, UdpFlowsAssumption DEF Busy, Scheduled, Awake, Balanced, Typed, TypeOK
  <2> QED
    BY <1>1, <2>1, <2>3, WakeAlone DEF Wakes, Awake, Balanced, Typed, TypeOK
<1> QED
  BY <1>2, <1>3

LEMMA ModDestinationWakes ==
  ASSUME Awake, Steady, NEW f \in Flow, ModDestination(f)
  PROVE  NoLostWakeup'
<1>1. UNCHANGED <<flowTransport, flowSuspended, pattern, offPending, pend>>
  BY DEF ModDestination
<1>2. CASE ~flowTransport[f]
  <2>1. UNCHANGED <<outputNotify, txTimer>>
    BY <1>2 DEF ModDestination
  <2> QED
    BY <1>1, <1>2, <2>1, WakeAlone DEF Busy
<1>3. CASE flowTransport[f]
  <2>1. /\ txTimer' = [txTimer EXCEPT ![f] = Scheduled(f, pattern[f])]
        /\ outputNotify' = (outputNotify /\ referenceCount # 1)
        /\ lastEvent[f] # "OFF"
    BY <1>3 DEF ModDestination, Valid, Steady, Ordered
  <2>2. Busy(f)' => txTimer'[f]
    <3>1. ~offPending[f]
      BY <2>1 DEF Awake, Quiet
    <3> QED
      BY <1>1, <2>1, <3>1 DEF Busy, Scheduled, Awake, Balanced, Typed, TypeOK
  <2>3. ASSUME NEW g \in Flow \ {f}, Busy(g)' PROVE outputNotify => outputNotify'
    BY <1>1, <1>3, <2>1, <2>3, LastHolder DEF Busy, Awake
  <2>4. \A g \in Flow \ {f} : txTimer'[g] = txTimer[g]
    BY <2>1 DEF Awake, Balanced, Typed, TypeOK
  <2>5. \A g \in Flow \ {f} : Busy(g)' => Busy(g)
    BY <1>1 DEF Busy
  <2> QED
    BY <1>1, <2>2, <2>3, <2>4, <2>5, WakeStep DEF Wakes
<1> QED
  BY <1>2, <1>3

LEMMA OffWakes ==
  ASSUME Awake, NEW f \in Flow, Off(f)
  PROVE  NoLostWakeup'
<1>1. UNCHANGED <<flowSuspended, pattern>>
  BY DEF Off
<1>2. /\ Round(pend) /\ Round(AppendFlow(pend, f))
      /\ Queued(AppendFlow(pend, f)) = Queued(pend) \cup {f}
  BY TypedRound, AppendFlowProperties DEF Awake, Balanced
<1>3. CASE flowTransport[f] /\ pendingMessages[f] > 0 /\ ~socketError[f]
  <2>1. /\ offPending' = [offPending EXCEPT ![f] = TRUE]
        /\ pend' = AppendFlow(pend, f)
        /\ outputNotify' = TRUE
        /\ txTimer' = [txTimer EXCEPT ![f] = FALSE]
        /\ UNCHANGED flowTransport
    BY <1>3 DEF Off
  <2> QED
    BY <1>1, <1>2, <2>1, WakeAlone DEF Wakes, Awake, Balanced, Typed, TypeOK
<1>4. CASE ~(flowTransport[f] /\ pendingMessages[f] > 0 /\ ~socketError[f])
  <2> DEFINE q == IF flowTransport[f] /\ pendingMessages[f] > 0
                  THEN AppendFlow(pend, f) ELSE pend
  <2>1. StopFlow(f, outputNotify, q)
    BY <1>4 DEF Off
  <2>2. Round(q) /\ \A g \in Flow \ {f} : g \in Queued(q) <=> g \in Queued(pend)
    BY <1>2
  <2> HIDE DEF q
  <2> QED
    BY <1>1, <2>1, <2>2, StopFlowWakes
<1> QED
  BY <1>3, <1>4

LEMMA RemoteWakes ==
  ASSUME Awake, NEW f \in Flow, Remote(f)
  PROVE  NoLostWakeup'
<1>1. UNCHANGED <<flowTransport, pattern, offPending, outputNotify, pend>>
  BY DEF Remote, Suspend, Resume, Reset, Wake
<1>2. CASE Suspend(f)
  <2>1. /\ txTimer' = [txTimer EXCEPT ![f] = FALSE]
        /\ flowSuspended' = [flowSuspended EXCEPT ![f] = TRUE]
    BY <1>2 DEF Suspend
  <2> QED
    BY <1>1, <2>1, WakeAlone DEF Busy, Awake, Balanced, Typed, TypeOK
<1>3. CASE Wake(f)
  <2>1. /\ txTimer' = [txTimer EXCEPT ![f] = txTimer[f] \/ flowSuspended[f]]
        /\ flowSuspended' = [flowSuspended EXCEPT ![f] = FALSE]
    BY <1>3 DEF Wake
  <2>2. Busy(f)' => Busy(f) \/ txTimer'[f]
    BY <1>1, <2>1 DEF Busy, Awake, Balanced, Typed, TypeOK
  <2>3. Busy(f) => Wakes(f)
    BY NotCounted DEF Awake, NoLostWakeup, Busy
  <2>4. Wakes(f) => Wakes(f)'
    BY <1>1, <2>1 DEF Wakes, Awake, Balanced, Typed, TypeOK
  <2>5. Busy(f)' => Wakes(f)'
    BY <2>2, <2>3, <2>4 DEF Wakes
  <2> QED
    BY <1>1, <2>1, <2>5, WakeAlone DEF Awake, Balanced, Typed, TypeOK
<1> QED
  BY <1>2, <1>3 DEF Remote, Resume, Reset

LEMMA TxCountedWakes ==
  ASSUME Awake, NEW f \in Flow, TxCounted(f)
  PROVE  NoLostWakeup'
<1>1. ~flowTransport[f] /\ UNCHANGED <<flowSuspended, pattern>>
  BY NotCounted DEF TxCounted, Awake
<1>2. CASE keepAlive[f]
  <2>1. /\ txTimer' = [txTimer EXCEPT ![f] = FALSE]
        /\ UNCHANGED <<flowTransport, offPending, outputNotify, pend>>
    BY <1>2 DEF TxCounted
  <2> QED
    BY <1>1, <2>1, WakeAlone DEF Busy, Awake, Balanced, Typed, TypeOK
<1>3. CASE ~keepAlive[f]
  BY <1>1, <1>3, TypedRound, StopFlowWakes DEF TxCounted, Awake, Balanced
<1> QED
  BY <1>2, <1>3

LEMMA TxOffWakes ==
  ASSUME Awake, NEW f \in Flow, TxOff(f)
  PROVE  NoLostWakeup'
<1>1. UNCHANGED <<flowSuspended, pattern>>
  BY DEF TxOff
<1>2. Round(pend) /\ Queued(AppendFlow(pend, f)) = Queued(pend) \cup {f}
  BY TypedRound, AppendFlowProperties DEF Awake, Balanced
<1>3. CASE pendingMessages[f] > 0 /\ ~socketError[f]
  <2>1. /\ txTimer' = [txTimer EXCEPT ![f] = FALSE]
        /\ pend' = AppendFlow(pend, f)
        /\ outputNotify' = TRUE
        /\ UNCHANGED <<flowTransport, offPending>>
    BY <1>3 DEF TxOff
  <2> QED
    BY <1>1, <1>2, <2>1, WakeAlone DEF Wakes, Awake, Balanced, Typed, TypeOK
<1>4. CASE ~(pendingMessages[f] > 0 /\ ~socketError[f])
  BY <1>1, <1>2, <1>4, StopFlowWakes DEF TxOff
<1> QED
  BY <1>3, <1>4

LEMMA TxQueueWakes ==
  ASSUME Awake, NEW f \in Flow, TxQueue(f)
  PROVE  NoLostWakeup'
<1> DEFINE joins == QueueLimit[f] > 0
           full  == joins /\ pendingMessages[f] + 1 >= QueueLimit[f]
           q     == IF joins THEN AppendFlow(pend, f) ELSE pend
<1>1. /\ UNCHANGED <<flowSuspended, pattern>>
      /\ ~offPending[f] /\ txTimer[f] /\ pattern[f] # "fast"
  BY DEF TxQueue, TxReady, TxFires, Waits, UnlimitedRate
<1>2. /\ Round(q)
      /\ \A g \in Flow \ {f} : g \in Queued(q) <=> g \in Queued(pend)
      /\ joins => f \in Queued(q)
  BY TypedRound, AppendFlowProperties DEF Awake, Balanced
<1>3. CASE ~full /\ StopsAtZero(f)
  <2>1. StopFlow(f, TRUE, q)
    BY <1>3 DEF TxQueue
  <2> HIDE DEF q
  <2> QED
    BY <1>1, <1>2, <2>1, StopFlowWakes
<1>4. CASE ~(~full /\ StopsAtZero(f))
  <2>1. /\ outputNotify' = TRUE
        /\ pend' = q
        /\ txTimer' = [txTimer EXCEPT ![f] = ~full /\ NextInterval(f, txTimer[f])]
        /\ UNCHANGED <<flowTransport, offPending>>
    BY <1>4 DEF TxQueue
  <2>2. full => f \in Queued(q)
    BY <1>2
  <2> HIDE DEF q, full
  <2>3. Busy(f)' => Wakes(f)'
    <3>1. CASE full
      BY <2>1, <2>2, <3>1 DEF Wakes
    <3>2. CASE ~full
      BY <1>1, <2>1, <3>2 DEF Busy, Wakes, NextInterval, Awake, Balanced, Typed, TypeOK
    <3> QED
      BY <3>1, <3>2
  <2> QED
    BY <1>1, <1>2, <2>1, <2>3, WakeAlone DEF Awake, Balanced, Typed, TypeOK
<1> QED
  BY <1>3, <1>4

\* The notification only goes off after an error.
LEMMA NotifyKept ==
  ASSUME Steady, NEW f \in Flow, NEW r \in Results
  PROVE  outputNotify => NotifyAfter(f, r)
BY UdpFlowsAssumption DEF Steady, NotifyAfter

LEMMA TxSendWakes ==
  ASSUME Awake, Steady, NEW f \in Flow, NEW r \in Results, TxSend(f, r)
  PROVE  NoLostWakeup'
<1>1. /\ UNCHANGED <<flowSuspended, pattern>>
      /\ ~offPending[f] /\ txTimer[f]
  BY DEF TxSend, TxReady, TxFires
<1>2. /\ Round(QueueAfter(f, r))
      /\ \A g \in Flow \ {f} : g \in Queued(QueueAfter(f, r)) <=> g \in Queued(pend)
      /\ Queued(AppendFlow(pend, f)) = Queued(pend) \cup {f}
  BY QueueAfterProperties, TypedRound, AppendFlowProperties DEF Awake, Balanced
<1>3. CASE StopsAtZero(f)
  BY <1>1, <1>2, <1>3, StopFlowWakes, NotifyKept DEF TxSend
<1>4. CASE ~StopsAtZero(f)
  <2> DEFINE goesOn == UnlimitedRate(f) /\ ~ErrorAfter(f, r)
  <2>1. /\ pend' = IF goesOn THEN AppendFlow(pend, f) ELSE QueueAfter(f, r)
        /\ outputNotify' = (goesOn \/ NotifyAfter(f, r))
        /\ txTimer' = [txTimer EXCEPT ![f] = IF UnlimitedRate(f) THEN ~goesOn
                                             ELSE NextInterval(f, TimerAfter(f, r))]
        /\ UNCHANGED <<flowTransport, offPending>>
    BY <1>4 DEF TxSend
  <2>2. goesOn <=> pattern[f] = "fast"
    BY NoErrorAfter DEF UnlimitedRate, Awake
  <2> HIDE DEF goesOn
  <2>3. \A g \in Flow \ {f} : g \in Queued(pend) => g \in Queued(pend')
    BY <1>2, <2>1
  <2>4. Busy(f)' => Wakes(f)'
    <3>1. CASE pattern[f] = "fast"
      BY <1>2, <2>1, <2>2, <3>1 DEF Wakes
    <3>2. CASE pattern[f] # "fast"
      BY <1>1, <2>1, <2>2, <3>2 DEF Busy, Wakes, NextInterval, UnlimitedRate, Awake, Balanced, Typed, TypeOK
    <3> QED
      BY <3>1, <3>2
  <2>5. outputNotify => outputNotify'
    BY <2>1, NotifyKept
  <2> QED
    BY <1>1, <2>1, <2>3, <2>4, <2>5, WakeAlone DEF Awake, Balanced, Typed, TypeOK
<1> QED
  BY <1>3, <1>4

\* A flow that leaves the round robin gets its timer back, unless its rate is
\* unlimited, and then it does not leave.
LEMMA ServeNextWakes ==
  ASSUME Awake, NEW f \in Flow, Serves(f), NEW b \in Nat, NEW t,
         ServeNext(f, b, t), txTimer[f] => t, outputNotify => outputNotify',
         UNCHANGED <<flowTransport, flowSuspended, pattern, offPending>>
  PROVE  NoLostWakeup'
<1> DEFINE done == Drained(f, b)
<1>1. Round(pend) /\ pend.list # << >> /\ pend.cur = f
  BY TypedRound, ServedQueued DEF Awake, Balanced
<1>2. Queued(pend') = IF done THEN Queued(pend) \ {f} ELSE Queued(pend)
  BY <1>1, RemoveFromPendingListProperties, AdvanceProperties DEF ServeNext
<1>3. txTimer' = [txTimer EXCEPT ![f] =
                    t \/ (BelowLimit(f, b) /\ ~UnlimitedRate(f) /\ ~flowSuspended[f])]
  BY DEF ServeNext
<1>4. Busy(f)' => Wakes(f)'
  <2>1. CASE done
    <3>1. b = 0 /\ ~UnlimitedRate(f)
      BY <2>1 DEF Drained, SendMore, Awake, Quiet, Unlimited
    <3>2. BelowLimit(f, b)
      BY <3>1, UdpFlowsAssumption DEF BelowLimit
    <3> QED
      BY <1>3, <3>1, <3>2 DEF Busy, Wakes, Awake, Balanced, Typed, TypeOK
  <2>2. CASE ~done
    <3>1. Busy(f)' => Wakes(f)
      BY NotCounted DEF Awake, NoLostWakeup, Busy
    <3> QED
      BY <1>2, <1>3, <2>2, <3>1 DEF Wakes, Awake, Balanced, Typed, TypeOK
  <2> QED
    BY <2>1, <2>2
<1>5. \A g \in Flow \ {f} : g \in Queued(pend) => g \in Queued(pend')
  BY <1>2
<1> HIDE DEF done
<1> QED
  BY <1>3, <1>4, <1>5, WakeAlone DEF Awake, Balanced, Typed, TypeOK

LEMMA ServeSendWakes ==
  ASSUME Awake, Steady, NEW f \in Flow, NEW r \in Results, ServeSend(f, r)
  PROVE  NoLostWakeup'
<1>1. /\ UNCHANGED <<flowTransport, flowSuspended, pattern, offPending>>
      /\ outputNotify' = NotifyAfter(f, r)
      /\ Serves(f)
  BY DEF ServeSend
<1>2. outputNotify => outputNotify'
  BY <1>1, NotifyKept
<1>3. CASE r = "OK"
  <2>1. BacklogAfter(f, r) \in Nat
    BY <1>3 DEF BacklogAfter, Awake, Balanced, Typed, TypeOK
  <2>2. txTimer[f] => TimerAfter(f, r)
    BY <1>3 DEF TimerAfter, Awake, Quiet
  <2>3. ServeNext(f, BacklogAfter(f, r), TimerAfter(f, r))
    BY <1>3 DEF ServeSend
  <2> QED
    BY <1>1, <1>2, <2>1, <2>2, <2>3, ServeNextWakes
<1>4. CASE r # "OK"
  <2> DEFINE full == QueueLimit[f] > 0 /\ BacklogAfter(f, r) >= QueueLimit[f]
  <2>1. r = "BLOCKED"
    BY <1>4, UdpFlowsAssumption DEF Steady
  <2>2. /\ pend' = QueueAfter(f, r)
        /\ txTimer' = [txTimer EXCEPT ![f] = txTimer[f] /\ ~full]
    BY <1>4, <2>1 DEF ServeSend, TimerAfter
  <2>3. /\ f \in Queued(pend')
        /\ \A g \in Flow \ {f} : g \in Queued(pend) => g \in Queued(pend')
    BY <1>1, <2>2, ServedQueued, QueueAfterProperties DEF Awake, Balanced
  <2>4. full => outputNotify'
    <3>1. full => Keeps(f)
      BY DEF Keeps
    <3>2. NotifyAfter(f, r) = (outputNotify \/ Keeps(f))
      BY <2>1 DEF NotifyAfter
    <3> HIDE DEF full
    <3> QED
      BY <1>1, <3>1, <3>2
  <2>5. Busy(f)' => Wakes(f)
    BY <1>1, NotCounted DEF Awake, NoLostWakeup, Busy
  <2> HIDE DEF full
  <2>6. Busy(f)' => Wakes(f)'
    BY <1>2, <2>2, <2>3, <2>4, <2>5 DEF Wakes, Awake, Balanced, Typed, TypeOK
  <2> QED
    BY <1>1, <1>2, <2>2, <2>3, <2>6, WakeAlone DEF Awake, Balanced, Typed, TypeOK
<1> QED
  BY <1>3, <1>4

\* ServeEnd turns the notification off when the round robin is empty.
LEMMA ServeEndWakes ==
  ASSUME Awake, ServeEnd
  PROVE  NoLostWakeup'
<1>1. UNCHANGED <<flowTransport, flowSuspended, pattern, offPending, txTimer, pend>>
  BY DEF ServeEnd, flowVars
<1>2. outputNotify' = (outputNotify /\ pend.list # << >>)
  BY DEF ServeEnd
<1>3. pend.list = << >> => Queued(pend) = {}
  BY TypedRound, RoundElim, NoElements DEF Awake, Balanced
<1> SUFFICES ASSUME NEW f \in Flow, Busy(f)' PROVE Wakes(f)'
  BY DEF NoLostWakeup, Busy
<1>4. Wakes(f)
  BY <1>1, NotCounted DEF Awake, NoLostWakeup, Busy
<1> QED
  BY <1>1, <1>2, <1>3, <1>4 DEF Wakes

LEMMA ServeWakes ==
  ASSUME Awake, Steady, Serve
  PROVE  NoLostWakeup'
<1>1. CASE OutputReady
  BY <1>1 DEF OutputReady, flowVars, NoLostWakeup, LimitReached, Wakes, Awake
<1>2. ASSUME NEW f \in Flow, ServeStop(f) PROVE NoLostWakeup'
  <2>1. StopFlow(f, outputNotify, pend) /\ UNCHANGED <<flowSuspended, pattern>>
    BY <1>2 DEF ServeStop
  <2> QED
    BY <2>1, TypedRound, StopFlowWakes DEF Awake, Balanced
<1>3. ASSUME NEW f \in Flow, ServeCounted(f) PROVE NoLostWakeup'
  BY <1>3, NotCounted DEF ServeCounted, Awake
<1>4. ASSUME NEW f \in Flow, ServeSkip(f) PROVE NoLostWakeup'
  <2>1. /\ UNCHANGED <<flowTransport, flowSuspended, pattern, offPending, outputNotify>>
        /\ Serves(f) /\ ServeNext(f, pendingMessages[f], txTimer[f])
    BY <1>4 DEF ServeSkip
  <2>2. pendingMessages[f] \in Nat
    BY DEF Awake, Balanced, Typed, TypeOK
  <2> QED
    BY <2>1, <2>2, ServeNextWakes
<1> QED
  BY <1>1, <1>2, <1>3, <1>4, ServeSendWakes, ServeEndWakes DEF Serve

-------------------------------------------------------------------------------
LEMMA AwakeInit == Init => Awake
<1> SUFFICES ASSUME Init PROVE Awake
  OBVIOUS
<1>1. Quiet
  BY DEF Init, Quiet
<1>2. NoLostWakeup
  BY DEF Init, NoLostWakeup
<1> QED
  BY <1>1, <1>2, BalancedInit DEF Awake

LEMMA AwakeNext ==
  ASSUME Steady, Awake, [Next]_vars
  PROVE  Awake'
<1>1. Balanced'
  BY BalancedNext DEF Awake, Steady
<1>2. CASE Serve
  BY <1>1, <1>2, ServeQuiet, ServeWakes DEF Awake
<1>3. ASSUME NEW f \in Flow, Script(f) PROVE Quiet' /\ NoLostWakeup'
  BY <1>3, ScriptQuiet, OnWakes, ModWakes, ModDestinationWakes, OffWakes DEF Script, Awake
<1>4. ASSUME NEW f \in Flow, Remote(f) PROVE Quiet' /\ NoLostWakeup'
  <2>1. UNCHANGED <<messageLimit, socketError, offPending, lastEvent>>
    BY <1>4 DEF Remote, Suspend, Resume, Reset, Wake
  <2> QED
    BY <1>4, <2>1, QuietKept, RemoteWakes DEF Awake
<1>5. ASSUME NEW f \in Flow, TxTimeout(f) PROVE Quiet' /\ NoLostWakeup'
  BY <1>5, TxTimeoutQuiet, TxCountedWakes, NoOldTransport, TxOffWakes, TxQueueWakes,
     TxSendWakes DEF TxTimeout, Awake
<1>6. CASE UNCHANGED vars
  BY <1>6 DEF vars, flowVars, Awake, Quiet, NoLostWakeup, LimitReached, Wakes, Balanced,
     Typed, TypeOK, RoundRobin, OnOnce, Backlogs, Counted, Holders, loopVars, socketVars
<1> QED
  BY <1>1, <1>2, <1>3, <1>4, <1>5, <1>6 DEF Next, Awake

\* No lost wakeup, for any number of flows, any queues and any mix of rates: while
\* nothing fails and no flow is counted, the places that stop a timer or turn the
\* output notification off (a full queue, a blocked socket, the last Close, an empty
\* round robin) never leave a flow that is to send, or to end, without both.
THEOREM WakeupsKept ==
  ASSUME Steady
  PROVE  Spec => []NoLostWakeup
<1>1. Init => Awake
  BY AwakeInit
<1>2. Awake /\ [Next]_vars => Awake'
  BY AwakeNext
<1>3. Awake => NoLostWakeup
  BY DEF Awake
<1> QED
  BY <1>1, <1>2, <1>3, PTL DEF Spec

-------------------------------------------------------------------------------
(* The pointers of the pending lists.                                      *)


\* There are finitely many flows, NULL is none of them, and a flow does not change
\* its transport while it waits for it.
Sound ==
  /\ IsFiniteSet(LinkedFlow)
  /\ NoFlow \notin LinkedFlow
  /\ NoTransport \notin Transport
  /\ ~MovesWaiting

\* No flow is twice in the list s.
Distinct(s) == \A i, j \in DOMAIN s : s[i] = s[j] => i = j

\* The flow after position i of a list and the one before it, NULL at its ends.
Succ(s, i) == IF i < Len(s) THEN s[i + 1] ELSE NoFlow
Pred(s, i) == IF i > 1 THEN s[i - 1] ELSE NoFlow
First(s) == IF s = << >> THEN NoFlow ELSE s[1]

\* The flows of s are linked through nx and pv, from h to l, with c among them,
\* and all of them send on t.
Chain(s, h, l, c, nx, pv, own, t) ==
  /\ s \in Seq(LinkedFlow) /\ Distinct(s)
  /\ h = First(s)
  /\ s # << >> => l = s[Len(s)]
  /\ IF s = << >> THEN c = NoFlow ELSE \E i \in 1..Len(s) : c = s[i]
  /\ \A i \in 1..Len(s) :
       nx[s[i]] = Succ(s, i) /\ pv[s[i]] = Pred(s, i) /\ own[s[i]] = t

\* The pointers hold the lists q, and no flow outside of them points at another.
Linked(q, hd, tl, cu, nx, pv, own) ==
  /\ q \in [Transport -> Seq(LinkedFlow)]
  /\ hd \in [Transport -> Lists!Pointer]
  /\ tl \in [Transport -> Lists!Pointer]
  /\ cu \in [Transport -> Lists!Pointer]
  /\ nx \in [LinkedFlow -> Lists!Pointer]
  /\ pv \in [LinkedFlow -> Lists!Pointer]
  /\ own \in [LinkedFlow -> Transport \cup {NoTransport}]
  /\ \A t \in Transport : Chain(q[t], hd[t], tl[t], cu[t], nx, pv, own, t)
  /\ \A f \in LinkedFlow :
       \/ nx[f] = NoFlow /\ pv[f] = NoFlow
       \/ \E t \in Transport : \E i \in 1..Len(q[t]) : q[t][i] = f

\* The walk of RemoveFlow, from h on along the pointers nx.
WalkOf(h, nx) ==
  LET at[n \in 1..Cardinality(LinkedFlow)] ==
        IF n = 1 THEN h
        ELSE IF at[n - 1] = NoFlow THEN NoFlow ELSE nx[at[n - 1]]
      length == Cardinality({n \in DOMAIN at : at[n] # NoFlow})
  IN [n \in 1..length |-> at[n]]

-------------------------------------------------------------------------------
\* The numbers up to n are n.
LEMMA CountTo ==
  ASSUME NEW n \in Nat
  PROVE  Cardinality(1..n) = n
<1>1. Cardinality(1..n) = IF 1 > n THEN 0 ELSE n - 1 + 1
  BY FS_Interval
<1> QED
  BY <1>1

\* A list without repetitions is no longer than there are flows.
LEMMA NotLonger ==
  ASSUME Sound, NEW s \in Seq(LinkedFlow), Distinct(s)
  PROVE  Cardinality(LinkedFlow) \in Nat /\ Len(s) <= Cardinality(LinkedFlow)
<1>1. s \in [1..Len(s) -> LinkedFlow] /\ Len(s) \in Nat
  BY LenProperties
<1>2. DOMAIN s = 1..Len(s)
  BY <1>1
<1>3. s \in Injection(1..Len(s), LinkedFlow)
  BY <1>1, <1>2 DEF Injection, IsInjective, Distinct
<1>4. Cardinality(1..Len(s)) <= Cardinality(LinkedFlow)
  BY <1>3, FS_Injection DEF Sound
<1>5. Cardinality(1..Len(s)) = Len(s)
  BY <1>1, CountTo
<1> QED
  BY <1>4, <1>5, FS_CardinalityType DEF Sound

\* The walk along pointers that link a list comes by its flows, in its order.
LEMMA WalkIs ==
  ASSUME Sound, NEW s \in Seq(LinkedFlow), Distinct(s), NEW h, NEW nx,
         h = First(s), \A i \in 1..Len(s) : nx[s[i]] = Succ(s, i)
  PROVE  WalkOf(h, nx) = s
<1> DEFINE N == Cardinality(LinkedFlow)
           step(a, n) == IF n = 1 THEN h
                         ELSE IF a[n - 1] = NoFlow THEN NoFlow ELSE nx[a[n - 1]]
           at == CHOOSE a : a = [n \in 1..N |-> step(a, n)]
           length == Cardinality({n \in DOMAIN at : at[n] # NoFlow})
           g == [n \in 1..N |-> IF n <= Len(s) THEN s[n] ELSE NoFlow]
<1>1. N \in Nat /\ Len(s) \in Nat /\ Len(s) <= N
  BY NotLonger, LenProperties
<1>2. s \in [1..Len(s) -> LinkedFlow] /\ (s = << >> <=> Len(s) = 0)
  BY LenProperties, EmptySeq
<1>3. \A i \in 1..Len(s) : s[i] \in LinkedFlow /\ s[i] # NoFlow
  BY <1>2 DEF Sound
<1>4. WalkOf(h, nx) = [n \in 1..length |-> at[n]]
  BY DEF WalkOf
<1>5. g = [n \in 1..N |-> step(g, n)]
  <2>1. ASSUME NEW n \in 1..N PROVE g[n] = step(g, n)
    <3>1. CASE n = 1
      BY <2>1, <3>1, <1>1, <1>2 DEF First
    <3>2. CASE n # 1 /\ n - 1 <= Len(s)
      <4>1. n - 1 \in 1..N /\ n - 1 \in 1..Len(s)
        BY <2>1, <3>2, <1>1
      <4>2. g[n - 1] = s[n - 1] /\ g[n - 1] # NoFlow
        BY <4>1, <1>3, <3>2
      <4>3. nx[s[n - 1]] = Succ(s, n - 1)
        BY <4>1
      <4>4. Succ(s, n - 1) = IF n <= Len(s) THEN s[n] ELSE NoFlow
        BY <4>1, <1>1, <2>1 DEF Succ
      <4> QED
        BY <2>1, <3>2, <4>2, <4>3, <4>4
    <3>3. CASE n # 1 /\ ~(n - 1 <= Len(s))
      <4>1. n - 1 \in 1..N /\ ~(n <= Len(s))
        BY <2>1, <3>3, <1>1
      <4> QED
        BY <2>1, <3>3, <4>1
    <3> QED
      BY <3>1, <3>2, <3>3
  <2> QED
    BY <2>1
<1>6. at = [n \in 1..N |-> step(at, n)]
  BY <1>5
<1> HIDE DEF at
<1>7. \A n \in 1..N : at[n] = step(at, n) /\ g[n] = step(g, n)
  BY <1>5, <1>6
<1> HIDE DEF g
<1>8. \A n \in 1..N : at[n] = g[n]
  <2> DEFINE T == {n \in 1..N : at[n] # g[n]}
             Less == OpToRel(<, Nat)
  <2>1. SUFFICES ASSUME T # {} PROVE FALSE
    OBVIOUS
  <2>2. IsWellFoundedOn(Less, Nat)
    BY NatLessThanWellFounded
  <2>3. \A x, y \in Nat : y < x => <<y, x>> \in Less
    BY DEF OpToRel
  <2> HIDE DEF Less
  <2>4. T \subseteq Nat
    BY <1>1
  <2>5. PICK n \in T : \A m \in T : ~(<<m, n>> \in Less)
    BY <2>1, <2>2, <2>4, WFMin
  <2>6. n \in 1..N /\ at[n] # g[n] /\ \A m \in T : ~(m < n)
    BY <2>3, <2>4, <2>5
  <2>7. CASE n = 1
    BY <1>7, <2>6, <2>7
  <2>8. CASE n # 1
    <3>1. n - 1 \in 1..N /\ n - 1 < n
      BY <1>1, <2>6, <2>8
    <3>2. at[n - 1] = g[n - 1]
      BY <2>6, <3>1
    <3> QED
      BY <1>7, <2>6, <2>8, <3>2
  <2> QED
    BY <2>7, <2>8
<1>9. \A n \in 1..N : at[n] = IF n <= Len(s) THEN s[n] ELSE NoFlow
  BY <1>8 DEF g
<1>10. DOMAIN at = 1..N
  BY <1>6
<1>11. {n \in DOMAIN at : at[n] # NoFlow} = 1..Len(s)
  BY <1>1, <1>3, <1>9, <1>10
<1>12. length = Len(s)
  <2>1. Cardinality(1..Len(s)) = Len(s)
    BY <1>1, CountTo
  <2> QED
    BY <1>11, <2>1
<1> HIDE DEF length
<1>13. [n \in 1..length |-> at[n]] = [n \in 1..Len(s) |-> s[n]]
  BY <1>1, <1>9, <1>12
<1> QED
  BY <1>2, <1>4, <1>13
-------------------------------------------------------------------------------
\* What a chain is, where it is used.
LEMMA ChainElim ==
  ASSUME NEW s, NEW h, NEW l, NEW c, NEW nx, NEW pv, NEW own, NEW t,
         Chain(s, h, l, c, nx, pv, own, t)
  PROVE  /\ s \in Seq(LinkedFlow) /\ Distinct(s)
         /\ Len(s) \in Nat /\ DOMAIN s = 1..Len(s)
         /\ (s = << >> <=> Len(s) = 0)
         /\ h = First(s)
         /\ (s # << >> => l = s[Len(s)])
         /\ (IF s = << >> THEN c = NoFlow ELSE \E i \in 1..Len(s) : c = s[i])
         /\ \A i \in 1..Len(s) : /\ s[i] \in LinkedFlow
                                 /\ nx[s[i]] = Succ(s, i)
                                 /\ pv[s[i]] = Pred(s, i)
                                 /\ own[s[i]] = t
<1>1. s \in Seq(LinkedFlow)
  BY DEF Chain
<1>2. /\ Len(s) \in Nat /\ DOMAIN s = 1..Len(s) /\ s \in [1..Len(s) -> LinkedFlow]
      /\ (s = << >> <=> Len(s) = 0)
  BY <1>1, LenProperties, EmptySeq
<1>3. \A i \in 1..Len(s) : s[i] \in LinkedFlow
  BY <1>2
<1> QED
  BY <1>1, <1>2, <1>3 DEF Chain

\* A chain does not see what becomes of the pointers of other flows.
LEMMA ChainFrame ==
  ASSUME NEW s, NEW h, NEW l, NEW c, NEW nx, NEW pv, NEW own, NEW t,
         Chain(s, h, l, c, nx, pv, own, t),
         NEW nx2, NEW pv2, NEW own2,
         \A i \in 1..Len(s) : /\ nx2[s[i]] = nx[s[i]]
                              /\ pv2[s[i]] = pv[s[i]]
                              /\ own2[s[i]] = own[s[i]]
  PROVE  Chain(s, h, l, c, nx2, pv2, own2, t)
BY DEF Chain

\* AppendFlow on an empty list.
LEMMA FirstChain ==
  ASSUME NEW f \in LinkedFlow, NEW l, NEW nx, NEW pv, NEW own, NEW t,
         nx[f] = NoFlow, pv[f] = NoFlow, own[f] = t
  PROVE  Chain(Append(<< >>, f), f, f, f, nx, pv, own, t)
<1> DEFINE s == Append(<< >>, f)
<1>1. s = <<f>> /\ s \in Seq(LinkedFlow) /\ Len(s) = 1 /\ s[1] = f /\ s # << >> /\ DOMAIN s = 1..1
  OBVIOUS
<1> HIDE DEF s
<1>2. \A i \in 1..Len(s) : i = 1
  BY <1>1
<1>3. \A i \in DOMAIN s : i = 1
  BY <1>1
<1>4. Succ(s, 1) = NoFlow /\ Pred(s, 1) = NoFlow /\ First(s) = f /\ Distinct(s)
  BY <1>1, <1>3 DEF Succ, Pred, First, Distinct
<1>5. 1 \in 1..Len(s)
  BY <1>1
<1> QED
  BY <1>1, <1>2, <1>4, <1>5 DEF Chain

\* AppendFlow behind the tail.
LEMMA LongerChain ==
  ASSUME Sound,
         NEW s, NEW h, NEW l, NEW c, NEW nx \in [LinkedFlow -> Lists!Pointer],
         NEW pv \in [LinkedFlow -> Lists!Pointer], NEW own, NEW t,
         Chain(s, h, l, c, nx, pv, own, t), s # << >>,
         NEW f \in LinkedFlow, own[f] = t, \A i \in 1..Len(s) : s[i] # f,
         NEW nx2, nx2 = [nx EXCEPT ![l] = f, ![f] = NoFlow],
         NEW pv2, pv2 = [pv EXCEPT ![f] = l]
  PROVE  Chain(Append(s, f), h, f, c, nx2, pv2, own, t)
<1> DEFINE w == Append(s, f)
           n == Len(s)
<1>1. /\ s \in Seq(LinkedFlow) /\ Distinct(s) /\ n \in Nat /\ n # 0 /\ DOMAIN s = 1..n
      /\ h = First(s) /\ l = s[n] /\ \E i \in 1..n : c = s[i]
  BY ChainElim
<1>2. \A i \in 1..n : /\ s[i] \in LinkedFlow /\ nx[s[i]] = Succ(s, i)
                      /\ pv[s[i]] = Pred(s, i) /\ own[s[i]] = t /\ s[i] # f
  BY ChainElim
<1>3. /\ w \in Seq(LinkedFlow) /\ Len(w) = n + 1 /\ w # << >> /\ DOMAIN w = 1..(n + 1)
      /\ w[n + 1] = f /\ \A i \in 1..n : w[i] = s[i]
  BY <1>1, LenProperties
<1> HIDE DEF w
<1>4. Distinct(w)
  BY <1>1, <1>3 DEF Distinct
<1>5. n \in 1..n /\ 1 \in 1..n /\ n + 1 \in 1..Len(w) /\ l \in LinkedFlow
  BY <1>1, <1>2, <1>3
<1>6. h = First(w)
  BY <1>1, <1>3, <1>5 DEF First
<1>7. \E i \in 1..Len(w) : c = w[i]
  BY <1>1, <1>3
<1>8. \A g \in LinkedFlow : /\ nx2[g] = IF g = f THEN NoFlow ELSE IF g = l THEN f ELSE nx[g]
                      /\ pv2[g] = IF g = f THEN l ELSE pv[g]
  OBVIOUS
<1>9. ASSUME NEW i \in 1..Len(w)
      PROVE  nx2[w[i]] = Succ(w, i) /\ pv2[w[i]] = Pred(w, i) /\ own[w[i]] = t
  <2> HIDE DEF n
  <2>0. i \in 1..(n + 1) /\ n \in Nat
    BY <1>1, <1>3
  <2>1. CASE i = n + 1
    <3>1. nx2[f] = NoFlow /\ pv2[f] = l
      BY <1>8
    <3>2. Succ(w, i) = NoFlow /\ Pred(w, i) = w[n]
      BY <1>1, <1>3, <2>1 DEF Succ, Pred
    <3>3. w[n] = l
      BY <1>1, <1>3, <1>5
    <3> QED
      BY <1>3, <2>1, <3>1, <3>2, <3>3
  <2>2. CASE i = n
    <3>1. w[i] = l /\ l # f /\ own[l] = t /\ pv[l] = Pred(s, n)
      BY <1>1, <1>2, <1>3, <1>5, <2>2
    <3>2. Succ(w, i) = f
      BY <1>1, <1>3, <2>2 DEF Succ
    <3>3. Pred(w, i) = Pred(s, n)
      BY <1>1, <1>3, <2>2 DEF Pred
    <3> QED
      BY <1>5, <1>8, <3>1, <3>2, <3>3
  <2>3. CASE i < n
    <3>1. i \in 1..n /\ i + 1 \in 1..n /\ i # n
      BY <2>0, <2>3
    <3>2. w[i] = s[i] /\ s[i] \in LinkedFlow /\ s[i] # f /\ s[i] # l
      BY <1>1, <1>2, <1>3, <1>5, <3>1 DEF Distinct
    <3>3. Succ(w, i) = Succ(s, i) /\ Pred(w, i) = Pred(s, i)
      BY <1>1, <1>3, <3>1 DEF Succ, Pred
    <3> QED
      BY <1>2, <1>8, <3>1, <3>2, <3>3
  <2> QED
    BY <2>0, <2>1, <2>2, <2>3
<1>10. f = w[Len(w)]
  BY <1>3
<1> HIDE DEF n
<1> QED
  BY <1>3, <1>4, <1>6, <1>7, <1>9, <1>10 DEF Chain, w

\* Unlink takes a flow out of the middle, or off an end, of a chain.
Shortens(s, h, l, c, nx, pv, own, t, k, h2, l2, c2, nx2, pv2) ==
  /\ nx \in [LinkedFlow -> Lists!Pointer] /\ pv \in [LinkedFlow -> Lists!Pointer]
  /\ Chain(s, h, l, c, nx, pv, own, t) /\ k \in 1..Len(s)
  /\ nx2 = [g \in LinkedFlow |-> IF g = s[k] THEN NoFlow
                            ELSE IF g = Pred(s, k) THEN Succ(s, k) ELSE nx[g]]
  /\ pv2 = [g \in LinkedFlow |-> IF g = s[k] THEN NoFlow
                            ELSE IF g = Succ(s, k) THEN Pred(s, k) ELSE pv[g]]
  /\ h2 = (IF Pred(s, k) = NoFlow THEN Succ(s, k) ELSE h)
  /\ Len(s) > 1 => l2 = (IF Succ(s, k) = NoFlow THEN Pred(s, k) ELSE l)
  /\ IF Len(s) = 1 THEN c2 = NoFlow ELSE \E i \in 1..Len(s) : i # k /\ c2 = s[i]

\* What it leaves is linked, without the flow that was at k.
Shortened(s, own, t, k, h2, l2, c2, nx2, pv2) ==
  LET w == Lists!Abstract!Without(s, k)
  IN /\ Chain(w, h2, l2, c2, nx2, pv2, own, t)
     /\ \A i \in 1..(Len(s) - 1) : w[i] # s[k]
     /\ \A i \in 1..Len(s) : i # k => \E j \in 1..(Len(s) - 1) : w[j] = s[i]
     /\ Len(w) = Len(s) - 1

LEMMA ShorterChain ==
  ASSUME Sound, NEW s, NEW h, NEW l, NEW c, NEW nx, NEW pv, NEW own, NEW t, NEW k,
         NEW h2, NEW l2, NEW c2, NEW nx2, NEW pv2,
         Shortens(s, h, l, c, nx, pv, own, t, k, h2, l2, c2, nx2, pv2)
  PROVE  Shortened(s, own, t, k, h2, l2, c2, nx2, pv2)
<1> DEFINE w == Lists!Abstract!Without(s, k)
           n == Len(s)
           p == Pred(s, k)
           q == Succ(s, k)
           f == s[k]
<1>0. /\ nx \in [LinkedFlow -> Lists!Pointer] /\ pv \in [LinkedFlow -> Lists!Pointer]
      /\ Chain(s, h, l, c, nx, pv, own, t) /\ k \in 1..n
      /\ nx2 = [g \in LinkedFlow |-> IF g = f THEN NoFlow ELSE IF g = p THEN q ELSE nx[g]]
      /\ pv2 = [g \in LinkedFlow |-> IF g = f THEN NoFlow ELSE IF g = q THEN p ELSE pv[g]]
      /\ h2 = (IF p = NoFlow THEN q ELSE h)
      /\ n > 1 => l2 = (IF q = NoFlow THEN p ELSE l)
      /\ IF n = 1 THEN c2 = NoFlow ELSE \E i \in 1..n : i # k /\ c2 = s[i]
  BY DEF Shortens
<1>1. /\ s \in Seq(LinkedFlow) /\ Distinct(s) /\ n \in Nat /\ DOMAIN s = 1..n
      /\ h = First(s) /\ l = s[n] /\ k \in 1..n /\ n - 1 \in Nat
  BY <1>0, ChainElim
<1>2. \A i \in 1..n : /\ s[i] \in LinkedFlow /\ nx[s[i]] = Succ(s, i)
                      /\ pv[s[i]] = Pred(s, i) /\ own[s[i]] = t /\ s[i] # NoFlow
  BY <1>0, ChainElim DEF Sound
<1>3. /\ w \in Seq(LinkedFlow) /\ Len(w) = n - 1 /\ DOMAIN w = 1..(n - 1)
      /\ \A i \in 1..(n - 1) : w[i] = IF i < k THEN s[i] ELSE s[i + 1]
  <2> DEFINE e(i) == IF i < k THEN s[i] ELSE s[i + 1]
  <2>1. \A i \in 1..(n - 1) : e(i) \in LinkedFlow
    BY <1>1, <1>2
  <2>2. w = [i \in 1..(n - 1) |-> e(i)]
    BY DEF Lists!Abstract!Without
  <2>3. w \in [1..(n - 1) -> LinkedFlow]
    BY <2>1, <2>2
  <2>4. w \in Seq(LinkedFlow)
    BY <1>1, <2>3, SeqDef
  <2> QED
    BY <1>1, <2>2, <2>3, <2>4, LenProperties
<1> HIDE DEF w, n
<1>4. \A i, j \in 1..n : s[i] = s[j] => i = j
  BY <1>1 DEF Distinct
<1>5. Distinct(w)
  <2>1. SUFFICES ASSUME NEW i \in 1..(n - 1), NEW j \in 1..(n - 1), w[i] = w[j]
                 PROVE  i = j
    BY <1>3 DEF Distinct
  <2> DEFINE x == IF i < k THEN i ELSE i + 1
             y == IF j < k THEN j ELSE j + 1
  <2>2. x \in 1..n /\ y \in 1..n /\ w[i] = s[x] /\ w[j] = s[y]
    BY <1>1, <1>3
  <2>3. x = y
    BY <1>4, <2>1, <2>2
  <2> QED
    BY <1>1, <2>3
<1>6. ASSUME NEW i \in 1..(n - 1) PROVE w[i] # f
  <2> DEFINE x == IF i < k THEN i ELSE i + 1
  <2>1. x \in 1..n /\ x # k /\ w[i] = s[x]
    BY <1>1, <1>3
  <2> QED
    BY <1>1, <1>4, <2>1
<1>7. ASSUME NEW i \in 1..n, i # k PROVE \E j \in 1..(n - 1) : w[j] = s[i]
  <2>1. CASE i < k
    <3>1. i \in 1..(n - 1) /\ w[i] = s[i]
      BY <1>1, <1>3, <2>1
    <3> QED
      BY <3>1
  <2>2. CASE i > k
    <3>1. i - 1 \in 1..(n - 1) /\ ~(i - 1 < k) /\ (i - 1) + 1 = i
      BY <1>1, <1>3, <2>2
    <3>2. w[i - 1] = s[i]
      BY <1>3, <3>1
    <3> QED
      BY <3>1, <3>2
  <2> QED
    BY <1>1, <1>7, <2>1, <2>2
<1>8. /\ p = IF k > 1 THEN s[k - 1] ELSE NoFlow
      /\ q = IF k < n THEN s[k + 1] ELSE NoFlow
  BY DEF n, Pred, Succ
<1>9. /\ (k > 1 => k - 1 \in 1..n /\ p # NoFlow /\ p = s[k - 1])
      /\ (k < n => k + 1 \in 1..n /\ q # NoFlow /\ q = s[k + 1])
      /\ (~(k > 1) => p = NoFlow) /\ (~(k < n) => q = NoFlow)
  BY <1>1, <1>2, <1>8
<1> HIDE DEF p, q
<1>10. h2 = First(w)
  <2>1. s # << >>
    BY <1>1, EmptySeq DEF n
  <2>2. h = s[1] /\ (w = << >> <=> n = 1)
    BY <1>1, <1>3, <2>1, EmptySeq DEF First
  <2>3. CASE k > 1
    <3>1. n # 1 /\ 1 \in 1..(n - 1)
      BY <1>1, <2>3
    <3>2. w[1] = s[1]
      BY <1>3, <2>3, <3>1
    <3> QED
      BY <1>0, <1>9, <2>2, <2>3, <3>1, <3>2 DEF First
  <2>4. CASE ~(k > 1)
    <3>1. k = 1 /\ h2 = q
      BY <1>0, <1>1, <1>9, <2>4
    <3>2. CASE n = 1
      BY <1>9, <2>2, <3>1, <3>2 DEF First
    <3>3. CASE n # 1
      <4>1. 1 \in 1..(n - 1) /\ k < n
        BY <1>1, <3>1, <3>3
      <4>2. w[1] = s[2]
        BY <1>3, <3>1, <4>1
      <4> QED
        BY <1>9, <2>2, <3>1, <3>3, <4>1, <4>2 DEF First
    <3> QED
      BY <3>2, <3>3
  <2> QED
    BY <2>3, <2>4
<1>11. w # << >> => l2 = w[Len(w)]
  <2>1. SUFFICES ASSUME w # << >> PROVE l2 = w[n - 1]
    BY <1>3
  <2>2. n # 1 /\ n > 1 /\ n - 1 \in 1..(n - 1)
    BY <1>1, <1>3, <2>1, EmptySeq
  <2>3. l2 = IF q = NoFlow THEN p ELSE l
    BY <1>0, <2>2
  <2>4. CASE k < n
    <3>1. l2 = s[n]
      BY <1>1, <1>9, <2>3, <2>4
    <3>2. ~(n - 1 < k) /\ (n - 1) + 1 = n
      BY <1>1, <2>4
    <3> QED
      BY <1>3, <2>2, <3>1, <3>2
  <2>5. CASE ~(k < n)
    <3>1. k = n /\ k > 1 /\ n - 1 < k
      BY <1>1, <2>2, <2>5
    <3>2. l2 = s[n - 1]
      BY <1>9, <2>3, <2>5, <3>1
    <3> QED
      BY <1>3, <2>2, <3>1, <3>2
  <2> QED
    BY <2>4, <2>5
<1>12. IF w = << >> THEN c2 = NoFlow ELSE \E i \in 1..Len(w) : c2 = w[i]
  <2>1. w = << >> <=> n = 1
    BY <1>1, <1>3, EmptySeq
  <2>2. IF n = 1 THEN c2 = NoFlow ELSE \E i \in 1..n : i # k /\ c2 = s[i]
    BY <1>0
  <2> QED
    BY <1>3, <1>7, <2>1, <2>2
<1>13. \A g \in LinkedFlow : /\ nx2[g] = IF g = f THEN NoFlow ELSE IF g = p THEN q ELSE nx[g]
                       /\ pv2[g] = IF g = f THEN NoFlow ELSE IF g = q THEN p ELSE pv[g]
  BY <1>0
<1>14. ASSUME NEW i \in 1..(n - 1)
       PROVE  nx2[w[i]] = Succ(w, i) /\ pv2[w[i]] = Pred(w, i) /\ own[w[i]] = t
  <2> DEFINE j == IF i < k THEN i ELSE i + 1
  <2>1. j \in 1..n /\ j # k /\ w[i] = s[j]
    BY <1>1, <1>3
  <2>2. /\ w[i] \in LinkedFlow /\ w[i] # f /\ own[w[i]] = t
        /\ nx[w[i]] = Succ(s, j) /\ pv[w[i]] = Pred(s, j)
    BY <1>2, <1>4, <1>1, <2>1
  <2>3. nx2[w[i]] = Succ(w, i)
    <3>1. CASE i + 1 = k
      <4>1. w[i] = p /\ nx2[w[i]] = q
        BY <1>1, <1>3, <1>9, <1>13, <2>2, <3>1
      <4>2. Succ(w, i) = IF k < n THEN s[k + 1] ELSE NoFlow
        BY <1>1, <1>3, <3>1 DEF Succ
      <4> QED
        BY <1>8, <4>1, <4>2
    <3>2. CASE i + 1 # k
      <4>1. w[i] # p
        <5>1. CASE k > 1
          <6>1. p = s[k - 1] /\ k - 1 \in 1..n /\ j # k - 1
            BY <1>1, <1>9, <3>2, <5>1
          <6> QED
            BY <1>4, <2>1, <6>1
        <5>2. CASE ~(k > 1)
          BY <1>9, <1>2, <2>1, <5>2
        <5> QED
          BY <5>1, <5>2
      <4>2. nx2[w[i]] = Succ(s, j)
        BY <1>13, <2>2, <4>1
      <4>3. Succ(w, i) = IF i < n - 1 THEN w[i + 1] ELSE NoFlow
        BY <1>3 DEF Succ
      <4>4. Succ(s, j) = IF j < n THEN s[j + 1] ELSE NoFlow
        BY DEF Succ, n
      <4> HIDE DEF j
      <4>5. CASE i < k
        <5>1. j = i /\ i + 1 < k /\ i < n - 1 /\ i < n /\ i + 1 \in 1..(n - 1)
          BY <1>1, <3>2, <4>5 DEF j
        <5> QED
          BY <1>3, <4>2, <4>3, <4>4, <5>1
      <4>6. CASE ~(i < k)
        <5>1. j = i + 1 /\ ~(i + 1 < k) /\ (j < n <=> i < n - 1)
              /\ (i < n - 1 => i + 1 \in 1..(n - 1))
          BY <1>1, <4>6 DEF j
        <5> QED
          BY <1>3, <4>2, <4>3, <4>4, <5>1
      <4> QED
        BY <4>5, <4>6
    <3> QED
      BY <3>1, <3>2
  <2>4. pv2[w[i]] = Pred(w, i)
    <3>1. CASE i = k
      <4>1. k < n /\ j = k + 1
        BY <1>1, <3>1
      <4>2. w[i] = q /\ pv2[w[i]] = p
        BY <1>9, <1>13, <2>1, <2>2, <4>1
      <4>3. Pred(w, i) = IF k > 1 THEN s[k - 1] ELSE NoFlow
        BY <1>1, <1>3, <3>1 DEF Pred
      <4> QED
        BY <1>8, <4>2, <4>3
    <3>2. CASE i # k
      <4>1. w[i] # q
        <5>1. CASE k < n
          <6>1. q = s[k + 1] /\ k + 1 \in 1..n /\ j # k + 1
            BY <1>1, <1>9, <3>2, <5>1
          <6> QED
            BY <1>4, <2>1, <6>1
        <5>2. CASE ~(k < n)
          BY <1>9, <1>2, <2>1, <5>2
        <5> QED
          BY <5>1, <5>2
      <4>2. pv2[w[i]] = Pred(s, j)
        BY <1>13, <2>2, <4>1
      <4>3. Pred(w, i) = IF i > 1 THEN w[i - 1] ELSE NoFlow
        BY DEF Pred
      <4>4. Pred(s, j) = IF j > 1 THEN s[j - 1] ELSE NoFlow
        BY DEF Pred
      <4> HIDE DEF j
      <4>5. CASE i < k
        <5>1. j = i /\ (i > 1 => i - 1 \in 1..(n - 1) /\ i - 1 < k)
          BY <1>1, <4>5 DEF j
        <5> QED
          BY <1>3, <4>2, <4>3, <4>4, <5>1
      <4>6. CASE ~(i < k)
        <5>1. /\ j = i + 1 /\ j > 1 /\ i > 1 /\ i - 1 \in 1..(n - 1)
              /\ ~(i - 1 < k) /\ (i - 1) + 1 = i /\ j - 1 = i
          BY <1>1, <3>2, <4>6 DEF j
        <5> QED
          BY <1>3, <4>2, <4>3, <4>4, <5>1
      <4> QED
        BY <4>5, <4>6
    <3> QED
      BY <3>1, <3>2
  <2> QED
    BY <2>2, <2>3, <2>4
<1>15. Chain(w, h2, l2, c2, nx2, pv2, own, t)
  BY <1>3, <1>5, <1>10, <1>11, <1>12, <1>14 DEF Chain
<1> QED
  BY <1>3, <1>6, <1>7, <1>15 DEF w, n, Shortened

-------------------------------------------------------------------------------
\* The lists with their cursors, as PendingQueues has them.
Rounds(q, cu) == [t \in Transport |-> [list |-> q[t], cur |-> cu[t]]]

\* The flow f is in the list s.
Within(s, f) == \E i \in 1..Len(s) : s[i] = f

\* Every list is a chain of flows that send on its transport.
LEMMA LinkedElim ==
  ASSUME Sound, NEW q, NEW hd, NEW tl, NEW cu, NEW nx, NEW pv, NEW own,
         Linked(q, hd, tl, cu, nx, pv, own), NEW t \in Transport
  PROVE  /\ Chain(q[t], hd[t], tl[t], cu[t], nx, pv, own, t)
         /\ \A i \in 1..Len(q[t]) : own[q[t][i]] = t
         /\ q[t] \in Seq(LinkedFlow)
BY DEF Linked, Chain

\* A flow waits in one list at most.
LEMMA InOneList ==
  ASSUME Sound, NEW q, NEW hd, NEW tl, NEW cu, NEW nx, NEW pv, NEW own,
         Linked(q, hd, tl, cu, nx, pv, own), NEW t \in Transport,
         NEW f, Within(q[t], f)
  PROVE  /\ f \in LinkedFlow /\ own[f] = t
         /\ \A u \in Transport \ {t} : ~Within(q[u], f)
BY LinkedElim, ChainElim DEF Within

\* The flows that wait in other lists keep their pointers.
OthersKept(q, t, nx, pv, nx2, pv2) ==
  \A u \in Transport \ {t} : \A g \in LinkedFlow :
    Within(q[u], g) => nx2[g] = nx[g] /\ pv2[g] = pv[g]

\* Every flow with a pointer waits somewhere, once the list of t is s2.
AllListed(q, t, s2, nx2, pv2) ==
  \A g \in LinkedFlow : \/ nx2[g] = NoFlow /\ pv2[g] = NoFlow
                  \/ Within(s2, g)
                  \/ \E u \in Transport \ {t} : Within(q[u], g)

\* What is linked after a step that changes one list and the pointers of flows
\* that are in no other one.
Relinks(q, hd, tl, cu, nx, pv, own, t, s2, h2, l2, c2, nx2, pv2) ==
  /\ Linked(q, hd, tl, cu, nx, pv, own) /\ t \in Transport
  /\ Chain(s2, h2, l2, c2, nx2, pv2, own, t)
  /\ h2 \in Lists!Pointer /\ l2 \in Lists!Pointer /\ c2 \in Lists!Pointer
  /\ nx2 \in [LinkedFlow -> Lists!Pointer] /\ pv2 \in [LinkedFlow -> Lists!Pointer]
  /\ OthersKept(q, t, nx, pv, nx2, pv2)
  /\ AllListed(q, t, s2, nx2, pv2)

\* Then the lists are held again, and only the round robin of t is another one.
Relinked(q, hd, tl, cu, own, t, s2, h2, l2, c2, nx2, pv2) ==
  /\ Linked([q EXCEPT ![t] = s2], [hd EXCEPT ![t] = h2], [tl EXCEPT ![t] = l2],
            [cu EXCEPT ![t] = c2], nx2, pv2, own)
  /\ Rounds([q EXCEPT ![t] = s2], [cu EXCEPT ![t] = c2]) =
       [Rounds(q, cu) EXCEPT ![t] = [list |-> s2, cur |-> c2]]

\* The lists of the other transports are not touched.
LEMMA OneList ==
  ASSUME Sound, NEW q, NEW hd, NEW tl, NEW cu, NEW nx, NEW pv, NEW own, NEW t,
         NEW s2, NEW h2, NEW l2, NEW c2, NEW nx2, NEW pv2,
         Relinks(q, hd, tl, cu, nx, pv, own, t, s2, h2, l2, c2, nx2, pv2)
  PROVE  Relinked(q, hd, tl, cu, own, t, s2, h2, l2, c2, nx2, pv2)
<1>0. /\ Linked(q, hd, tl, cu, nx, pv, own) /\ t \in Transport
      /\ Chain(s2, h2, l2, c2, nx2, pv2, own, t)
      /\ h2 \in Lists!Pointer /\ l2 \in Lists!Pointer /\ c2 \in Lists!Pointer
      /\ nx2 \in [LinkedFlow -> Lists!Pointer] /\ pv2 \in [LinkedFlow -> Lists!Pointer]
      /\ OthersKept(q, t, nx, pv, nx2, pv2)
      /\ AllListed(q, t, s2, nx2, pv2)
  BY DEF Relinks
<1> DEFINE q2 == [q EXCEPT ![t] = s2]
           hd2 == [hd EXCEPT ![t] = h2]
           tl2 == [tl EXCEPT ![t] = l2]
           cu2 == [cu EXCEPT ![t] = c2]
<1>1. /\ q \in [Transport -> Seq(LinkedFlow)] /\ hd \in [Transport -> Lists!Pointer]
      /\ tl \in [Transport -> Lists!Pointer] /\ cu \in [Transport -> Lists!Pointer]
      /\ own \in [LinkedFlow -> Transport \cup {NoTransport}]
  BY <1>0 DEF Linked
<1>2. s2 \in Seq(LinkedFlow)
  BY <1>0 DEF Chain
<1>3. /\ q2 \in [Transport -> Seq(LinkedFlow)] /\ hd2 \in [Transport -> Lists!Pointer]
      /\ tl2 \in [Transport -> Lists!Pointer] /\ cu2 \in [Transport -> Lists!Pointer]
  BY <1>0, <1>1, <1>2
<1>4. /\ q2[t] = s2 /\ hd2[t] = h2 /\ tl2[t] = l2 /\ cu2[t] = c2
      /\ \A u \in Transport \ {t} :
           q2[u] = q[u] /\ hd2[u] = hd[u] /\ tl2[u] = tl[u] /\ cu2[u] = cu[u]
  BY <1>0, <1>1
<1>5. Rounds(q2, cu2) = [Rounds(q, cu) EXCEPT ![t] = [list |-> s2, cur |-> c2]]
  BY <1>0, <1>1 DEF Rounds
<1> HIDE DEF q2, hd2, tl2, cu2
<1>6. ASSUME NEW u \in Transport
      PROVE  Chain(q2[u], hd2[u], tl2[u], cu2[u], nx2, pv2, own, u)
  <2>1. CASE u = t
    BY <1>0, <1>4, <2>1
  <2>2. CASE u # t
    <3>1. Chain(q[u], hd[u], tl[u], cu[u], nx, pv, own, u)
      BY <1>0, <2>2, LinkedElim
    <3>2. \A i \in 1..Len(q[u]) : q[u][i] \in LinkedFlow /\ Within(q[u], q[u][i])
      BY <3>1, ChainElim DEF Within
    <3>3. \A i \in 1..Len(q[u]) : /\ nx2[q[u][i]] = nx[q[u][i]]
                                  /\ pv2[q[u][i]] = pv[q[u][i]]
      BY <1>0, <2>2, <3>2 DEF OthersKept
    <3>4. Chain(q[u], hd[u], tl[u], cu[u], nx2, pv2, own, u)
      BY <3>1, <3>3, ChainFrame
    <3> QED
      BY <1>4, <2>2, <3>4
  <2> QED
    BY <2>1, <2>2
<1>7. \A g \in LinkedFlow : \/ nx2[g] = NoFlow /\ pv2[g] = NoFlow
                      \/ \E u \in Transport : \E i \in 1..Len(q2[u]) : q2[u][i] = g
  BY <1>0, <1>4 DEF Within, AllListed
<1>8. Linked(q2, hd2, tl2, cu2, nx2, pv2, own)
  BY <1>0, <1>1, <1>3, <1>6, <1>7 DEF Linked
<1> QED
  BY <1>5, <1>8 DEF q2, hd2, tl2, cu2, Relinked

\* The transport of a flow that waits nowhere may change.
LEMMA OtherTransport ==
  ASSUME Sound, NEW q, NEW hd, NEW tl, NEW cu, NEW nx, NEW pv, NEW own,
         Linked(q, hd, tl, cu, nx, pv, own),
         NEW f \in LinkedFlow, \A u \in Transport : ~Within(q[u], f),
         NEW t \in Transport \cup {NoTransport}
  PROVE  Linked(q, hd, tl, cu, nx, pv, [own EXCEPT ![f] = t])
<1> DEFINE own2 == [own EXCEPT ![f] = t]
<1>1. own \in [LinkedFlow -> Transport \cup {NoTransport}]
  BY DEF Linked
<1>2. /\ own2 \in [LinkedFlow -> Transport \cup {NoTransport}]
      /\ \A g \in LinkedFlow : g # f => own2[g] = own[g]
  BY <1>1
<1> HIDE DEF own2
<1>3. ASSUME NEW u \in Transport
      PROVE  Chain(q[u], hd[u], tl[u], cu[u], nx, pv, own2, u)
  <2>1. Chain(q[u], hd[u], tl[u], cu[u], nx, pv, own, u)
    BY LinkedElim
  <2>2. \A i \in 1..Len(q[u]) : q[u][i] \in LinkedFlow /\ q[u][i] # f
    BY <2>1, ChainElim DEF Within
  <2>3. \A i \in 1..Len(q[u]) : own2[q[u][i]] = own[q[u][i]]
    BY <1>2, <2>2
  <2> QED
    BY <2>1, <2>3, ChainFrame
<1> QED
  BY <1>2, <1>3 DEF Linked, own2

\* The walk of a list that is linked is the list.
LEMMA WalkOfList ==
  ASSUME Sound, NEW q, NEW hd, NEW tl, NEW cu, NEW nx, NEW pv, NEW own,
         Linked(q, hd, tl, cu, nx, pv, own), NEW t \in Transport
  PROVE  WalkOf(hd[t], nx) = q[t]
<1>1. Chain(q[t], hd[t], tl[t], cu[t], nx, pv, own, t)
  BY LinkedElim
<1>2. /\ q[t] \in Seq(LinkedFlow) /\ Distinct(q[t]) /\ hd[t] = First(q[t])
      /\ \A i \in 1..Len(q[t]) : nx[q[t][i]] = Succ(q[t], i)
  BY <1>1, ChainElim
<1> QED
  BY <1>2, WalkIs
\* The lists as they are, and as a step leaves them.
Holds(q) == Linked(q, head, tail, current, nextOf, prevOf, on)

\* The walk comes by the flows of the list.
LEMMA WalkHolds ==
  ASSUME Sound, NEW q, Holds(q), NEW t \in Transport
  PROVE  /\ Lists!Walk(t) = q[t]
         /\ \A f : f \in Lists!Listed(t) <=> Within(q[t], f)
<1>1. WalkOf(head[t], nextOf) = q[t]
  BY WalkOfList DEF Holds
<1>2. Lists!Walk(t) = q[t]
  BY <1>1 DEF Lists!Walk, WalkOf, Lists!Cardinality, Cardinality
<1>3. DOMAIN q[t] = 1..Len(q[t])
  BY LinkedElim, LenProperties DEF Holds
<1> QED
  BY <1>2, <1>3 DEF Lists!Listed, Within

\* A list that has no head is empty.
LEMMA HeadOfList ==
  ASSUME Sound, NEW q, Holds(q), NEW t \in Transport
  PROVE  /\ head[t] = NoFlow <=> q[t] = << >>
         /\ current[t] = NoFlow <=> q[t] = << >>
         /\ q[t] # << >> => Within(q[t], tail[t]) /\ Within(q[t], current[t])
<1>1. Chain(q[t], head[t], tail[t], current[t], nextOf, prevOf, on, t)
  BY LinkedElim DEF Holds
<1>2. /\ Len(q[t]) \in Nat /\ (q[t] = << >> <=> Len(q[t]) = 0)
      /\ head[t] = First(q[t]) /\ (q[t] # << >> => tail[t] = q[t][Len(q[t])])
      /\ (IF q[t] = << >> THEN current[t] = NoFlow
          ELSE \E i \in 1..Len(q[t]) : current[t] = q[t][i])
      /\ \A i \in 1..Len(q[t]) : q[t][i] \in LinkedFlow
  BY <1>1, ChainElim
<1>3. q[t] # << >> => 1 \in 1..Len(q[t]) /\ Len(q[t]) \in 1..Len(q[t])
  BY <1>2
<1> QED
  BY <1>2, <1>3 DEF Within, First, Sound

-------------------------------------------------------------------------------
\* AppendFlow on the pointers is AppendFlow on the round robin.
LEMMA Appends ==
  ASSUME Sound, NEW q, Holds(q), NEW f \in LinkedFlow, NEW t \in Transport, on[f] = t,
         Lists!AppendFlow(t, f)
  PROVE  \E r : /\ Linked(r, head', tail', current', nextOf', prevOf', on)
                /\ Rounds(r, current') =
                     [Rounds(q, current) EXCEPT ![t] = Lists!Abstract!AppendFlow(@, f)]
<1> DEFINE s == q[t]
           a == [list |-> s, cur |-> current[t]]
<1>1. /\ Linked(q, head, tail, current, nextOf, prevOf, on)
      /\ Chain(s, head[t], tail[t], current[t], nextOf, prevOf, on, t)
  BY LinkedElim DEF Holds
<1>2. /\ s \in Seq(LinkedFlow) /\ Len(s) \in Nat /\ DOMAIN s = 1..Len(s)
      /\ (s = << >> <=> Len(s) = 0)
      /\ \A i \in 1..Len(s) : s[i] \in LinkedFlow /\ nextOf[s[i]] = Succ(s, i)
  BY <1>1, ChainElim
<1>3. /\ head \in [Transport -> Lists!Pointer] /\ tail \in [Transport -> Lists!Pointer]
      /\ current \in [Transport -> Lists!Pointer]
      /\ nextOf \in [LinkedFlow -> Lists!Pointer] /\ prevOf \in [LinkedFlow -> Lists!Pointer]
  BY <1>1 DEF Linked
<1>4. \A u \in Transport \ {t} : ~Within(q[u], f)
  BY <1>1, InOneList
<1>5. f \in Lists!Pointer /\ NoFlow \in Lists!Pointer /\ NoFlow \notin LinkedFlow
  BY DEF Lists!Pointer, Sound
<1>6. Rounds(q, current)[t] = a
  BY DEF Rounds
<1>7. \A u \in Transport \ {t} : \A g \in LinkedFlow : Within(q[u], g) => on[g] = u
  BY <1>1, InOneList
<1>8. CASE head[t] = NoFlow
  <2>1. s = << >>
    BY <1>8, HeadOfList
  <2>2. ~Within(s, f)
    BY <1>2, <2>1 DEF Within
  <2>3. nextOf[f] = NoFlow /\ prevOf[f] = NoFlow
    BY <1>1, <1>4, <2>2 DEF Linked, Within
  <2>4. /\ head' = [head EXCEPT ![t] = f] /\ tail' = [tail EXCEPT ![t] = f]
        /\ current' = [current EXCEPT ![t] = f]
        /\ nextOf' = [nextOf EXCEPT ![f] = NoFlow] /\ prevOf' = prevOf
    BY <1>8 DEF Lists!AppendFlow
  <2>5. nextOf' = nextOf
    BY <1>3, <2>3, <2>4
  <2> DEFINE w == Append(<< >>, f)
  <2>6. Chain(w, f, f, f, nextOf, prevOf, on, t)
    BY <2>3, FirstChain
  <2>7. Within(w, f)
    BY DEF Within
  <2> HIDE DEF w
  <2>8. AllListed(q, t, w, nextOf, prevOf) /\ OthersKept(q, t, nextOf, prevOf, nextOf, prevOf)
    <3>1. \A g : ~Within(s, g)
      BY <1>2, <2>1 DEF Within
    <3> QED
      BY <1>1, <3>1 DEF Linked, Within, AllListed, OthersKept
  <2>9. /\ Linked([q EXCEPT ![t] = w], head', tail', current', nextOf', prevOf', on)
        /\ Rounds([q EXCEPT ![t] = w], current') =
             [Rounds(q, current) EXCEPT ![t] = [list |-> w, cur |-> f]]
    <3>1. /\ Linked([q EXCEPT ![t] = w], [head EXCEPT ![t] = f], [tail EXCEPT ![t] = f],
                    [current EXCEPT ![t] = f], nextOf, prevOf, on)
          /\ Rounds([q EXCEPT ![t] = w], [current EXCEPT ![t] = f]) =
               [Rounds(q, current) EXCEPT ![t] = [list |-> w, cur |-> f]]
      <4>1. Relinks(q, head, tail, current, nextOf, prevOf, on, t, w, f, f, f, nextOf, prevOf)
        BY <1>1, <1>3, <1>5, <2>6, <2>8 DEF Relinks
      <4>2. Relinked(q, head, tail, current, on, t, w, f, f, f, nextOf, prevOf)
        BY <4>1, OneList
      <4> QED
        BY <4>2 DEF Relinked
    <3> QED
      BY <2>4, <2>5, <3>1
  <2>10. f \notin Lists!Abstract!Queued(a)
    BY <1>2, <2>2 DEF Lists!Abstract!Queued, Within
  <2>11. Lists!Abstract!AppendFlow(a, f) = [list |-> w, cur |-> f]
    BY <2>1, <2>10 DEF Lists!Abstract!AppendFlow, w
  <2> QED
    BY <1>6, <2>9, <2>11
<1>9. CASE head[t] # NoFlow /\ nextOf[f] = NoFlow /\ tail[t] # f
  <2>1. s # << >>
    BY <1>9, HeadOfList
  <2>2. ~Within(s, f)
    <3>1. SUFFICES ASSUME NEW i \in 1..Len(s), s[i] = f PROVE FALSE
      BY DEF Within
    <3>2. CASE i = Len(s)
      BY <1>1, <1>9, <2>1, <3>1, <3>2, ChainElim
    <3>3. CASE i # Len(s)
      <4>1. i + 1 \in 1..Len(s) /\ i < Len(s)
        BY <1>2, <3>1, <3>3
      <4> QED
        BY <1>2, <1>5, <1>9, <3>1, <4>1 DEF Succ
    <3> QED
      BY <3>2, <3>3
  <2>3. /\ head' = head /\ tail' = [tail EXCEPT ![t] = f] /\ current' = current
        /\ nextOf' = [nextOf EXCEPT ![tail[t]] = f, ![f] = NoFlow]
        /\ prevOf' = [prevOf EXCEPT ![f] = tail[t]]
    BY <1>9 DEF Lists!AppendFlow
  <2>4. Within(s, tail[t])
    BY <2>1, HeadOfList
  <2>5. tail[t] \in LinkedFlow /\ on[tail[t]] = t
    BY <1>1, <2>4, InOneList
  <2> DEFINE w == Append(s, f)
  <2>6. Chain(w, head[t], f, current[t], nextOf', prevOf', on, t)
    <3>1. \A i \in 1..Len(s) : s[i] # f
      BY <2>2 DEF Within
    <3> QED
      BY <1>1, <1>3, <2>1, <2>3, <3>1, LongerChain
  <2>7. Within(w, f) /\ \A g : Within(s, g) => Within(w, g)
    BY <1>2 DEF Within
  <2> HIDE DEF w
  <2>8. nextOf' \in [LinkedFlow -> Lists!Pointer] /\ prevOf' \in [LinkedFlow -> Lists!Pointer]
    BY <1>3, <1>5, <2>3
  <2>9. \A g \in LinkedFlow : g # f /\ g # tail[t] =>
          nextOf'[g] = nextOf[g] /\ prevOf'[g] = prevOf[g]
    BY <1>3, <2>3
  <2>10. OthersKept(q, t, nextOf, prevOf, nextOf', prevOf')
    BY <1>4, <1>7, <2>5, <2>9 DEF OthersKept
  <2>11. AllListed(q, t, w, nextOf', prevOf')
    <3>1. \A g \in LinkedFlow : \/ nextOf[g] = NoFlow /\ prevOf[g] = NoFlow
                          \/ \E u \in Transport : Within(q[u], g)
      BY <1>1 DEF Linked, Within
    <3> QED
      BY <2>4, <2>7, <2>9, <3>1 DEF AllListed
  <2>12. /\ Linked([q EXCEPT ![t] = w], [head EXCEPT ![t] = head[t]],
                   [tail EXCEPT ![t] = f], [current EXCEPT ![t] = current[t]],
                   nextOf', prevOf', on)
         /\ Rounds([q EXCEPT ![t] = w], [current EXCEPT ![t] = current[t]]) =
              [Rounds(q, current) EXCEPT ![t] = [list |-> w, cur |-> current[t]]]
    <3>1. Relinks(q, head, tail, current, nextOf, prevOf, on, t, w, head[t], f, current[t],
                  nextOf', prevOf')
      BY <1>1, <1>3, <1>5, <2>6, <2>8, <2>10, <2>11 DEF Relinks
    <3>2. Relinked(q, head, tail, current, on, t, w, head[t], f, current[t],
                   nextOf', prevOf')
      BY <3>1, OneList
    <3> QED
      BY <3>2 DEF Relinked
  <2>13. head' = [head EXCEPT ![t] = head[t]] /\ current' = [current EXCEPT ![t] = current[t]]
    BY <1>3, <2>3
  <2>14. f \notin Lists!Abstract!Queued(a)
    BY <1>2, <2>2 DEF Lists!Abstract!Queued, Within
  <2>15. Lists!Abstract!AppendFlow(a, f) = [list |-> w, cur |-> current[t]]
    BY <2>1, <2>14 DEF Lists!Abstract!AppendFlow, w
  <2> QED
    BY <1>6, <2>3, <2>12, <2>13, <2>15
<1>10. CASE head[t] # NoFlow /\ ~(nextOf[f] = NoFlow /\ tail[t] # f)
  <2>1. UNCHANGED <<head, tail, current, nextOf, prevOf>>
    BY <1>10 DEF Lists!AppendFlow, Lists!cursors, Lists!links
  <2>2. Within(s, f)
    <3>1. CASE nextOf[f] # NoFlow
      <4>1. \E u \in Transport : Within(q[u], f)
        BY <1>1, <3>1 DEF Linked, Within
      <4> QED
        BY <1>4, <4>1
    <3>2. CASE tail[t] = f
      BY <1>10, <3>2, HeadOfList
    <3> QED
      BY <1>10, <3>1, <3>2
  <2>3. f \in Lists!Abstract!Queued(a)
    BY <1>2, <2>2 DEF Lists!Abstract!Queued, Within
  <2>4. Lists!Abstract!AppendFlow(a, f) = a
    BY <2>3 DEF Lists!Abstract!AppendFlow
  <2>5. Rounds(q, current) = [Rounds(q, current) EXCEPT ![t] = a]
    BY <1>6 DEF Rounds
  <2> QED
    BY <1>1, <1>6, <2>1, <2>4, <2>5
<1> QED
  BY <1>8, <1>9, <1>10
-------------------------------------------------------------------------------
\* The flow at position k of the list of t is taken out, between the one before
\* it and the one after it; c2 is where that leaves the cursor.
Cuts(q, t, k, l2, c2) ==
  /\ Holds(q) /\ t \in Transport /\ k \in 1..Len(q[t])
  /\ l2 \in Lists!Pointer /\ c2 \in Lists!Pointer
  /\ Len(q[t]) > 1 => l2 = (IF Succ(q[t], k) = NoFlow THEN Pred(q[t], k) ELSE tail[t])
  /\ IF Len(q[t]) = 1 THEN c2 = NoFlow ELSE \E i \in 1..Len(q[t]) : i # k /\ c2 = q[t][i]
  /\ head' = [head EXCEPT ![t] = IF Pred(q[t], k) = NoFlow THEN Succ(q[t], k) ELSE head[t]]
  /\ tail' = [tail EXCEPT ![t] = l2]
  /\ current' = [current EXCEPT ![t] = c2]
  /\ nextOf' = [g \in LinkedFlow |-> IF g = q[t][k] THEN NoFlow
                  ELSE IF g = Pred(q[t], k) THEN Succ(q[t], k) ELSE nextOf[g]]
  /\ prevOf' = [g \in LinkedFlow |-> IF g = q[t][k] THEN NoFlow
                  ELSE IF g = Succ(q[t], k) THEN Pred(q[t], k) ELSE prevOf[g]]

\* What is left is linked, and the flow is in no list any more.
LEMMA Cut ==
  ASSUME Sound, NEW q, NEW t, NEW k, NEW l2, NEW c2, Cuts(q, t, k, l2, c2)
  PROVE  \E r : /\ Linked(r, head', tail', current', nextOf', prevOf', on)
                /\ Rounds(r, current') =
                     [Rounds(q, current) EXCEPT
                        ![t] = [list |-> Lists!Abstract!Without(q[t], k), cur |-> c2]]
                /\ \A u \in Transport : ~Within(r[u], q[t][k])
<1> DEFINE s == q[t]
           w == Lists!Abstract!Without(s, k)
           f == s[k]
           h2 == IF Pred(s, k) = NoFlow THEN Succ(s, k) ELSE head[t]
           n2 == [g \in LinkedFlow |-> IF g = s[k] THEN NoFlow
                    ELSE IF g = Pred(s, k) THEN Succ(s, k) ELSE nextOf[g]]
           p2 == [g \in LinkedFlow |-> IF g = s[k] THEN NoFlow
                    ELSE IF g = Succ(s, k) THEN Pred(s, k) ELSE prevOf[g]]
<1>1. /\ Holds(q) /\ t \in Transport /\ k \in 1..Len(s)
      /\ l2 \in Lists!Pointer /\ c2 \in Lists!Pointer
      /\ Len(s) > 1 => l2 = (IF Succ(s, k) = NoFlow THEN Pred(s, k) ELSE tail[t])
      /\ IF Len(s) = 1 THEN c2 = NoFlow ELSE \E i \in 1..Len(s) : i # k /\ c2 = s[i]
  BY DEF Cuts
<1>2. /\ head' = [head EXCEPT ![t] = h2] /\ tail' = [tail EXCEPT ![t] = l2]
      /\ current' = [current EXCEPT ![t] = c2] /\ nextOf' = n2 /\ prevOf' = p2
  BY DEF Cuts
<1>3. /\ Linked(q, head, tail, current, nextOf, prevOf, on)
      /\ Chain(s, head[t], tail[t], current[t], nextOf, prevOf, on, t)
  BY <1>1, LinkedElim DEF Holds
<1>4. /\ s \in Seq(LinkedFlow) /\ Len(s) \in Nat /\ Distinct(s) /\ DOMAIN s = 1..Len(s)
      /\ \A i \in 1..Len(s) : s[i] \in LinkedFlow
  BY <1>3, ChainElim
<1>5. /\ head \in [Transport -> Lists!Pointer] /\ q \in [Transport -> Seq(LinkedFlow)]
      /\ nextOf \in [LinkedFlow -> Lists!Pointer] /\ prevOf \in [LinkedFlow -> Lists!Pointer]
  BY <1>3 DEF Linked
<1> HIDE DEF s
<1>6. /\ Pred(s, k) # NoFlow => Within(s, Pred(s, k))
      /\ Succ(s, k) # NoFlow => Within(s, Succ(s, k))
      /\ Within(s, f)
  <2>1. (k > 1 => k - 1 \in 1..Len(s)) /\ (k < Len(s) => k + 1 \in 1..Len(s))
    BY <1>1, <1>4
  <2> QED
    BY <1>1, <2>1 DEF Pred, Succ, Within
<1>7. /\ Pred(s, k) \in Lists!Pointer /\ Succ(s, k) \in Lists!Pointer /\ f \in LinkedFlow
      /\ \A g : Within(s, g) => g \in LinkedFlow
  BY <1>1, <1>4, <1>6 DEF Within, Lists!Pointer
<1>8. /\ h2 \in Lists!Pointer
      /\ n2 \in [LinkedFlow -> Lists!Pointer] /\ p2 \in [LinkedFlow -> Lists!Pointer]
  BY <1>1, <1>5, <1>7 DEF Lists!Pointer
<1> HIDE DEF h2, n2, p2
<1>9. /\ Chain(w, h2, l2, c2, n2, p2, on, t)
      /\ \A i \in 1..(Len(s) - 1) : w[i] # s[k]
      /\ \A i \in 1..Len(s) : i # k => \E j \in 1..(Len(s) - 1) : w[j] = s[i]
      /\ Len(w) = Len(s) - 1
  <2>1. Shortens(s, head[t], tail[t], current[t], nextOf, prevOf, on, t, k,
                 h2, l2, c2, n2, p2)
    BY <1>1, <1>3, <1>5 DEF h2, n2, p2, Shortens
  <2>2. Shortened(s, on, t, k, h2, l2, c2, n2, p2)
    BY <2>1, ShorterChain
  <2> QED
    BY <2>2 DEF Shortened
<1> HIDE DEF w
<1>10. ~Within(w, f) /\ \A g : Within(s, g) /\ g # f => Within(w, g)
  BY <1>9 DEF Within
<1> HIDE DEF f
<1>11. \A u \in Transport \ {t} : \A g : Within(q[u], g) => ~Within(s, g) /\ g # NoFlow
  BY <1>1, <1>3, InOneList DEF s, Sound
<1>12. \A g \in LinkedFlow : ~Within(s, g) => n2[g] = nextOf[g] /\ p2[g] = prevOf[g]
  BY <1>6 DEF n2, p2, f, Sound
<1>13. OthersKept(q, t, nextOf, prevOf, n2, p2)
  BY <1>11, <1>12 DEF OthersKept
<1>14. AllListed(q, t, w, n2, p2)
  <2>1. SUFFICES ASSUME NEW g \in LinkedFlow
                 PROVE  \/ n2[g] = NoFlow /\ p2[g] = NoFlow
                        \/ Within(w, g)
                        \/ \E u \in Transport \ {t} : Within(q[u], g)
    BY DEF AllListed
  <2>2. CASE g = f
    BY <2>2 DEF n2, p2, f
  <2>3. CASE g # f /\ Within(s, g)
    BY <1>10, <2>3
  <2>4. CASE ~Within(s, g)
    <3>1. \/ nextOf[g] = NoFlow /\ prevOf[g] = NoFlow
          \/ \E u \in Transport : Within(q[u], g)
      BY <1>3 DEF Linked, Within
    <3> QED
      BY <1>12, <2>4, <3>1 DEF s
  <2> QED
    BY <2>2, <2>3, <2>4
<1>15. Relinks(q, head, tail, current, nextOf, prevOf, on, t, w, h2, l2, c2, n2, p2)
  BY <1>1, <1>3, <1>8, <1>9, <1>13, <1>14 DEF Relinks
<1>16. Relinked(q, head, tail, current, on, t, w, h2, l2, c2, n2, p2)
  BY <1>15, OneList
<1>17. /\ Linked([q EXCEPT ![t] = w], head', tail', current', nextOf', prevOf', on)
       /\ Rounds([q EXCEPT ![t] = w], current') =
            [Rounds(q, current) EXCEPT ![t] = [list |-> w, cur |-> c2]]
  BY <1>2, <1>16 DEF Relinked
<1>18. ASSUME NEW u \in Transport PROVE ~Within([q EXCEPT ![t] = w][u], f)
  BY <1>1, <1>5, <1>6, <1>10, <1>11
<1> QED
  BY <1>17, <1>18 DEF w, f, s
\* The head of a list that a flow was taken out of.
LEMMA HeadOfRest ==
  ASSUME NEW s \in Seq(LinkedFlow), NEW k \in 1..Len(s)
  PROVE  Lists!Abstract!HeadOf(Lists!Abstract!Without(s, k)) = IF k = 1 THEN Succ(s, 1) ELSE s[1]
<1> DEFINE w == Lists!Abstract!Without(s, k)
           e(i) == IF i < k THEN s[i] ELSE s[i + 1]
<1>1. Len(s) \in Nat /\ s \in [1..Len(s) -> LinkedFlow] /\ Len(s) - 1 \in Nat
  BY LenProperties
<1>2. \A i \in 1..(Len(s) - 1) : e(i) \in LinkedFlow
  BY <1>1
<1>3. w = [i \in 1..(Len(s) - 1) |-> e(i)]
  BY DEF Lists!Abstract!Without
<1>4. w \in [1..(Len(s) - 1) -> LinkedFlow]
  BY <1>2, <1>3
<1>5. w \in Seq(LinkedFlow)
  BY <1>1, <1>4, SeqDef
<1>6. Len(w) = Len(s) - 1
  BY <1>1, <1>3, <1>4, <1>5, LenProperties
<1> HIDE DEF w
<1>7. w = << >> <=> Len(s) = 1
  BY <1>1, <1>5, <1>6, EmptySeq
<1>8. CASE Len(s) = 1
  BY <1>7, <1>8 DEF Lists!Abstract!HeadOf, Succ, w
<1>9. CASE Len(s) # 1
  <2>1. 1 \in 1..(Len(s) - 1) /\ 1 < Len(s)
    BY <1>1, <1>9
  <2>2. w[1] = IF 1 < k THEN s[1] ELSE s[2]
    BY <1>3, <2>1
  <2>3. 1 < k <=> k # 1
    BY <1>1
  <2> QED
    BY <1>7, <1>9, <2>1, <2>2, <2>3 DEF Lists!Abstract!HeadOf, Succ, w
<1> QED
  BY <1>8, <1>9

\* RemoveFlow on the pointers is RemoveFlow on the round robin.
LEMMA Removes ==
  ASSUME Sound, NEW q, Holds(q), NEW f \in LinkedFlow, NEW t \in Transport, on[f] = t,
         Lists!RemoveFlow(t, f)
  PROVE  \E r : /\ Linked(r, head', tail', current', nextOf', prevOf', on)
                /\ Rounds(r, current') =
                     [Rounds(q, current) EXCEPT ![t] = Lists!Abstract!RemoveFlow(@, f)]
                /\ \A u \in Transport : ~Within(r[u], f)
<1> DEFINE s == q[t]
           n == Len(s)
           a == [list |-> s, cur |-> current[t]]
<1>1. /\ Linked(q, head, tail, current, nextOf, prevOf, on)
      /\ Chain(s, head[t], tail[t], current[t], nextOf, prevOf, on, t)
  BY LinkedElim DEF Holds
<1>2. /\ s \in Seq(LinkedFlow) /\ n \in Nat /\ DOMAIN s = 1..n /\ Distinct(s)
      /\ (s = << >> <=> n = 0) /\ head[t] = First(s) /\ (s # << >> => tail[t] = s[n])
      /\ (IF s = << >> THEN current[t] = NoFlow ELSE \E i \in 1..n : current[t] = s[i])
      /\ \A i \in 1..n : /\ s[i] \in LinkedFlow
                       /\ nextOf[s[i]] = Succ(s, i) /\ prevOf[s[i]] = Pred(s, i)
  BY <1>1, ChainElim
<1>3. /\ head \in [Transport -> Lists!Pointer] /\ tail \in [Transport -> Lists!Pointer]
      /\ current \in [Transport -> Lists!Pointer]
      /\ nextOf \in [LinkedFlow -> Lists!Pointer] /\ prevOf \in [LinkedFlow -> Lists!Pointer]
  BY <1>1 DEF Linked
<1>4. Lists!Walk(t) = s /\ (f \in Lists!Listed(t) <=> Within(s, f))
  BY WalkHolds
<1>5. Rounds(q, current)[t] = a /\ Rounds(q, current) = [Rounds(q, current) EXCEPT ![t] = a]
  BY DEF Rounds
<1>6. Lists!Abstract!Queued(a) = {s[i] : i \in 1..n}
  BY <1>2 DEF Lists!Abstract!Queued
<1> HIDE DEF s, n, a
<1>7. CASE ~Within(s, f)
  <2>1. UNCHANGED <<head, tail, current, nextOf, prevOf>>
    BY <1>4, <1>7 DEF Lists!RemoveFlow, Lists!cursors, Lists!links
  <2>2. f \notin Lists!Abstract!Queued(a)
    BY <1>6, <1>7 DEF Within, n
  <2>3. Lists!Abstract!RemoveFlow(a, f) = a
    BY <2>2 DEF Lists!Abstract!RemoveFlow
  <2>4. \A u \in Transport : ~Within(q[u], f)
    BY <1>1, <1>7, InOneList DEF s
  <2> QED
    BY <1>1, <1>5, <2>1, <2>3, <2>4
<1>8. CASE Within(s, f)
  <2>1. PICK k \in 1..n : s[k] = f
    BY <1>8 DEF Within, n
  <2>2. \A i \in 1..n : s[i] = f => i = k
    BY <1>2, <2>1 DEF Distinct
  <2>3. k \in Int /\ k >= 1 /\ k <= n /\ n # 0
    BY <1>2, <2>1
  <2> DEFINE p == Pred(s, k)
             x == Succ(s, k)
             b == Lists!Before(t, f)
             isTail == b # NoFlow /\ tail[t] = f
             l2 == IF isTail THEN b ELSE tail[t]
             c2 == IF isTail THEN head[t] ELSE IF current[t] = f THEN nextOf[f] ELSE current[t]
  <2>4. b = p
    <3> DEFINE P(i) == i \in 1..n /\ s[i] = f /\ \A j \in 1..(i - 1) : s[j] # f
               c == CHOOSE i \in DOMAIN s : s[i] = f /\ \A j \in 1..(i - 1) : s[j] # f
    <3>1. P(k)
      <4>1. \A j \in 1..(k - 1) : j \in 1..n /\ j # k
        BY <2>3, <1>2
      <4> QED
        BY <2>1, <2>2, <4>1
    <3>2. P(c)
      BY <1>2, <3>1
    <3>3. c = k
      BY <2>2, <3>2
    <3>4. b = IF c = 1 THEN NoFlow ELSE s[c - 1]
      BY <1>4 DEF Lists!Before
    <3> HIDE DEF c
    <3> QED
      BY <2>3, <3>3, <3>4 DEF Pred
  <2>5. nextOf[f] = x /\ prevOf[f] = p
    BY <1>2, <2>1
  <2>6. /\ head' = [head EXCEPT ![t] = IF b = NoFlow THEN nextOf[f] ELSE head[t]]
        /\ tail' = [tail EXCEPT ![t] = l2]
        /\ current' = [current EXCEPT ![t] = c2]
        /\ Lists!Unlink(f, b, IF b = NoFlow THEN NoFlow ELSE prevOf[f])
    BY <1>3, <1>4, <1>8 DEF Lists!RemoveFlow
  <2>7. /\ (k > 1 => k - 1 \in 1..n /\ p = s[k - 1] /\ p # NoFlow)
        /\ (~(k > 1) => p = NoFlow /\ k = 1)
        /\ (k < n => k + 1 \in 1..n /\ x = s[k + 1] /\ x # NoFlow)
        /\ (~(k < n) => x = NoFlow /\ k = n)
    <3>1. (k > 1 => k - 1 \in 1..n) /\ (k < n => k + 1 \in 1..n)
      BY <1>2, <2>3
    <3>2. \A i \in 1..n : s[i] # NoFlow
      BY <1>2 DEF Sound
    <3> QED
      BY <2>3, <3>1, <3>2 DEF Pred, Succ, n
  <2>8. s # << >> /\ head[t] = s[1] /\ 1 \in 1..n /\ n \in 1..n
    BY <1>2, <2>3 DEF First
  <2>9. tail[t] = f <=> k = n
    BY <1>2, <2>1, <2>2, <2>8
  <2>10. isTail <=> k > 1 /\ k = n
    BY <2>4, <2>7, <2>9
  <2>11. PICK i \in 1..n : current[t] = s[i]
    BY <1>2, <2>8
  <2>12. current[t] = f <=> i = k
    BY <2>1, <2>2, <2>11
  <2> HIDE DEF p, x, b
  <2>13. l2 \in Lists!Pointer /\ c2 \in Lists!Pointer
    BY <1>3, <2>4, <2>7, <1>2 DEF Lists!Pointer
  <2>14. n > 1 => l2 = IF x = NoFlow THEN p ELSE tail[t]
    BY <2>3, <2>4, <2>7, <2>10
  <2>20. c2 = IF k > 1 /\ k = n THEN head[t]
              ELSE IF i = k THEN nextOf[f] ELSE current[t]
    BY <2>10, <2>12
  <2> HIDE DEF c2
  <2>15. IF n = 1 THEN c2 = NoFlow ELSE \E j \in 1..n : j # k /\ c2 = s[j]
    <3>1. CASE n = 1
      <4>1. k = 1 /\ i = k /\ ~(k < n)
        BY <1>2, <2>3, <2>11, <3>1
      <4> QED
        BY <2>3, <2>5, <2>7, <2>20, <3>1, <4>1
    <3>2. CASE n # 1 /\ k > 1 /\ k = n
      <4>1. c2 = s[1] /\ 1 \in 1..n /\ 1 # k
        BY <2>3, <2>8, <2>20, <3>2
      <4> QED
        BY <3>2, <4>1
    <3>3. CASE n # 1 /\ ~(k > 1 /\ k = n) /\ i = k
      <4>1. k < n
        BY <1>2, <2>3, <3>3
      <4>2. c2 = s[k + 1] /\ k + 1 \in 1..n /\ k + 1 # k
        BY <2>3, <2>5, <2>7, <2>20, <3>3, <4>1
      <4> QED
        BY <3>3, <4>2
    <3>4. CASE n # 1 /\ ~(k > 1 /\ k = n) /\ i # k
      <4>1. c2 = s[i]
        BY <2>11, <2>20, <3>4
      <4> QED
        BY <3>4, <4>1
    <3> QED
      BY <3>1, <3>2, <3>3, <3>4
  <2>16. Cuts(q, t, k, l2, c2)
    <3>1. /\ nextOf' = [g \in LinkedFlow |-> IF g = f THEN NoFlow
                                       ELSE IF g = p THEN x ELSE nextOf[g]]
          /\ prevOf' = [g \in LinkedFlow |-> IF g = f THEN NoFlow
                                       ELSE IF g = x THEN p ELSE prevOf[g]]
      BY <2>4, <2>5, <2>6 DEF Lists!Unlink
    <3>2. head' = [head EXCEPT ![t] = IF p = NoFlow THEN x ELSE head[t]]
      BY <2>4, <2>5, <2>6
    <3> HIDE DEF l2, c2
    <3> QED
      BY <2>1, <2>6, <2>13, <2>14, <2>15, <3>1, <3>2 DEF Cuts, p, x, s, n
  <2>17. Lists!Abstract!RemoveFlow(a, f) = [list |-> Lists!Abstract!Without(s, k), cur |-> c2]
    <3> DEFINE j == Lists!Abstract!Index(a, f)
               w == Lists!Abstract!Without(s, k)
    <3>1. j = k
      <4>1. j = CHOOSE m \in 1..n : s[m] = f
        BY <1>2 DEF Lists!Abstract!Index, a
      <4>2. j \in 1..n /\ s[j] = f
        BY <2>1, <4>1
      <4> QED
        BY <2>2, <4>2
    <3>2. f \in Lists!Abstract!Queued(a)
      BY <1>6, <2>1
    <3> HIDE DEF j
    <3>3. a.list = s /\ a.cur = current[t]
      BY DEF a
    <3>4. Lists!Abstract!RemoveFlow(a, f) =
            [list |-> w, cur |-> IF k > 1 /\ k = n THEN Lists!Abstract!HeadOf(w)
                                 ELSE IF current[t] # f THEN current[t]
                                 ELSE IF k = 1 THEN Lists!Abstract!HeadOf(w)
                                 ELSE s[k + 1]]
      BY <3>1, <3>2, <3>3 DEF Lists!Abstract!RemoveFlow, j, n
    <3>5. Lists!Abstract!HeadOf(w) = IF k = 1 THEN Succ(s, 1) ELSE s[1]
      BY <1>2, <2>1, HeadOfRest DEF n
    <3> HIDE DEF w
    <3>6. (k = 1 => Succ(s, 1) = nextOf[f]) /\ (~(k > 1) => k = 1) /\ (k > 1 => k # 1)
      BY <2>3, <2>5 DEF x
    <3>7. k < n => nextOf[f] = s[k + 1]
      BY <2>5, <2>7
    <3>8. c2 = IF k > 1 /\ k = n THEN Lists!Abstract!HeadOf(w)
               ELSE IF current[t] # f THEN current[t]
               ELSE IF k = 1 THEN Lists!Abstract!HeadOf(w)
               ELSE s[k + 1]
      BY <2>3, <2>8, <2>12, <2>20, <3>5, <3>6, <3>7
    <3> QED
      BY <3>4, <3>8 DEF w
  <2> HIDE DEF l2, c2
  <2>18. PICK r :
           /\ Linked(r, head', tail', current', nextOf', prevOf', on)
           /\ Rounds(r, current') =
                [Rounds(q, current) EXCEPT
                   ![t] = [list |-> Lists!Abstract!Without(q[t], k), cur |-> c2]]
           /\ \A u \in Transport : ~Within(r[u], q[t][k])
    BY <2>16, Cut
  <2>19. /\ Rounds(r, current') = [Rounds(q, current) EXCEPT ![t] = Lists!Abstract!RemoveFlow(a, f)]
         /\ \A u \in Transport : ~Within(r[u], f)
    BY <2>1, <2>17, <2>18 DEF s
  <2> QED
    BY <1>5, <2>18, <2>19
<1> QED
  BY <1>7, <1>8
\* RemoveFromPendingList, which finds the flow before by its pointer, takes the
\* flow at the cursor out of the round robin.
LEMMA Takes ==
  ASSUME Sound, NEW q, Holds(q), NEW t \in Transport, current[t] # NoFlow,
         Lists!RemoveFromPendingList(t)
  PROVE  \E r : /\ Linked(r, head', tail', current', nextOf', prevOf', on)
                /\ Rounds(r, current') =
                     [Rounds(q, current) EXCEPT ![t] = Lists!Abstract!RemoveFromPendingList(@)]
<1> DEFINE s == q[t]
           n == Len(s)
           a == [list |-> s, cur |-> current[t]]
           f == current[t]
<1>1. /\ Linked(q, head, tail, current, nextOf, prevOf, on)
      /\ Chain(s, head[t], tail[t], current[t], nextOf, prevOf, on, t)
  BY LinkedElim DEF Holds
<1>2. /\ s \in Seq(LinkedFlow) /\ n \in Nat /\ DOMAIN s = 1..n /\ Distinct(s)
      /\ (s = << >> <=> n = 0) /\ head[t] = First(s) /\ (s # << >> => tail[t] = s[n])
      /\ (IF s = << >> THEN f = NoFlow ELSE \E i \in 1..n : f = s[i])
      /\ \A i \in 1..n : /\ s[i] \in LinkedFlow
                       /\ nextOf[s[i]] = Succ(s, i) /\ prevOf[s[i]] = Pred(s, i)
  BY <1>1, ChainElim
<1>3. /\ head \in [Transport -> Lists!Pointer] /\ tail \in [Transport -> Lists!Pointer]
      /\ current \in [Transport -> Lists!Pointer]
      /\ nextOf \in [LinkedFlow -> Lists!Pointer] /\ prevOf \in [LinkedFlow -> Lists!Pointer]
  BY <1>1 DEF Linked
<1>4. Rounds(q, current)[t] = a
  BY DEF Rounds
<1> HIDE DEF s, n, a
<1>5. PICK k \in 1..n : s[k] = f
  BY <1>2
<1>6. \A i \in 1..n : s[i] = f => i = k
  BY <1>2, <1>5 DEF Distinct
<1>7. k \in Int /\ k >= 1 /\ k <= n /\ n # 0
  BY <1>2, <1>5
<1> DEFINE p == Pred(s, k)
           x == Succ(s, k)
           h2 == IF p = NoFlow THEN x ELSE head[t]
           l2 == IF x = NoFlow THEN p ELSE tail[t]
           c2 == IF x # NoFlow THEN x ELSE h2
<1>8. nextOf[f] = x /\ prevOf[f] = p
  BY <1>2, <1>5
<1>9. /\ head' = [head EXCEPT ![t] = h2] /\ tail' = [tail EXCEPT ![t] = l2]
      /\ current' = [current EXCEPT ![t] = c2] /\ Lists!Unlink(f, p, p)
  BY <1>3, <1>8 DEF Lists!RemoveFromPendingList
<1>10. /\ (k > 1 => k - 1 \in 1..n /\ p = s[k - 1] /\ p # NoFlow)
       /\ (~(k > 1) => p = NoFlow /\ k = 1)
       /\ (k < n => k + 1 \in 1..n /\ x = s[k + 1] /\ x # NoFlow)
       /\ (~(k < n) => x = NoFlow /\ k = n)
  <2>1. (k > 1 => k - 1 \in 1..n) /\ (k < n => k + 1 \in 1..n)
    BY <1>2, <1>7
  <2>2. \A i \in 1..n : s[i] # NoFlow
    BY <1>2 DEF Sound
  <2> QED
    BY <1>7, <2>1, <2>2 DEF Pred, Succ, n
<1>11. s # << >> /\ head[t] = s[1] /\ 1 \in 1..n
  BY <1>2, <1>7 DEF First
<1> HIDE DEF p, x
<1>12. l2 \in Lists!Pointer /\ c2 \in Lists!Pointer
  BY <1>3, <1>10, <1>2 DEF Lists!Pointer
<1>13. n > 1 => l2 = IF x = NoFlow THEN p ELSE tail[t]
  OBVIOUS
<1>14. IF n = 1 THEN c2 = NoFlow ELSE \E j \in 1..n : j # k /\ c2 = s[j]
  <2>1. CASE k < n
    <3>1. n # 1 /\ c2 = s[k + 1] /\ k + 1 \in 1..n /\ k + 1 # k
      BY <1>7, <1>10, <2>1
    <3> QED
      BY <3>1
  <2>2. CASE ~(k < n) /\ k > 1
    <3>1. n # 1 /\ c2 = s[1] /\ 1 # k
      BY <1>7, <1>10, <1>11, <2>2
    <3> QED
      BY <1>11, <3>1
  <2>3. CASE ~(k < n) /\ ~(k > 1)
    BY <1>7, <1>10, <2>3
  <2> QED
    BY <2>1, <2>2, <2>3
<1> HIDE DEF l2, c2
<1>15. Cuts(q, t, k, l2, c2)
  <2>1. /\ nextOf' = [g \in LinkedFlow |-> IF g = f THEN NoFlow
                                     ELSE IF g = p THEN x ELSE nextOf[g]]
        /\ prevOf' = [g \in LinkedFlow |-> IF g = f THEN NoFlow
                                     ELSE IF g = x THEN p ELSE prevOf[g]]
    BY <1>8, <1>9 DEF Lists!Unlink
  <2> QED
    BY <1>5, <1>9, <1>12, <1>13, <1>14, <2>1 DEF Cuts, p, x, s, n
<1>16. Lists!Abstract!RemoveFromPendingList(a) = [list |-> Lists!Abstract!Without(s, k), cur |-> c2]
  <2> DEFINE j == Lists!Abstract!Index(a, a.cur)
             w == Lists!Abstract!Without(s, k)
  <2>1. a.list = s /\ a.cur = f
    BY DEF a
  <2>2. j = k
    <3>1. j = CHOOSE m \in 1..n : s[m] = f
      BY <1>2, <2>1 DEF Lists!Abstract!Index
    <3>2. j \in 1..n /\ s[j] = f
      BY <1>5, <3>1
    <3> QED
      BY <1>6, <3>2
  <2> HIDE DEF j
  <2>3. Lists!Abstract!After(a) = x
    <3>1. Lists!Abstract!After(a) = IF k < n THEN s[k + 1] ELSE NoFlow
      BY <2>1, <2>2 DEF Lists!Abstract!After, j, n
    <3> QED
      BY <1>10, <3>1
  <2>4. Lists!Abstract!RemoveFromPendingList(a) =
          [list |-> w, cur |-> IF x # NoFlow THEN x ELSE Lists!Abstract!HeadOf(w)]
    BY <2>1, <2>2, <2>3 DEF Lists!Abstract!RemoveFromPendingList, j
  <2>5. Lists!Abstract!HeadOf(w) = IF k = 1 THEN Succ(s, 1) ELSE s[1]
    BY <1>2, <1>5, HeadOfRest DEF n
  <2> HIDE DEF w
  <2>6. Lists!Abstract!HeadOf(w) = h2
    <3>1. CASE k > 1
      <4>1. k # 1 /\ p # NoFlow
        BY <1>10, <1>7, <3>1
      <4> QED
        BY <1>11, <2>5, <4>1
    <3>2. CASE ~(k > 1)
      BY <1>10, <2>5, <3>2 DEF x
    <3> QED
      BY <3>1, <3>2
  <2> QED
    BY <2>4, <2>6 DEF w, c2
<1>17. PICK r :
         /\ Linked(r, head', tail', current', nextOf', prevOf', on)
         /\ Rounds(r, current') =
              [Rounds(q, current) EXCEPT
                 ![t] = [list |-> Lists!Abstract!Without(q[t], k), cur |-> c2]]
  BY <1>15, Cut
<1>18. Rounds(r, current') =
         [Rounds(q, current) EXCEPT ![t] = Lists!Abstract!RemoveFromPendingList(a)]
  BY <1>16, <1>17 DEF s
<1> QED
  BY <1>4, <1>17, <1>18

\* The cursor moves on as the round robin has it.
LEMMA MovesOn ==
  ASSUME Sound, NEW q, Holds(q), NEW t \in Transport, current[t] # NoFlow, Lists!Advance(t)
  PROVE  \E r : /\ Linked(r, head', tail', current', nextOf', prevOf', on)
                /\ Rounds(r, current') =
                     [Rounds(q, current) EXCEPT ![t] = Lists!Abstract!Advance(@)]
<1> DEFINE s == q[t]
           n == Len(s)
           a == [list |-> s, cur |-> current[t]]
           f == current[t]
<1>1. /\ Linked(q, head, tail, current, nextOf, prevOf, on)
      /\ Chain(s, head[t], tail[t], current[t], nextOf, prevOf, on, t)
  BY LinkedElim DEF Holds
<1>2. /\ s \in Seq(LinkedFlow) /\ n \in Nat /\ DOMAIN s = 1..n /\ Distinct(s)
      /\ (s = << >> <=> n = 0) /\ head[t] = First(s)
      /\ (IF s = << >> THEN f = NoFlow ELSE \E i \in 1..n : f = s[i])
      /\ \A i \in 1..n : s[i] \in LinkedFlow /\ nextOf[s[i]] = Succ(s, i)
  BY <1>1, ChainElim
<1>3. /\ q \in [Transport -> Seq(LinkedFlow)] /\ current \in [Transport -> Lists!Pointer]
  BY <1>1 DEF Linked
<1>4. Rounds(q, current)[t] = a
  BY DEF Rounds
<1> DEFINE c2 == IF nextOf[f] # NoFlow THEN nextOf[f] ELSE head[t]
<1>5. /\ current' = [current EXCEPT ![t] = c2] /\ head' = head /\ tail' = tail
      /\ nextOf' = nextOf /\ prevOf' = prevOf
  BY DEF Lists!Advance, Lists!links
<1> HIDE DEF s, n, a
<1>6. PICK k \in 1..n : s[k] = f
  BY <1>2
<1>7. \A i \in 1..n : s[i] = f => i = k
  BY <1>2, <1>6 DEF Distinct
<1>8. /\ k \in Int /\ k >= 1 /\ k <= n /\ n # 0 /\ 1 \in 1..n
      /\ (k < n => k + 1 \in 1..n)
  BY <1>2, <1>6
<1>9. s # << >> /\ head[t] = s[1] /\ \A i \in 1..n : s[i] # NoFlow
  BY <1>2, <1>8 DEF First, Sound
<1>10. nextOf[f] = IF k < n THEN s[k + 1] ELSE NoFlow
  BY <1>2, <1>6 DEF Succ, n
<1>11. \E i \in 1..n : c2 = s[i]
  BY <1>8, <1>9, <1>10
<1>12. c2 \in LinkedFlow
  BY <1>2, <1>11
<1> HIDE DEF c2
<1>13. Chain(s, head[t], tail[t], c2, nextOf, prevOf, on, t)
  BY <1>1, <1>9, <1>11 DEF Chain, n
<1>14. Linked(q, head, tail, current', nextOf, prevOf, on)
  <2>1. current' \in [Transport -> Lists!Pointer] /\ current'[t] = c2
        /\ \A u \in Transport \ {t} : current'[u] = current[u]
    BY <1>3, <1>5, <1>12 DEF Lists!Pointer
  <2>2. ASSUME NEW u \in Transport
        PROVE  Chain(q[u], head[u], tail[u], current'[u], nextOf, prevOf, on, u)
    BY <1>1, <1>13, <2>1, LinkedElim DEF s
  <2> QED
    BY <1>1, <2>1, <2>2 DEF Linked
<1>15. Lists!Abstract!Advance(a) = [list |-> s, cur |-> c2]
  <2> DEFINE j == Lists!Abstract!Index(a, a.cur)
  <2>1. a.list = s /\ a.cur = f
    BY DEF a
  <2>2. j = k
    <3>1. j = CHOOSE m \in 1..n : s[m] = f
      BY <1>2, <2>1 DEF Lists!Abstract!Index
    <3>2. j \in 1..n /\ s[j] = f
      BY <1>6, <3>1
    <3> QED
      BY <1>7, <3>2
  <2> HIDE DEF j
  <2>3. Lists!Abstract!After(a) = nextOf[f]
    BY <1>10, <2>1, <2>2 DEF Lists!Abstract!After, j, n
  <2>4. Lists!Abstract!HeadOf(s) = head[t]
    BY <1>9 DEF Lists!Abstract!HeadOf
  <2> QED
    BY <2>1, <2>3, <2>4 DEF Lists!Abstract!Advance, a, c2
<1>16. Rounds(q, current') = [Rounds(q, current) EXCEPT ![t] = [list |-> s, cur |-> c2]]
  BY <1>3, <1>5 DEF Rounds, s
<1> QED
  BY <1>4, <1>5, <1>14, <1>15, <1>16

-------------------------------------------------------------------------------
\* A step of the pointers, from the lists q to the lists r, is a step of the
\* round robins.
Implements(q, r) ==
  /\ Linked(r, head', tail', current', nextOf', prevOf', on')
  /\ \/ \E f \in LinkedFlow :
          \/ /\ on[f] # NoTransport
             /\ Rounds(r, current') =
                  [Rounds(q, current) EXCEPT ![on[f]] = Lists!Abstract!AppendFlow(@, f)]
             /\ on' = on
          \/ \E t \in Transport :
               /\ on[f] = NoTransport
               /\ on' = [on EXCEPT ![f] = t]
               /\ Rounds(r, current') = Rounds(q, current)
          \/ \E t \in Transport \cup {NoTransport} :
               /\ on[f] # NoTransport
               /\ Rounds(r, current') =
                    [Rounds(q, current) EXCEPT ![on[f]] = Lists!Abstract!RemoveFlow(@, f)]
               /\ on' = [on EXCEPT ![f] = t]
     \/ \E t \in Transport :
          /\ current[t] # NoFlow
          /\ \/ Rounds(r, current') =
                  [Rounds(q, current) EXCEPT ![t] = Lists!Abstract!RemoveFromPendingList(@)]
             \/ Rounds(r, current') = [Rounds(q, current) EXCEPT ![t] = Lists!Abstract!Advance(@)]
          /\ on' = on
     \/ Rounds(r, current') = Rounds(q, current) /\ on' = on

\* Every step of the pointers is one.
LEMMA StepImplements ==
  ASSUME Sound, NEW q, Holds(q), [Lists!Next]_(Lists!vars)
  PROVE  \E r : Implements(q, r)
<1>1. Linked(q, head, tail, current, nextOf, prevOf, on)
  BY DEF Holds
<1>2. on \in [LinkedFlow -> Transport \cup {NoTransport}]
  BY <1>1 DEF Linked
<1>3. \A f \in LinkedFlow : on[f] # NoTransport => on[f] \in Transport
  BY <1>2
<1>4. \A f \in LinkedFlow : \A t \in Transport : Within(q[t], f) => on[f] = t
  BY <1>1, InOneList
<1>5. ASSUME NEW f \in LinkedFlow, Lists!Wait(f) PROVE \E r : Implements(q, r)
  <2>1. on[f] \in Transport /\ on[f] # NoTransport /\ Lists!AppendFlow(on[f], f) /\ on' = on
    BY <1>3, <1>5 DEF Lists!Wait
  <2>2. PICK r : /\ Linked(r, head', tail', current', nextOf', prevOf', on)
                 /\ Rounds(r, current') =
                      [Rounds(q, current) EXCEPT ![on[f]] = Lists!Abstract!AppendFlow(@, f)]
    BY <2>1, Appends
  <2>3. Implements(q, r)
    BY <2>1, <2>2 DEF Implements
  <2> QED
    BY <2>3
<1>6. ASSUME NEW f \in LinkedFlow, NEW t \in Transport, Lists!On(f, t) PROVE \E r : Implements(q, r)
  <2>1. /\ on[f] = NoTransport /\ on' = [on EXCEPT ![f] = t]
        /\ UNCHANGED <<head, tail, current, nextOf, prevOf>>
    BY <1>6 DEF Lists!On, Lists!cursors, Lists!links
  <2>2. \A u \in Transport : ~Within(q[u], f)
    BY <1>4, <2>1 DEF Sound
  <2>3. Linked(q, head, tail, current, nextOf, prevOf, on')
    BY <1>1, <2>1, <2>2, OtherTransport
  <2>4. Implements(q, q)
    BY <2>1, <2>3 DEF Implements
  <2> QED
    BY <2>4
<1>7. ASSUME NEW f \in LinkedFlow, NEW t \in Transport, Lists!ModSource(f, t)
      PROVE  \E r : Implements(q, r)
  <2>1. /\ on[f] \in Transport /\ on[f] # NoTransport /\ on' = [on EXCEPT ![f] = t]
        /\ ~(f \in Lists!Listed(on[f]))
        /\ UNCHANGED <<head, tail, current, nextOf, prevOf>>
    BY <1>3, <1>7 DEF Lists!ModSource, Lists!cursors, Lists!links, Sound
  <2>2. ~Within(q[on[f]], f)
    BY <2>1, WalkHolds
  <2>3. \A u \in Transport : ~Within(q[u], f)
    BY <1>4, <2>2
  <2>4. Linked(q, head, tail, current, nextOf, prevOf, on')
    BY <1>1, <2>1, <2>3, OtherTransport
  <2>5. Rounds(q, current) =
          [Rounds(q, current) EXCEPT ![on[f]] = Lists!Abstract!RemoveFlow(@, f)]
    <3> DEFINE a == Rounds(q, current)[on[f]]
    <3>1. a.list = q[on[f]] /\ DOMAIN q[on[f]] = 1..Len(q[on[f]])
      BY <1>1, <2>1, LinkedElim, LenProperties DEF Rounds
    <3>2. f \notin Lists!Abstract!Queued(a)
      BY <2>2, <3>1 DEF Lists!Abstract!Queued, Within
    <3>3. Lists!Abstract!RemoveFlow(a, f) = a
      BY <3>2 DEF Lists!Abstract!RemoveFlow
    <3> QED
      BY <3>3 DEF Rounds
  <2>6. Implements(q, q)
    BY <2>1, <2>4, <2>5 DEF Implements
  <2> QED
    BY <2>6
<1>8. ASSUME NEW f \in LinkedFlow, NEW t \in Transport \cup {NoTransport}, Lists!Leave(f, t)
      PROVE  \E r : Implements(q, r)
  <2>1. /\ on[f] \in Transport /\ on[f] # NoTransport /\ Lists!RemoveFlow(on[f], f)
        /\ on' = [on EXCEPT ![f] = t]
    BY <1>3, <1>8 DEF Lists!Leave
  <2>2. PICK r : /\ Linked(r, head', tail', current', nextOf', prevOf', on)
                 /\ Rounds(r, current') =
                      [Rounds(q, current) EXCEPT ![on[f]] = Lists!Abstract!RemoveFlow(@, f)]
                 /\ \A u \in Transport : ~Within(r[u], f)
    BY <2>1, Removes
  <2>3. Linked(r, head', tail', current', nextOf', prevOf', on')
    BY <2>1, <2>2, OtherTransport
  <2>4. Implements(q, r)
    BY <2>1, <2>2, <2>3 DEF Implements
  <2> QED
    BY <2>4
<1>9. ASSUME NEW t \in Transport, Lists!Serve(t) PROVE \E r : Implements(q, r)
  <2>1. current[t] # NoFlow /\ on' = on /\ (Lists!RemoveFromPendingList(t) \/ Lists!Advance(t))
    BY <1>9 DEF Lists!Serve
  <2>2. CASE Lists!RemoveFromPendingList(t)
    <3>1. PICK r : /\ Linked(r, head', tail', current', nextOf', prevOf', on)
                   /\ Rounds(r, current') =
                        [Rounds(q, current) EXCEPT
                           ![t] = Lists!Abstract!RemoveFromPendingList(@)]
      BY <2>1, <2>2, Takes
    <3>2. Implements(q, r)
      BY <2>1, <3>1 DEF Implements
    <3> QED
      BY <3>2
  <2>3. CASE Lists!Advance(t)
    <3>1. PICK r : /\ Linked(r, head', tail', current', nextOf', prevOf', on)
                   /\ Rounds(r, current') =
                        [Rounds(q, current) EXCEPT ![t] = Lists!Abstract!Advance(@)]
      BY <2>1, <2>3, MovesOn
    <3>2. Implements(q, r)
      BY <2>1, <3>1 DEF Implements
    <3> QED
      BY <3>2
  <2> QED
    BY <2>1, <2>2, <2>3
<1>10. CASE UNCHANGED Lists!vars
  <2>1. UNCHANGED <<head, tail, current, nextOf, prevOf, on>>
    BY <1>10 DEF Lists!vars, Lists!cursors, Lists!links
  <2>2. Implements(q, q)
    BY <1>1, <2>1 DEF Implements
  <2> QED
    BY <2>2
<1> QED
  BY <1>5, <1>6, <1>7, <1>8, <1>9, <1>10 DEF Lists!Next
-------------------------------------------------------------------------------
\* The inductive invariant: there are lists that the pointers hold.
Inv == \E q : Holds(q)

\* At first nothing waits, and every step leaves lists that the pointers hold.
LEMMA InitInv == ASSUME Sound, Lists!Init PROVE Inv
<1> DEFINE q == [t \in Transport |-> << >>]
<1>1. /\ head \in [Transport -> Lists!Pointer] /\ tail \in [Transport -> Lists!Pointer]
      /\ current \in [Transport -> Lists!Pointer]
      /\ nextOf \in [LinkedFlow -> Lists!Pointer] /\ prevOf \in [LinkedFlow -> Lists!Pointer]
      /\ on \in [LinkedFlow -> Transport \cup {NoTransport}]
      /\ q \in [Transport -> Seq(LinkedFlow)]
  BY DEF Lists!Init, Lists!Pointer
<1>2. ASSUME NEW t \in Transport
      PROVE  Chain(q[t], head[t], tail[t], current[t], nextOf, prevOf, on, t)
  BY DEF Lists!Init, Chain, Distinct, First
<1>3. \A f \in LinkedFlow : nextOf[f] = NoFlow /\ prevOf[f] = NoFlow
  BY DEF Lists!Init
<1> HIDE DEF q
<1>4. Holds(q)
  BY <1>1, <1>2, <1>3 DEF Holds, Linked
<1> QED
  BY <1>4 DEF Inv

LEMMA NextInv == ASSUME Sound, Inv, [Lists!Next]_(Lists!vars) PROVE Inv'
<1>1. PICK q : Holds(q)
  BY DEF Inv
<1>2. PICK r : Implements(q, r)
  BY <1>1, StepImplements
<1>3. Linked(r, head', tail', current', nextOf', prevOf', on')
  BY <1>2 DEF Implements
<1> QED
  BY <1>3 DEF Inv, Holds

LEMMA PointersStep ==
  ASSUME [Flows \/ Pointers \/ Sinking]_<<part, vars, lists, sink>>
  PROVE  [Lists!Next]_(Lists!vars)
BY DEF Flows, Pointers, Sinking, lists, Lists!vars, Lists!cursors, Lists!links

LEMMA Invariance == ASSUME Sound PROVE MCSpec => []Inv
<1>1. MCInit => Inv
  BY InitInv DEF MCInit
<1>2. Inv /\ [Flows \/ Pointers \/ Sinking]_<<part, vars, lists, sink>> => Inv'
  BY PointersStep, NextInv
<1> QED
  BY <1>1, <1>2, PTL DEF MCSpec

\* A flow waits in the list of the transport it sends on, and in no other one.
THEOREM InOwnList == ASSUME Sound PROVE MCSpec => [](Lists!TypeOK /\ Lists!OwnList)
<1>1. Inv => Lists!TypeOK /\ Lists!OwnList
  <2>1. SUFFICES ASSUME NEW q, Holds(q) PROVE Lists!TypeOK /\ Lists!OwnList
    BY DEF Inv
  <2>2. Lists!TypeOK
    BY <2>1, HeadOfList DEF Holds, Linked, Lists!TypeOK
  <2>3. Lists!OwnList
    BY <2>1, WalkHolds, InOneList DEF Lists!OwnList, Holds
  <2> QED
    BY <2>2, <2>3
<1> QED
  BY <1>1, Invariance, PTL

\* AppendFlow, RemoveFlow, RemoveFromPendingList and the cursor, on the links of the
\* flows, do to each list what the round robin of PendingQueue says they do, however
\* many flows and transports there are.
THEOREM QueuesImplemented == ASSUME Sound PROVE MCSpec => RefinesQueues
<1> DEFINE Q == [t \in Transport |-> [list |-> Lists!Walk(t), cur |-> current[t]]]
<1>1. MCInit => Lists!Abstract!Init
  <2>1. SUFFICES ASSUME Lists!Init PROVE Lists!Abstract!Init
    BY DEF MCInit
  <2>2. ASSUME NEW t \in Transport PROVE Lists!Walk(t) = << >>
    <3>1. PICK q : Holds(q)
      BY <2>1, InitInv DEF Inv
    <3>2. head[t] = NoFlow
      BY <2>1 DEF Lists!Init
    <3> QED
      BY <3>1, <3>2, HeadOfList, WalkHolds
  <2> QED
    BY <2>1, <2>2 DEF Lists!Init, Lists!Abstract!Init, Lists!Abstract!EmptyQueue
<1>2. Inv /\ [Lists!Next]_(Lists!vars) => [Lists!Abstract!Next]_<<Q, on>>
  <2>1. SUFFICES ASSUME Inv, [Lists!Next]_(Lists!vars) PROVE [Lists!Abstract!Next]_<<Q, on>>
    OBVIOUS
  <2>2. PICK q : Holds(q)
    BY <2>1 DEF Inv
  <2>3. PICK r : Implements(q, r)
    BY <2>1, <2>2, StepImplements
  <2>4. Q = Rounds(q, current)
    BY <2>2, WalkHolds DEF Rounds
  <2>5. Q' = Rounds(r, current')
    <3>1. ASSUME NEW t \in Transport PROVE Lists!Walk(t)' = r[t]
      <4>1. WalkOf(head'[t], nextOf') = r[t]
        BY <2>3, WalkOfList DEF Implements
      <4> QED
        BY <4>1 DEF Lists!Walk, WalkOf, Lists!Cardinality, Cardinality
    <3> QED
      BY <3>1 DEF Rounds
  <2>6. \A t \in Transport : Q[t].cur = current[t]
    OBVIOUS
  <2> HIDE DEF Q
  <2>7. CASE \E f \in LinkedFlow :
               /\ on[f] # NoTransport
               /\ Q' = [Q EXCEPT ![on[f]] = Lists!Abstract!AppendFlow(@, f)]
               /\ on' = on
    BY <2>7 DEF Lists!Abstract!Next, Lists!Abstract!Wait, Q
  <2>8. CASE \E f \in LinkedFlow : \E t \in Transport :
               /\ on[f] = NoTransport /\ on' = [on EXCEPT ![f] = t] /\ Q' = Q
    BY <2>8 DEF Lists!Abstract!Next, Lists!Abstract!On, Q
  <2>9. CASE \E f \in LinkedFlow : \E t \in Transport \cup {NoTransport} :
               /\ on[f] # NoTransport
               /\ Q' = [Q EXCEPT ![on[f]] = Lists!Abstract!RemoveFlow(@, f)]
               /\ on' = [on EXCEPT ![f] = t]
    BY <2>9 DEF Lists!Abstract!Next, Lists!Abstract!Leave, Q
  <2>10. CASE \E t \in Transport :
                /\ current[t] # NoFlow
                /\ \/ Q' = [Q EXCEPT ![t] = Lists!Abstract!RemoveFromPendingList(@)]
                   \/ Q' = [Q EXCEPT ![t] = Lists!Abstract!Advance(@)]
                /\ on' = on
    BY <2>6, <2>10 DEF Lists!Abstract!Next, Lists!Abstract!Serve, Q
  <2>11. CASE Q' = Q /\ on' = on
    BY <2>11
  <2> QED
    BY <2>3, <2>4, <2>5, <2>7, <2>8, <2>9, <2>10, <2>11 DEF Implements
<1>3. [Flows \/ Pointers \/ Sinking]_<<part, vars, lists, sink>> => [Lists!Next]_(Lists!vars)
  BY PointersStep
<1> QED
  BY <1>1, <1>2, <1>3, Invariance, PTL
     DEF MCSpec, RefinesQueues, Lists!RefinesQueues, Lists!Abstract!Spec

-------------------------------------------------------------------------------
(* The stream of a sink.                                                   *)


Message == [number : Nat, length : Lengths]
Byte == [message : Message, place : Nat \ {0}]

NextNumber(n) == (n + 1) % Modulus

\* y is the byte after x.
Follows(x, y) ==
  \/ x.place < x.message.length /\ y.message = x.message /\ y.place = x.place + 1
  \/ x.place = x.message.length /\ y.place = 1 /\ y.message.number = NextNumber(x.message.number)

\* The n bytes of w are whole messages: that of the number first, and those after it up
\* to, and without, the number last.
Messages(w, n, first, last) ==
  /\ n \in Nat /\ w \in [1..n -> Byte]
  /\ n = 0 => first = last
  /\ n > 0 => /\ w[1].place = 1 /\ w[1].message.number = first
              /\ w[n].place = w[n].message.length /\ NextNumber(w[n].message.number) = last
  /\ \A i \in 1..(n - 1) : Follows(w[i], w[i + 1])

\* What is on its way: read, in the pipe p, and in the buffer b from index on.
Size(r, p, b, index) == Len(r) + Len(p) + (b.length - index)

Stream(r, p, b, index) ==
  [i \in 1..Size(r, p, b, index) |->
     IF i <= Len(r) THEN r[i]
     ELSE IF i <= Len(r) + Len(p) THEN p[i - Len(r)]
     ELSE [message |-> b, place |-> index + (i - Len(r) - Len(p))]]

StreamTyped(r, p, b, index) ==
  /\ r \in Seq(Byte) /\ p \in Seq(Byte)
  /\ b \in [number : Nat, length : Nat] /\ index \in 0..b.length
  /\ index < b.length => b \in Message

\* The source has begun a message, and knows its length, or not.
Begun(r, length) ==
  /\ length \in Nat
  /\ length = 0 => Len(r) < 2
  /\ length > 0 => 2 <= Len(r) /\ Len(r) < length /\ length = r[1].message.length

Carries(r, p, b, index, first, last) ==
  /\ StreamTyped(r, p, b, index)
  /\ Messages(Stream(r, p, b, index), Size(r, p, b, index), first, last)
  /\ first \in Nat /\ last \in Nat

SinkInv ==
  ~disturbed =>
    /\ Carries(rxBytes, pipe, buffer, msgIndex, expected, sent)
    /\ Begun(rxBytes, rxLength)
    /\ sound

-------------------------------------------------------------------------------
LEMMA LeastOf ==
  ASSUME NEW T, T \subseteq Nat, T # {}
  PROVE  \E x \in T : \A y \in T : x <= y
<1> DEFINE Less == OpToRel(<, Nat)
<1>1. IsWellFoundedOn(Less, Nat)
  BY NatLessThanWellFounded
<1>2. \A x, y \in Nat : y < x => <<y, x>> \in Less
  BY DEF OpToRel
<1> HIDE DEF Less
<1>3. PICK x \in T : \A y \in T : ~(<<y, x>> \in Less)
  BY <1>1, WFMin
<1>4. \A y \in T : x \in Nat /\ y \in Nat /\ ~(y < x)
  BY <1>2, <1>3
<1>5. \A y \in T : x <= y
  BY <1>4
<1> QED
  BY <1>3, <1>5

LEMMA NumberIs ==
  ASSUME NEW n \in Nat
  PROVE  NextNumber(n) \in Nat
BY SinkAssumption DEF NextNumber

LEMMA LengthIs ==
  ASSUME NEW l \in Lengths
  PROVE  l \in Nat /\ l >= 2
BY SinkAssumption

\* The first bytes of w are the message m.
StartsWith(w, n, m) ==
  /\ m \in Message /\ m.length \in 2..n
  /\ \A i \in 1..m.length : w[i] = [message |-> m, place |-> i]

\* The first message is whole.
LEMMA FirstWhole ==
  ASSUME NEW w, NEW n, NEW first, NEW last, Messages(w, n, first, last), n > 0
  PROVE  StartsWith(w, n, w[1].message)
<1> DEFINE m == w[1].message
           k == m.length
           T == {i \in 1..k : ~(i <= n /\ w[i] = [message |-> m, place |-> i])}
<1>1. n \in Nat /\ w[1] \in Byte /\ \A i \in 1..n : w[i] \in Byte
  BY DEF Messages
<1>2. m \in Message /\ k \in Lengths /\ w[1] = [message |-> m, place |-> 1]
  BY <1>1 DEF Messages, Byte, Message
<1> HIDE DEF m
<1>3. k \in Nat /\ k >= 2
  BY <1>2, LengthIs DEF Message
<1> HIDE DEF k
<1>4. T = {}
  <2>0. m.length = k
    BY DEF k
  <2> SUFFICES ASSUME T # {} PROVE FALSE
    OBVIOUS
  <2>1. T \subseteq Nat
    BY <1>3
  <2>2. PICK x \in T : \A y \in T : x <= y
    BY <2>1, LeastOf
  <2>3. x \in 1..k /\ x # 1
    BY <1>1, <1>2, <1>3, <2>2
  <2>4. x - 1 \in 1..k /\ x - 1 \notin T
    BY <1>3, <2>2, <2>3
  <2>5. x - 1 <= n /\ w[x - 1] = [message |-> m, place |-> x - 1]
    BY <2>4
  <2>6. x - 1 # n
    <3> SUFFICES ASSUME x - 1 = n PROVE FALSE
      OBVIOUS
    <3>1. w[n].place = w[n].message.length
      BY <1>1 DEF Messages
    <3> QED
      BY <1>3, <2>0, <2>3, <2>5, <3>1
  <2>7. x - 1 \in 1..(n - 1) /\ x \in 1..n /\ (x - 1) + 1 = x
    BY <1>1, <1>3, <2>3, <2>5, <2>6
  <2>8. Follows(w[x - 1], w[x])
    BY <2>7 DEF Messages
  <2>9. w[x].message = m /\ w[x].place = x
    BY <1>3, <2>0, <2>3, <2>5, <2>7, <2>8 DEF Follows
  <2>10. w[x] \in Byte
    BY <1>1, <2>7
  <2>11. w[x] = [message |-> m, place |-> x]
    BY <2>9, <2>10 DEF Byte
  <2> QED
    BY <2>2, <2>7, <2>11
<1>5. \A i \in 1..k : i <= n /\ w[i] = [message |-> m, place |-> i]
  BY <1>4
<1>6. k \in 2..n
  <2>1. k \in 1..k
    BY <1>3
  <2>2. k <= n
    BY <1>5, <2>1
  <2> QED
    BY <1>1, <1>3, <2>2
<1>7. StartsWith(w, n, m)
  BY <1>2, <1>5, <1>6 DEF StartsWith, k
<1> QED
  BY <1>7 DEF m

\* What is after the first message are whole messages again.
LEMMA FirstTaken ==
  ASSUME NEW w, NEW n, NEW first, NEW last, Messages(w, n, first, last), n > 0,
         NEW m, StartsWith(w, n, m)
  PROVE  Messages([i \in 1..(n - m.length) |-> w[i + m.length]], n - m.length,
                  NextNumber(first), last)
<1> DEFINE k == m.length
           n2 == n - k
           w2 == [i \in 1..n2 |-> w[i + k]]
<1>1. n \in Nat /\ k \in 2..n
  BY DEF Messages, StartsWith
<1>2. k \in Nat /\ n2 \in Nat /\ k >= 2 /\ k \in 1..n
  BY <1>1
<1>4. w[k].place = k /\ w[k].message.length = k /\ w[k].message.number = first
  <2>1. k \in 1..k /\ 1 \in 1..k
    BY <1>2
  <2>2. w[k] = [message |-> m, place |-> k] /\ w[1] = [message |-> m, place |-> 1]
    BY <2>1 DEF StartsWith
  <2>3. w[1].message.number = first
    BY DEF Messages
  <2> QED
    BY <2>2, <2>3
<1> HIDE DEF k
<1>3. w2 \in [1..n2 -> Byte]
  <2>1. \A i \in 1..n2 : i + k \in 1..n
    BY <1>1, <1>2
  <2> QED
    BY <2>1 DEF Messages
<1>5. CASE n2 = 0
  <2>1. k = n
    BY <1>1, <1>2, <1>5
  <2>2. NextNumber(first) = last
    BY <1>1, <1>4, <2>1 DEF Messages
  <2>3. 1..(n2 - 1) = {}
    BY <1>5
  <2> HIDE DEF w2, n2
  <2>4. Messages(w2, n2, NextNumber(first), last)
    BY <1>2, <1>3, <1>5, <2>2, <2>3 DEF Messages
  <2> QED
    BY <2>4 DEF w2, n2, k
<1>6. CASE n2 > 0
  <2>1. k \in 1..(n - 1) /\ 1 + k \in 1..n /\ k + 1 = 1 + k /\ 1 \in 1..n2 /\ n2 \in 1..n2 /\ n2 + k = n
    BY <1>1, <1>2, <1>6
  <2>2. Follows(w[k], w[k + 1])
    BY <2>1 DEF Messages
  <2>3. w[k + 1].place = 1 /\ w[k + 1].message.number = NextNumber(first)
    BY <1>2, <1>4, <2>2 DEF Follows
  <2>4. w2[1] = w[k + 1] /\ w2[n2] = w[n]
    BY <2>1
  <2>5. w[n].place = w[n].message.length /\ NextNumber(w[n].message.number) = last
    BY <1>2 DEF Messages
  <2>6. ASSUME NEW i \in 1..(n2 - 1) PROVE Follows(w2[i], w2[i + 1])
    <3>1. i + k \in 1..(n - 1) /\ (i + k) + 1 = (i + 1) + k /\ i \in 1..n2 /\ i + 1 \in 1..n2
      BY <1>1, <1>2
    <3>2. Follows(w[i + k], w[(i + k) + 1])
      BY <3>1 DEF Messages
    <3>3. w2[i] = w[i + k] /\ w2[i + 1] = w[(i + k) + 1]
      BY <3>1
    <3> HIDE DEF w2
    <3> QED
      BY <3>2, <3>3
  <2> HIDE DEF w2, n2
  <2>7. Messages(w2, n2, NextNumber(first), last)
    BY <1>2, <1>3, <1>6, <2>3, <2>4, <2>5, <2>6 DEF Messages
  <2> QED
    BY <2>7 DEF w2, n2, k
<1> QED
  BY <1>2, <1>5, <1>6

\* A message that is put after whole messages.
Added(w, n, m) ==
  [i \in 1..(n + m.length) |-> IF i <= n THEN w[i] ELSE [message |-> m, place |-> i - n]]

LEMMA MessageAdded ==
  ASSUME NEW w, NEW n, NEW first, NEW last, Messages(w, n, first, last),
         NEW m \in Message, m.number = last
  PROVE  Messages(Added(w, n, m), n + m.length, first, NextNumber(last))
<1> DEFINE k == m.length
           n2 == n + k
           w2 == Added(w, n, m)
<1>1. n \in Nat /\ k \in Nat /\ k >= 2 /\ n2 \in Nat /\ n2 > 0
  <2>1. n \in Nat /\ m.length \in Lengths
    BY DEF Messages, Message
  <2>2. m.length \in Nat /\ m.length >= 2
    BY <2>1, LengthIs
  <2> QED
    BY <2>1, <2>2
<1>2. \A i \in 1..n2 : w2[i] = IF i <= n THEN w[i] ELSE [message |-> m, place |-> i - n]
  BY DEF Added
<1>3. w2 \in [1..n2 -> Byte]
  <2>1. ASSUME NEW i \in 1..n2 PROVE w2[i] \in Byte
    <3>1. CASE i <= n
      <4>1. i \in 1..n
        BY <1>1, <3>1
      <4>2. w2[i] = w[i]
        BY <1>2, <3>1
      <4> HIDE DEF w2
      <4> QED
        BY <4>1, <4>2 DEF Messages
    <3>2. CASE ~(i <= n)
      <4>1. i - n \in Nat \ {0}
        BY <1>1, <3>2
      <4>2. w2[i] = [message |-> m, place |-> i - n]
        BY <1>2, <3>2
      <4> HIDE DEF w2
      <4> QED
        BY <4>1, <4>2 DEF Byte
    <3> QED
      BY <3>1, <3>2
  <2>2. w2 = [i \in 1..n2 |-> w2[i]]
    BY DEF Added
  <2> HIDE DEF w2, n2
  <2> QED
    BY <2>1, <2>2
<1>4. w2[n2].place = w2[n2].message.length /\ NextNumber(w2[n2].message.number) = NextNumber(last)
  <2>1. n2 \in 1..n2 /\ ~(n2 <= n) /\ n2 - n = k
    BY <1>1
  <2>2. w2[n2] = [message |-> m, place |-> k]
    BY <1>2, <2>1
  <2> HIDE DEF w2, n2
  <2> QED
    BY <2>2
<1>5. w2[1].place = 1 /\ w2[1].message.number = first
  <2>0. 1 \in 1..n2
    BY <1>1
  <2>1. CASE n = 0
    <3>1. w2[1] = [message |-> m, place |-> 1]
      BY <1>2, <2>0, <2>1
    <3>2. first = last
      BY <2>1 DEF Messages
    <3> HIDE DEF w2
    <3> QED
      BY <3>1, <3>2
  <2>2. CASE n # 0
    <3>0. 1 <= n /\ n > 0
      BY <1>1, <2>2
    <3>1. w2[1] = w[1] /\ n > 0
      BY <1>2, <2>0, <3>0
    <3> HIDE DEF w2
    <3> QED
      BY <3>1 DEF Messages
  <2> QED
    BY <2>1, <2>2
<1>6. ASSUME NEW i \in 1..(n2 - 1) PROVE Follows(w2[i], w2[i + 1])
  <2>0. i \in 1..n2 /\ i + 1 \in 1..n2
    BY <1>1
  <2>1. CASE i + 1 <= n
    <3>1. i \in 1..(n - 1) /\ i <= n
      BY <1>1, <2>1
    <3>2. w2[i] = w[i] /\ w2[i + 1] = w[i + 1]
      BY <1>2, <2>0, <2>1, <3>1
    <3>3. Follows(w[i], w[i + 1])
      BY <3>1 DEF Messages
    <3> HIDE DEF w2
    <3> QED
      BY <3>2, <3>3
  <2>2. CASE i = n
    <3>1. ~(i + 1 <= n) /\ (i + 1) - n = 1 /\ n > 0 /\ i <= n
      BY <1>1, <2>2
    <3>2. w2[i] = w[n] /\ w2[i + 1] = [message |-> m, place |-> 1]
      BY <1>2, <2>0, <2>2, <3>1
    <3>3. w[n].place = w[n].message.length /\ NextNumber(w[n].message.number) = last
      BY <3>1 DEF Messages
    <3> HIDE DEF w2
    <3> QED
      BY <3>2, <3>3 DEF Follows
  <2>3. CASE i > n
    <3>1. /\ ~(i <= n) /\ ~(i + 1 <= n) /\ i - n < k /\ (i + 1) - n = (i - n) + 1
      BY <1>1, <2>3
    <3>2. w2[i] = [message |-> m, place |-> i - n] /\ w2[i + 1] = [message |-> m, place |-> (i - n) + 1]
      BY <1>2, <2>0, <3>1
    <3> HIDE DEF w2
    <3> QED
      BY <3>1, <3>2 DEF Follows
  <2> QED
    BY <1>1, <2>1, <2>2, <2>3
<1> HIDE DEF w2, n2
<1>7. Messages(w2, n2, first, NextNumber(last))
  BY <1>1, <1>3, <1>4, <1>5, <1>6 DEF Messages
<1> QED
  BY <1>7 DEF w2, n2
-------------------------------------------------------------------------------
\* What is on its way depends on its bytes alone, not on where they are.
LEMMA SameCarried ==
  ASSUME NEW r, NEW p, NEW b, NEW index, NEW r2, NEW p2, NEW b2, NEW index2, NEW first, NEW last,
         Carries(r, p, b, index, first, last), StreamTyped(r2, p2, b2, index2),
         Size(r2, p2, b2, index2) = Size(r, p, b, index),
         \A i \in 1..Size(r, p, b, index) : Stream(r2, p2, b2, index2)[i] = Stream(r, p, b, index)[i]
  PROVE  Carries(r2, p2, b2, index2, first, last)
<1> DEFINE w == Stream(r, p, b, index)
           w2 == Stream(r2, p2, b2, index2)
           n == Size(r, p, b, index)
           n2 == Size(r2, p2, b2, index2)
<1>1. w2 = w
  <2>1. w = [i \in 1..n |-> w[i]]
    BY DEF Stream
  <2>2. w2 = [i \in 1..n2 |-> w2[i]]
    BY DEF Stream
  <2>3. n2 = n /\ \A i \in 1..n : w2[i] = w[i]
    OBVIOUS
  <2> HIDE DEF w, w2, n, n2
  <2> QED
    BY <2>1, <2>2, <2>3
<1>2. n2 = n
  OBVIOUS
<1> HIDE DEF w, w2, n, n2
<1> QED
  BY <1>1, <1>2 DEF Carries, w, w2, n, n2

\* Open empties a buffer that has nothing to write.
LEMMA OpenCarries ==
  ASSUME NEW r, NEW p, NEW b, NEW index, NEW first, NEW last,
         Carries(r, p, b, index, first, last), ~(index < b.length)
  PROVE  Carries(r, p, Sink!NoMessage, 0, first, last)
<1>1. Len(r) \in Nat /\ Len(p) \in Nat /\ b.length \in Nat /\ index \in Nat /\ index = b.length
  BY LenProperties DEF Carries, StreamTyped
<1>2. Sink!NoMessage.length = 0 /\ Sink!NoMessage \in [number : Nat, length : Nat]
  BY DEF Sink!NoMessage
<1>3. StreamTyped(r, p, Sink!NoMessage, 0)
  BY <1>2 DEF Carries, StreamTyped
<1>4. Size(r, p, Sink!NoMessage, 0) = Size(r, p, b, index)
  BY <1>1, <1>2 DEF Size
<1>5. Size(r, p, b, index) = Len(r) + Len(p)
  BY <1>1 DEF Size
<1>6. \A i \in 1..Size(r, p, b, index) : Stream(r, p, Sink!NoMessage, 0)[i] = Stream(r, p, b, index)[i]
  BY <1>1, <1>4, <1>5 DEF Stream
<1> QED
  BY <1>3, <1>4, <1>6, SameCarried

\* A write moves bytes from the buffer to the pipe.
LEMMA PutCarries ==
  ASSUME NEW r, NEW p, NEW b, NEW index, NEW first, NEW last,
         Carries(r, p, b, index, first, last), NEW put \in Nat, put <= b.length - index
  PROVE  Carries(r, p \o Sink!Bytes(b, index + 1, index + put), b, index + put, first, last)
<1> DEFINE more == Sink!Bytes(b, index + 1, index + put)
           p2 == p \o more
           index2 == index + put
           n == Size(r, p, b, index)
<1>1. /\ Len(r) \in Nat /\ Len(p) \in Nat /\ b.length \in Nat /\ index \in Nat
      /\ index2 \in 0..b.length /\ r \in Seq(Byte) /\ p \in Seq(Byte)
  BY LenProperties DEF Carries, StreamTyped
<1>2. more = [i \in 1..put |-> [message |-> b, place |-> index + i]]
  <2>1. (index + put) - (index + 1) + 1 = put /\ \A i \in 1..put : (index + 1) + i - 1 = index + i
    BY <1>1
  <2>2. more = [i \in 1..put |-> [message |-> b, place |-> (index + 1) + i - 1]]
    BY <2>1 DEF Sink!Bytes
  <2> HIDE DEF more
  <2> QED
    BY <2>1, <2>2
<1> HIDE DEF more
<1>3. /\ more \in Seq(Byte) /\ Len(more) = put
      /\ \A i \in 1..put : more[i] = [message |-> b, place |-> index + i]
  <2>1. ASSUME NEW i \in 1..put PROVE [message |-> b, place |-> index + i] \in Byte
    <3>1. b \in Message /\ index + i \in Nat \ {0}
      BY <1>1 DEF Carries, StreamTyped
    <3> QED
      BY <3>1 DEF Byte
  <2>2. more \in [1..put -> Byte]
    BY <1>2, <2>1
  <2>3. more \in Seq(Byte) /\ Len(more) = put
    BY <2>2
  <2> QED
    BY <1>2, <2>3
<1>4. /\ p2 \in Seq(Byte) /\ Len(p2) = Len(p) + put
      /\ \A i \in 1..(Len(p) + put) : p2[i] = IF i <= Len(p) THEN p[i] ELSE more[i - Len(p)]
  BY <1>1, <1>3, ConcatProperties
<1> HIDE DEF p2
<1>5. StreamTyped(r, p2, b, index2)
  <2>1. index2 < b.length => index < b.length
    BY <1>1
  <2> QED
    BY <1>1, <1>4, <2>1 DEF Carries, StreamTyped
<1>6. Size(r, p2, b, index2) = n
  BY <1>1, <1>4 DEF Size
<1>7. ASSUME NEW i \in 1..n PROVE Stream(r, p2, b, index2)[i] = Stream(r, p, b, index)[i]
  <2>1. i \in Nat /\ i >= 1 /\ n = Len(r) + Len(p) + (b.length - index)
    BY <1>1 DEF Size
  <2>2. Stream(r, p, b, index)[i] =
          IF i <= Len(r) THEN r[i]
          ELSE IF i <= Len(r) + Len(p) THEN p[i - Len(r)]
          ELSE [message |-> b, place |-> index + (i - Len(r) - Len(p))]
    BY DEF Stream
  <2>3. Stream(r, p2, b, index2)[i] =
          IF i <= Len(r) THEN r[i]
          ELSE IF i <= Len(r) + Len(p2) THEN p2[i - Len(r)]
          ELSE [message |-> b, place |-> index2 + (i - Len(r) - Len(p2))]
    BY <1>6 DEF Stream
  <2> HIDE DEF n, index2
  <2>4. CASE i <= Len(r)
    BY <2>2, <2>3, <2>4
  <2>5. CASE ~(i <= Len(r)) /\ i <= Len(r) + Len(p)
    <3>1. i <= Len(r) + Len(p2) /\ i - Len(r) \in 1..(Len(p) + put) /\ i - Len(r) <= Len(p)
      BY <1>1, <1>4, <2>1, <2>5
    <3> QED
      BY <1>4, <2>2, <2>3, <2>5, <3>1
  <2>6. CASE ~(i <= Len(r) + Len(p)) /\ i <= Len(r) + Len(p2)
    <3>1. /\ i - Len(r) \in 1..(Len(p) + put) /\ ~(i - Len(r) <= Len(p)) /\ ~(i <= Len(r))
          /\ i - Len(r) - Len(p) \in 1..put
      BY <1>1, <1>4, <2>1, <2>6
    <3>2. p2[i - Len(r)] = [message |-> b, place |-> index + (i - Len(r) - Len(p))]
      BY <1>3, <1>4, <3>1
    <3> QED
      BY <2>2, <2>3, <2>6, <3>1, <3>2
  <2>7. CASE ~(i <= Len(r) + Len(p2))
    <3>1. /\ ~(i <= Len(r) + Len(p)) /\ ~(i <= Len(r))
          /\ index2 + (i - Len(r) - Len(p2)) = index + (i - Len(r) - Len(p))
      BY <1>1, <1>4, <2>1, <2>7 DEF index2
    <3> QED
      BY <2>2, <2>3, <2>7, <3>1
  <2> QED
    BY <2>4, <2>5, <2>6, <2>7
<1> HIDE DEF index2, n
<1>8. Carries(r, p2, b, index2, first, last)
  BY <1>5, <1>6, <1>7, SameCarried DEF n
<1> QED
  BY <1>8 DEF p2, more, index2
\* A message that the sink takes comes after what is on its way.
LEMMA TakenCarries ==
  ASSUME NEW r, NEW p, NEW b, NEW index, NEW first, NEW last,
         Carries(r, p, b, index, first, last), ~(index < b.length),
         NEW m \in Message, m.number = last
  PROVE  Carries(r, p, m, 0, first, NextNumber(last))
<1> DEFINE w == Stream(r, p, b, index)
           n == Len(r) + Len(p)
<1>1. /\ Len(r) \in Nat /\ Len(p) \in Nat /\ b.length \in Nat /\ index \in Nat /\ index = b.length
      /\ n \in Nat /\ first \in Nat /\ last \in Nat
  BY LenProperties DEF Carries, StreamTyped
<1>2. m.length \in Nat /\ m.length >= 2 /\ m.number \in Nat
  <2>1. m.length \in Lengths /\ m.number \in Nat
    BY DEF Message
  <2> QED
    BY <2>1, LengthIs
<1>3. StreamTyped(r, p, m, 0)
  <2>1. m \in [number : Nat, length : Nat] /\ 0 \in 0..m.length
    BY <1>2 DEF Message
  <2> QED
    BY <2>1 DEF Carries, StreamTyped
<1>4. Size(r, p, b, index) = n /\ Size(r, p, m, 0) = n + m.length
  BY <1>1, <1>2 DEF Size
<1>5. Messages(w, n, first, last)
  BY <1>4 DEF Carries
<1>6. \A i \in 1..n : w[i] = IF i <= Len(r) THEN r[i] ELSE p[i - Len(r)]
  <2>1. \A i \in 1..n : w[i] = IF i <= Len(r) THEN r[i]
                               ELSE IF i <= Len(r) + Len(p) THEN p[i - Len(r)]
                               ELSE [message |-> b, place |-> index + (i - Len(r) - Len(p))]
    BY <1>4 DEF Stream
  <2>2. \A i \in 1..n : i <= Len(r) + Len(p)
    BY <1>1
  <2> HIDE DEF w, n
  <2> QED
    BY <2>1, <2>2
<1> HIDE DEF w
<1>7. Stream(r, p, m, 0) = Added(w, n, m)
  <2> DEFINE n2 == n + m.length
  <2>1. Stream(r, p, m, 0) =
          [i \in 1..n2 |->
             IF i <= Len(r) THEN r[i]
             ELSE IF i <= Len(r) + Len(p) THEN p[i - Len(r)]
             ELSE [message |-> m, place |-> 0 + (i - Len(r) - Len(p))]]
    BY <1>4 DEF Stream
  <2>2. Added(w, n, m) = [i \in 1..n2 |-> IF i <= n THEN w[i] ELSE [message |-> m, place |-> i - n]]
    BY DEF Added
  <2>3. ASSUME NEW i \in 1..n2
        PROVE  (IF i <= Len(r) THEN r[i]
                ELSE IF i <= Len(r) + Len(p) THEN p[i - Len(r)]
                ELSE [message |-> m, place |-> 0 + (i - Len(r) - Len(p))]) =
               IF i <= n THEN w[i] ELSE [message |-> m, place |-> i - n]
    <3>1. CASE i <= n
      <4>1. i \in 1..n
        BY <1>1, <1>2, <3>1
      <4> QED
        BY <1>1, <1>6, <3>1, <4>1
    <3>2. CASE ~(i <= n)
      <4>1. ~(i <= Len(r)) /\ 0 + (i - Len(r) - Len(p)) = i - n
        BY <1>1, <1>2, <3>2
      <4> QED
        BY <3>2, <4>1
    <3> QED
      BY <3>1, <3>2
  <2> HIDE DEF n2, n
  <2> QED
    BY <2>1, <2>2, <2>3
<1> HIDE DEF n
<1>8. Messages(Added(w, n, m), n + m.length, first, NextNumber(last))
  BY <1>5, MessageAdded
<1>9. NextNumber(last) \in Nat
  BY <1>1, NumberIs
<1> QED
  BY <1>1, <1>3, <1>4, <1>7, <1>8, <1>9 DEF Carries

\* A read moves bytes from the pipe to the source.
LEMMA ReadCarries ==
  ASSUME NEW r, NEW p, NEW b, NEW index, NEW first, NEW last,
         Carries(r, p, b, index, first, last), NEW k \in 0..Len(p)
  PROVE  /\ Carries(r \o SubSeq(p, 1, k), SubSeq(p, k + 1, Len(p)), b, index, first, last)
         /\ Len(r \o SubSeq(p, 1, k)) = Len(r) + k
         /\ Len(SubSeq(p, 1, k)) = k
         /\ \A i \in 1..Len(r) : (r \o SubSeq(p, 1, k))[i] = r[i]
<1> DEFINE more == SubSeq(p, 1, k)
           p2 == SubSeq(p, k + 1, Len(p))
           r2 == r \o more
           n == Size(r, p, b, index)
<1>1. /\ Len(r) \in Nat /\ Len(p) \in Nat /\ k \in Nat /\ k <= Len(p) /\ b.length \in Nat /\ index \in Nat
      /\ index <= b.length
      /\ r \in Seq(Byte) /\ p \in Seq(Byte) /\ \A i \in 1..Len(p) : p[i] \in Byte
  BY LenProperties DEF Carries, StreamTyped
<1>2. more \in Seq(Byte) /\ Len(more) = k /\ \A i \in 1..k : more[i] = p[i]
  <2>1. \A i \in 1..k : p[i] \in Byte
    BY <1>1
  <2>2. /\ more \in Seq(Byte) /\ Len(more) = (IF 1 <= k THEN k - 1 + 1 ELSE 0)
        /\ \A i \in 1..(k - 1 + 1) : more[i] = p[1 + i - 1]
    BY <1>1, <2>1, SubSeqProperties
  <2> HIDE DEF more
  <2> QED
    BY <1>1, <2>2
<1>3. p2 \in Seq(Byte) /\ Len(p2) = Len(p) - k /\ \A i \in 1..(Len(p) - k) : p2[i] = p[k + i]
  <2>1. \A i \in (k + 1)..Len(p) : p[i] \in Byte
    BY <1>1
  <2>2. /\ p2 \in Seq(Byte) /\ Len(p2) = (IF k + 1 <= Len(p) THEN Len(p) - (k + 1) + 1 ELSE 0)
        /\ \A i \in 1..(Len(p) - (k + 1) + 1) : p2[i] = p[(k + 1) + i - 1]
    BY <1>1, <2>1, SubSeqProperties
  <2> HIDE DEF p2
  <2> QED
    BY <1>1, <2>2
<1> HIDE DEF more, p2
<1>4. /\ r2 \in Seq(Byte) /\ Len(r2) = Len(r) + k
      /\ \A i \in 1..(Len(r) + k) : r2[i] = IF i <= Len(r) THEN r[i] ELSE more[i - Len(r)]
  BY <1>1, <1>2, ConcatProperties
<1> HIDE DEF r2
<1>5. StreamTyped(r2, p2, b, index)
  BY <1>3, <1>4 DEF Carries, StreamTyped
<1>6. Size(r2, p2, b, index) = n
  BY <1>1, <1>3, <1>4 DEF Size
<1>7. ASSUME NEW i \in 1..n PROVE Stream(r2, p2, b, index)[i] = Stream(r, p, b, index)[i]
  <2>1. i \in Nat /\ i >= 1 /\ n = Len(r) + Len(p) + (b.length - index)
    BY <1>1 DEF Size
  <2>2. Stream(r, p, b, index)[i] =
          IF i <= Len(r) THEN r[i]
          ELSE IF i <= Len(r) + Len(p) THEN p[i - Len(r)]
          ELSE [message |-> b, place |-> index + (i - Len(r) - Len(p))]
    BY DEF Stream
  <2>3. Stream(r2, p2, b, index)[i] =
          IF i <= Len(r2) THEN r2[i]
          ELSE IF i <= Len(r2) + Len(p2) THEN p2[i - Len(r2)]
          ELSE [message |-> b, place |-> index + (i - Len(r2) - Len(p2))]
    BY <1>6 DEF Stream
  <2> HIDE DEF n
  <2>4. CASE i <= Len(r)
    <3>1. i \in 1..(Len(r) + k) /\ i <= Len(r2)
      BY <1>1, <1>4, <2>1, <2>4
    <3> QED
      BY <1>4, <2>2, <2>3, <2>4, <3>1
  <2>5. CASE ~(i <= Len(r)) /\ i <= Len(r) + k
    <3>1. i \in 1..(Len(r) + k) /\ i <= Len(r2) /\ i - Len(r) \in 1..k /\ i <= Len(r) + Len(p)
      BY <1>1, <1>4, <2>1, <2>5
    <3> QED
      BY <1>2, <1>4, <2>2, <2>3, <2>5, <3>1
  <2>6. CASE ~(i <= Len(r) + k) /\ i <= Len(r) + Len(p)
    <3>1. /\ i - Len(r2) \in 1..(Len(p) - k) /\ ~(i <= Len(r2)) /\ i <= Len(r2) + Len(p2)
          /\ k + (i - Len(r2)) = i - Len(r) /\ ~(i <= Len(r))
      BY <1>1, <1>3, <1>4, <2>1, <2>6
    <3>2. p2[i - Len(r2)] = p[i - Len(r)]
      BY <1>3, <3>1
    <3> QED
      BY <2>2, <2>3, <2>6, <3>1, <3>2
  <2>7. CASE ~(i <= Len(r) + Len(p))
    <3>1. /\ ~(i <= Len(r2)) /\ ~(i <= Len(r2) + Len(p2)) /\ ~(i <= Len(r))
          /\ i - Len(r2) - Len(p2) = i - Len(r) - Len(p)
      BY <1>1, <1>3, <1>4, <2>1, <2>7
    <3> QED
      BY <2>2, <2>3, <2>7, <3>1
  <2> QED
    BY <2>4, <2>5, <2>6, <2>7
<1> HIDE DEF n
<1>8. Carries(r2, p2, b, index, first, last)
  BY <1>5, <1>6, <1>7, SameCarried DEF n
<1>9. \A i \in 1..Len(r) : r2[i] = r[i]
  <2>1. \A i \in 1..Len(r) : i \in 1..(Len(r) + k) /\ i <= Len(r)
    BY <1>1
  <2> QED
    BY <1>4, <2>1
<1> QED
  BY <1>2, <1>4, <1>8, <1>9 DEF r2, more, p2

\* A message that the source has as many bytes of as it is long is whole, and the one
\* expected.
LEMMA CompleteCarries ==
  ASSUME NEW r, NEW p, NEW b, NEW index, NEW first, NEW last,
         Carries(r, p, b, index, first, last), Len(r) > 0, Len(r) = r[1].message.length
  PROVE  /\ Sink!Whole(r) /\ r[1].message.number = first
         /\ Carries(<< >>, p, b, index, NextNumber(first), last)
<1> DEFINE w == Stream(r, p, b, index)
           n == Size(r, p, b, index)
           k == Len(r)
           m == r[1].message
<1>1. /\ k \in Nat /\ Len(p) \in Nat /\ b.length \in Nat /\ index \in Nat
      /\ index <= b.length /\ r \in Seq(Byte)
      /\ n = k + Len(p) + (b.length - index) /\ n \in Nat /\ n >= k /\ n > 0
  BY LenProperties DEF Carries, StreamTyped, Size
<1>2. \A i \in 1..n : w[i] = IF i <= k THEN r[i]
                             ELSE IF i <= k + Len(p) THEN p[i - k]
                             ELSE [message |-> b, place |-> index + (i - k - Len(p))]
  BY DEF Stream
<1>3. Messages(w, n, first, last)
  BY DEF Carries
<1> HIDE DEF w, n
<1>4. StartsWith(w, n, w[1].message) /\ w[1].message.number = first
  BY <1>1, <1>3, FirstWhole DEF Messages
<1>5. w[1] = r[1]
  <2>1. 1 \in 1..n /\ 1 <= k
    BY <1>1
  <2> QED
    BY <1>2, <2>1
<1>6. StartsWith(w, n, m) /\ m.number = first /\ m.length = k
  BY <1>4, <1>5
<1>7. Messages([i \in 1..(n - m.length) |-> w[i + m.length]], n - m.length, NextNumber(first), last)
  BY <1>1, <1>3, <1>6, FirstTaken
<1> HIDE DEF m
<1>8. r = Sink!Bytes(m, 1, m.length)
  <2>1. \A i \in 1..k : r[i] = [message |-> m, place |-> i]
    <3>1. \A i \in 1..k : i \in 1..n /\ i <= k
      BY <1>1
    <3>2. \A i \in 1..k : w[i] = [message |-> m, place |-> i]
      BY <1>6 DEF StartsWith
    <3> QED
      BY <1>2, <3>1, <3>2
  <2>2. Sink!Bytes(m, 1, m.length) = [i \in 1..(k - 1 + 1) |-> [message |-> m, place |-> 1 + i - 1]]
    BY <1>6 DEF Sink!Bytes
  <2>3. k - 1 + 1 = k /\ \A i \in 1..k : 1 + i - 1 = i
    BY <1>1
  <2>4. Sink!Bytes(m, 1, m.length) = [i \in 1..k |-> [message |-> m, place |-> i]]
    <3> HIDE DEF k
    <3> QED
      BY <2>2, <2>3
  <2>5. r = [i \in 1..k |-> r[i]]
    BY <1>1
  <2> HIDE DEF k
  <2> QED
    BY <2>1, <2>4, <2>5
<1>9. Sink!Whole(r)
  BY <1>8 DEF Sink!Whole, m
<1> DEFINE n2 == n - k
           w2 == [i \in 1..n2 |-> w[i + k]]
<1>10. Messages(w2, n2, NextNumber(first), last)
  BY <1>6, <1>7
<1>11. Size(<< >>, p, b, index) = n2 /\ Len(<< >>) = 0
  BY <1>1, EmptySeq DEF Size
<1>12. Stream(<< >>, p, b, index) = w2
  <2>1. Stream(<< >>, p, b, index) =
          [i \in 1..n2 |-> IF i <= 0 THEN << >>[i]
                           ELSE IF i <= 0 + Len(p) THEN p[i - 0]
                           ELSE [message |-> b, place |-> index + (i - 0 - Len(p))]]
    BY <1>11 DEF Stream
  <2>2. ASSUME NEW i \in 1..n2
        PROVE (IF i <= 0 THEN << >>[i]
               ELSE IF i <= 0 + Len(p) THEN p[i - 0]
               ELSE [message |-> b, place |-> index + (i - 0 - Len(p))]) = w[i + k]
    <3>1. /\ i \in Nat /\ ~(i <= 0) /\ i + k \in 1..n /\ ~(i + k <= k)
          /\ (i + k <= k + Len(p)) <=> (i <= 0 + Len(p))
          /\ (i + k) - k = i - 0 /\ (i + k) - k - Len(p) = i - 0 - Len(p)
      <4> DEFINE q == Len(p)
      <4>1. i \in Nat /\ i >= 1 /\ i <= n2 /\ n2 = n - k /\ q \in Nat
        BY <1>1
      <4> HIDE DEF k, n2, q
      <4>2. k \in Nat /\ n \in Nat
        BY <1>1
      <4>3. /\ i \in Nat /\ ~(i <= 0) /\ i + k \in 1..n /\ ~(i + k <= k)
            /\ (i + k <= k + q) <=> (i <= 0 + q)
            /\ (i + k) - k = i - 0 /\ (i + k) - k - q = i - 0 - q
        BY <4>1, <4>2
      <4> QED
        BY <4>3 DEF q
    <3>2. w[i + k] = IF i + k <= k + Len(p) THEN p[(i + k) - k]
                     ELSE [message |-> b, place |-> index + ((i + k) - k - Len(p))]
      BY <1>2, <3>1
    <3> HIDE DEF k, n2
    <3> QED
      BY <3>1, <3>2
  <2> HIDE DEF n2, k
  <2> QED
    BY <2>1, <2>2
<1>13. StreamTyped(<< >>, p, b, index)
  BY DEF Carries, StreamTyped
<1>14. NextNumber(first) \in Nat /\ last \in Nat
  BY NumberIs DEF Carries
<1> HIDE DEF w2, n2
<1>15. Carries(<< >>, p, b, index, NextNumber(first), last)
  BY <1>10, <1>11, <1>12, <1>13, <1>14 DEF Carries
<1> QED
  BY <1>6, <1>9, <1>15 DEF m
-------------------------------------------------------------------------------
(* The steps.                                                              *)

LEMMA SinkStarts ==
  ASSUME Sink!Init
  PROVE  SinkInv
<1> DEFINE r == << >>
<1>1. Len(r) = 0 /\ r \in Seq(Byte)
  BY EmptySeq
<1>2. Sink!NoMessage \in [number : Nat, length : Nat] /\ Sink!NoMessage.length = 0
  BY DEF Sink!NoMessage
<1>3. /\ rxBytes = r /\ pipe = r /\ buffer = Sink!NoMessage /\ msgIndex = 0
      /\ expected = 0 /\ sent = 0 /\ rxLength = 0 /\ sound
  BY DEF Sink!Init
<1> HIDE DEF r
<1>4. StreamTyped(r, r, Sink!NoMessage, 0)
  BY <1>1, <1>2 DEF StreamTyped
<1>5. Size(r, r, Sink!NoMessage, 0) = 0
  BY <1>1, <1>2 DEF Size
<1>6. Messages(Stream(r, r, Sink!NoMessage, 0), 0, 0, 0)
  <2> DEFINE w == Stream(r, r, Sink!NoMessage, 0)
  <2>1. w \in [1..0 -> Byte]
    <3>1. 1..0 = {}
      OBVIOUS
    <3> QED
      BY <1>5, <3>1 DEF Stream
  <2>2. 1..(0 - 1) = {}
    OBVIOUS
  <2> HIDE DEF w
  <2>3. Messages(w, 0, 0, 0)
    BY <2>1, <2>2 DEF Messages
  <2> QED
    BY <2>3 DEF w
<1>7. Carries(r, r, Sink!NoMessage, 0, 0, 0)
  BY <1>4, <1>5, <1>6 DEF Carries
<1>8. Begun(r, 0)
  BY <1>1 DEF Begun
<1> QED
  BY <1>3, <1>7, <1>8 DEF SinkInv

\* Nothing that the stream is made of.
streamVars == <<buffer, msgIndex, pipe, rxLength, rxBytes, expected, sound, sent>>

LEMMA StreamStays ==
  ASSUME SinkInv, ~disturbed, UNCHANGED streamVars
  PROVE  SinkInv'
<1>1. /\ Carries(rxBytes, pipe, buffer, msgIndex, expected, sent)
      /\ Begun(rxBytes, rxLength) /\ sound
  BY DEF SinkInv
<1> QED
  BY <1>1 DEF SinkInv, streamVars

LEMMA OpenKeeps ==
  ASSUME SinkInv, ~disturbed, Sink!Open, disturbed' = (disturbed \/ Sink!Busy),
         UNCHANGED <<sent, pipe, Sink!sourceVars>>
  PROVE  SinkInv'
<1>1. CASE Sink!Busy
  BY <1>1 DEF SinkInv
<1>2. CASE ~Sink!Busy
  <2>1. /\ Carries(rxBytes, pipe, buffer, msgIndex, expected, sent)
        /\ Begun(rxBytes, rxLength) /\ sound
    BY DEF SinkInv
  <2>2. Carries(rxBytes, pipe, Sink!NoMessage, 0, expected, sent)
    BY <1>2, <2>1, OpenCarries DEF Sink!Busy
  <2> QED
    BY <2>1, <2>2 DEF SinkInv, Sink!Open, Sink!sourceVars
<1> QED
  BY <1>1, <1>2

LEMMA WriteKeeps ==
  ASSUME NEW m, NEW index, NEW last, NEW put \in 0..MaxSize,
         Carries(rxBytes, pipe, m, index, expected, last), Begun(rxBytes, rxLength), sound,
         Sink!Write(m, index, put, TRUE), buffer' = m, sent' = last, UNCHANGED Sink!sourceVars
  PROVE  SinkInv'
<1>1. put \in Nat
  BY SinkAssumption
<1>2. m.length - index \in Int /\ PipeSize - Len(pipe) \in Int
  BY LenProperties, SinkAssumption DEF Carries, StreamTyped
<1>3. put <= m.length - index
  BY <1>1, <1>2 DEF Sink!Write, Sink!Min2
<1>4. Carries(rxBytes, pipe \o Sink!Bytes(m, index + 1, index + put), m, index + put, expected, last)
  BY <1>1, <1>3, PutCarries
<1> QED
  BY <1>4 DEF Sink!Write, SinkInv, Sink!sourceVars

LEMMA TakenKeeps ==
  ASSUME SinkInv, ~disturbed, NEW length \in Lengths, NEW put \in 0..MaxSize, NEW pending,
         NEW timer, Sink!SendTaken(length, put, pending, timer), UNCHANGED Sink!sourceVars
  PROVE  SinkInv'
<1> DEFINE m == [number |-> sent, length |-> length]
<1>1. /\ Carries(rxBytes, pipe, buffer, msgIndex, expected, sent)
      /\ Begun(rxBytes, rxLength) /\ sound
  BY DEF SinkInv
<1>2. m \in Message /\ m.number = sent
  BY <1>1 DEF Carries, Message
<1>3. /\ ~(msgIndex < buffer.length) /\ buffer' = m /\ Sink!Write(m, 0, put, TRUE)
      /\ sent' = NextNumber(sent)
  BY DEF Sink!SendTaken, Sink!Busy, NextNumber
<1> HIDE DEF m
<1>4. Carries(rxBytes, pipe, m, 0, expected, NextNumber(sent))
  BY <1>1, <1>2, <1>3, TakenCarries
<1> QED
  BY <1>1, <1>3, <1>4, WriteKeeps

LEMMA BusyKeeps ==
  ASSUME SinkInv, ~disturbed, Sink!SendBusy, UNCHANGED Sink!sourceVars
  PROVE  SinkInv'
BY StreamStays DEF Sink!SendBusy, Sink!sourceVars, streamVars

LEMMA FilledKeeps ==
  ASSUME NEW bytes, NEW length, NEW from,
         Carries(bytes, from, buffer, msgIndex, expected, sent), sound,
         2 <= Len(bytes), Len(bytes) <= length, length = bytes[1].message.length, length \in Nat,
         Sink!Filled(bytes, length, from), UNCHANGED <<Sink!sinkVars, sent>>
  PROVE  SinkInv'
<1> DEFINE k == Sink!Min2(length - Len(bytes), Len(from))
           more == SubSeq(from, 1, k)
           all == bytes \o more
           rest == SubSeq(from, k + 1, Len(from))
<1>1. /\ Len(bytes) \in Nat /\ Len(from) \in Nat /\ k \in 0..Len(from)
      /\ k <= length - Len(bytes)
  BY LenProperties DEF Carries, StreamTyped, Sink!Min2
<1>2. /\ Carries(all, rest, buffer, msgIndex, expected, sent)
      /\ Len(all) = Len(bytes) + k /\ Len(more) = k
      /\ \A i \in 1..Len(bytes) : all[i] = bytes[i]
  BY <1>1, ReadCarries
<1>3. all[1] = bytes[1]
  BY <1>1, <1>2
<1>4. /\ pipe' = rest
      /\ IF Len(all) = length
         THEN /\ sound' = (sound /\ Sink!Whole(all) /\ all[1].message.number = expected)
              /\ expected' = NextNumber(expected)
              /\ rxLength' = 0 /\ rxBytes' = << >>
         ELSE /\ rxLength' = length /\ rxBytes' = all
              /\ UNCHANGED <<expected, sound>>
  BY <1>2 DEF Sink!Filled, NextNumber
<1> HIDE DEF all, rest, more, k
<1>5. UNCHANGED <<buffer, msgIndex, sent>>
  BY DEF Sink!sinkVars
<1>6. CASE Len(all) = length
  <2>1. Len(all) > 0 /\ Len(all) = all[1].message.length
    BY <1>1, <1>3, <1>6
  <2>2. /\ Sink!Whole(all) /\ all[1].message.number = expected
        /\ Carries(<< >>, rest, buffer, msgIndex, NextNumber(expected), sent)
    BY <1>2, <2>1, CompleteCarries
  <2>3. Begun(<< >>, 0)
    BY EmptySeq DEF Begun
  <2> QED
    BY <1>4, <1>5, <1>6, <2>2, <2>3 DEF SinkInv
<1>7. CASE Len(all) # length
  <2>1. Begun(all, length)
    BY <1>1, <1>2, <1>3, <1>7 DEF Begun
  <2> QED
    BY <1>2, <1>4, <1>5, <1>7, <2>1 DEF SinkInv
<1> QED
  BY <1>6, <1>7

\* The first two bytes are of one message, and spell its length.
LEMMA LengthSpelt ==
  ASSUME NEW r, NEW p, NEW b, NEW index, NEW first, NEW last,
         Carries(r, p, b, index, first, last), Len(r) = 2
  PROVE  /\ Sink!Spells(r) = {r[1].message.length} /\ r[1].message.length \in Nat
         /\ r[1].message.length \in MinSize..MaxSize /\ r[1].message.length >= 2
<1> DEFINE w == Stream(r, p, b, index)
           n == Size(r, p, b, index)
           m == r[1].message
<1>1. /\ Len(p) \in Nat /\ b.length \in Nat /\ index \in Nat
      /\ index <= b.length /\ r \in Seq(Byte)
      /\ n = 2 + Len(p) + (b.length - index) /\ n \in Nat /\ n >= 2
  BY LenProperties DEF Carries, StreamTyped, Size
<1>2. w[1] = r[1] /\ w[2] = r[2]
  <2>1. 1 \in 1..n /\ 2 \in 1..n
    BY <1>1
  <2> QED
    BY <2>1 DEF Stream
<1>3. Messages(w, n, first, last)
  BY DEF Carries
<1> HIDE DEF w, n
<1>4. StartsWith(w, n, m)
  BY <1>1, <1>2, <1>3, FirstWhole
<1> HIDE DEF m
<1>5. m.length \in Lengths /\ m.length \in Nat /\ m.length >= 2
  <2>1. m.length \in Lengths
    BY <1>4 DEF StartsWith, Message
  <2> QED
    BY <2>1, LengthIs
<1>6. r = Sink!Bytes(m, 1, 2)
  <2>1. 1 \in 1..m.length /\ 2 \in 1..m.length
    BY <1>5
  <2>2. r[1] = [message |-> m, place |-> 1] /\ r[2] = [message |-> m, place |-> 2]
    BY <1>2, <1>4, <2>1 DEF StartsWith
  <2>3. Sink!Bytes(m, 1, 2) = [i \in 1..2 |-> [message |-> m, place |-> i]]
    <3>1. 2 - 1 + 1 = 2 /\ \A i \in 1..2 : 1 + i - 1 = i
      OBVIOUS
    <3> QED
      BY <3>1 DEF Sink!Bytes
  <2>4. r = [i \in 1..2 |-> r[i]]
    BY <1>1
  <2>5. \A i \in 1..2 : i = 1 \/ i = 2
    OBVIOUS
  <2> QED
    BY <2>2, <2>3, <2>4, <2>5
<1>7. Sink!Spells(r) = {m.length}
  BY <1>6 DEF Sink!Spells, m
<1>8. m.length \in MinSize..MaxSize
  BY <1>5, SinkAssumption
<1> QED
  BY <1>5, <1>7, <1>8 DEF m

LEMMA ReadLengthKeeps ==
  ASSUME Carries(rxBytes, pipe, buffer, msgIndex, expected, sent), sound, rxLength = 0,
         Begun(rxBytes, rxLength), Sink!ReadLength, UNCHANGED <<Sink!sinkVars, sent>>
  PROVE  SinkInv'
<1> DEFINE k == Sink!Min2(Sink!Wanted, Len(pipe))
           bytes == rxBytes \o SubSeq(pipe, 1, k)
           rest == SubSeq(pipe, k + 1, Len(pipe))
<1>1. Len(rxBytes) \in Nat /\ Len(pipe) \in Nat /\ Len(rxBytes) < 2
  BY LenProperties DEF Carries, StreamTyped, Begun
<1>2. k \in 0..Len(pipe) /\ k <= 2 - Len(rxBytes)
  BY <1>1 DEF Sink!Wanted, Sink!Min2
<1>3. Carries(bytes, rest, buffer, msgIndex, expected, sent) /\ Len(bytes) = Len(rxBytes) + k
  BY <1>2, ReadCarries
<1>4. IF Len(bytes) < 2
      THEN /\ rxBytes' = bytes /\ pipe' = rest
           /\ UNCHANGED <<rxLength, expected, sound>>
      ELSE \E length \in Sink!Spells(bytes) :
             IF length \in MinSize..MaxSize
             THEN Sink!Filled(bytes, length, rest)
             ELSE /\ rxLength' = 0 /\ rxBytes' = << >> /\ pipe' = rest
                  /\ UNCHANGED <<expected, sound>>
  BY DEF Sink!ReadLength, Sink!Read, Sink!Rest
<1>5. UNCHANGED <<buffer, msgIndex, sent>>
  BY DEF Sink!sinkVars
<1>6. Len(bytes) <= 2
  BY <1>1, <1>2, <1>3
<1> HIDE DEF bytes, rest, k
<1>7. CASE Len(bytes) < 2
  <2>1. Begun(bytes, 0)
    BY <1>7 DEF Begun
  <2> QED
    BY <1>3, <1>4, <1>5, <1>7, <2>1 DEF SinkInv
<1>8. CASE ~(Len(bytes) < 2)
  <2> DEFINE length == bytes[1].message.length
  <2>1. Len(bytes) = 2
    BY <1>1, <1>2, <1>3, <1>6, <1>8
  <2>2. Sink!Spells(bytes) = {length} /\ length \in Nat /\ length \in MinSize..MaxSize /\ length >= 2
    BY <1>3, <2>1, LengthSpelt
  <2>3. Sink!Filled(bytes, length, rest)
    BY <1>4, <1>8, <2>2
  <2>4. length = bytes[1].message.length
    OBVIOUS
  <2> HIDE DEF length
  <2>5. 2 <= Len(bytes) /\ Len(bytes) <= length /\ length \in Nat
    BY <2>1, <2>2
  <2>6. Carries(bytes, rest, buffer, msgIndex, expected, sent)
    BY <1>3
  <2> QED
    BY <2>3, <2>4, <2>5, <2>6, FilledKeeps
<1> QED
  BY <1>7, <1>8
LEMMA InputKeeps ==
  ASSUME SinkInv, Sink!InputReady
  PROVE  SinkInv'
<1>1. ~disturbed /\ UNCHANGED <<Sink!sinkVars, sent>>
  BY DEF Sink!InputReady
<1>2. /\ Carries(rxBytes, pipe, buffer, msgIndex, expected, sent)
      /\ Begun(rxBytes, rxLength) /\ sound
  BY <1>1 DEF SinkInv
<1>3. CASE rxLength > 0
  <2>1. /\ 2 <= Len(rxBytes) /\ Len(rxBytes) <= rxLength /\ rxLength \in Nat
        /\ rxLength = rxBytes[1].message.length
    BY <1>2, <1>3, LenProperties DEF Begun, Carries, StreamTyped
  <2>2. Sink!Filled(rxBytes, rxLength, pipe)
    BY <1>3 DEF Sink!InputReady
  <2> QED
    BY <1>1, <1>2, <2>1, <2>2, FilledKeeps
<1>4. CASE ~(rxLength > 0)
  <2>1. rxLength = 0
    BY <1>2, <1>4 DEF Begun
  <2>2. Sink!ReadLength
    BY <1>4 DEF Sink!InputReady
  <2> QED
    BY <1>1, <1>2, <2>1, <2>2, ReadLengthKeeps
<1> QED
  BY <1>3, <1>4

LEMMA SinkKeeps ==
  ASSUME SinkInv, [Sink!Next]_(Sink!vars)
  PROVE  SinkInv'
<1>1. CASE UNCHANGED Sink!vars
  BY <1>1 DEF Sink!vars, Sink!sinkVars, Sink!sourceVars, SinkInv
<1>2. CASE disturbed'
  BY <1>2 DEF SinkInv
<1>3. ASSUME Sink!OffWaits \/ Sink!Close, UNCHANGED <<sent, pipe, Sink!sourceVars>>, ~disturbed
      PROVE  SinkInv'
  BY <1>3, StreamStays DEF Sink!OffWaits, Sink!Close, Sink!sourceVars, streamVars
<1>4. CASE Sink!On \/ Sink!OtherOn
  BY <1>4, OpenKeeps DEF Sink!On, Sink!OtherOn, Sink!Idle
<1>5. CASE Sink!Off
  <2>1. ~disturbed /\ (Sink!OffWaits \/ Sink!StopFlow)
    BY <1>5 DEF Sink!Off, Sink!Idle
  <2> QED
    BY <1>3, <2>1 DEF Sink!OffWaits, Sink!StopFlow
<1>6. CASE Sink!OtherOff
  BY <1>2, <1>6 DEF Sink!OtherOff
<1>7. ASSUME UNCHANGED Sink!sourceVars, ~disturbed, NEW length \in Lengths, NEW put \in 0..MaxSize,
             NEW pending, NEW timer,
             Sink!SendBusy \/ Sink!SendFails(length, put) \/ Sink!SendTaken(length, put, pending, timer)
      PROVE  SinkInv'
  BY <1>2, <1>7, BusyKeeps, TakenKeeps DEF Sink!SendFails
<1>8. CASE Sink!TxTimeout
  <2>1. ~disturbed
    BY <1>8 DEF Sink!TxTimeout, Sink!Idle
  <2>2. CASE Sink!OffWaits \/ Sink!StopFlow
    BY <1>3, <2>1, <2>2 DEF Sink!OffWaits, Sink!StopFlow
  <2>3. CASE Sink!TxQueue /\ UNCHANGED Sink!sourceVars
    BY <2>1, <2>3, StreamStays DEF Sink!TxQueue, Sink!sourceVars, streamVars
  <2>4. CASE Sink!TxSend /\ UNCHANGED Sink!sourceVars
    <3>1. CASE Sink!SendBusy
      BY <2>1, <2>4, <3>1, BusyKeeps
    <3>2. CASE ~Sink!SendBusy
      BY <1>7, <2>1, <2>4, <3>2 DEF Sink!TxSend
    <3> QED
      BY <3>1, <3>2
  <2> QED
    BY <1>8, <2>2, <2>3, <2>4 DEF Sink!TxTimeout
<1>9. CASE Sink!OutputReady
  <2>1. PICK put \in 0..MaxSize, ok \in BOOLEAN :
          /\ Sink!Write(buffer, msgIndex, put, ok)
          /\ disturbed' = (disturbed \/ ~ok)
    BY <1>9 DEF Sink!OutputReady
  <2>2. ~disturbed /\ buffer' = buffer /\ sent' = sent /\ UNCHANGED Sink!sourceVars
    BY <1>9 DEF Sink!OutputReady, Sink!Idle
  <2>3. CASE ok
    <3>1. Sink!Write(buffer, msgIndex, put, TRUE)
      BY <2>1, <2>3 DEF Sink!Write
    <3>2. /\ Carries(rxBytes, pipe, buffer, msgIndex, expected, sent)
          /\ Begun(rxBytes, rxLength) /\ sound
      BY <2>2 DEF SinkInv
    <3> QED
      BY <2>2, <3>1, <3>2, WriteKeeps
  <2>4. CASE ~ok
    BY <1>2, <2>1, <2>4
  <2> QED
    BY <2>3, <2>4
<1>10. CASE Sink!ServeNext
  <2>1. ~disturbed /\ UNCHANGED Sink!sourceVars
    BY <1>10 DEF Sink!ServeNext
  <2>2. CASE Sink!SendBusy
    BY <2>1, <2>2, BusyKeeps
  <2>3. CASE ~Sink!SendBusy
    BY <1>7, <1>10, <2>1, <2>3 DEF Sink!ServeNext
  <2> QED
    BY <2>2, <2>3
<1>11. CASE Sink!ServeEnd
  BY <1>11, StreamStays DEF Sink!ServeEnd, Sink!sourceVars, streamVars
<1>12. CASE Sink!InputReady
  BY <1>12, InputKeeps
<1>13. CASE Sink!ReadFails
  BY <1>2, <1>13 DEF Sink!ReadFails
<1> QED
  BY <1>1, <1>4, <1>5, <1>6, <1>8, <1>9, <1>10, <1>11, <1>12, <1>13 DEF Sink!Next

\* MgenAppSinkTransport: whatever the pipe takes of a message, the source handles the
\* messages the sink took, each whole and once, in order, until a read or a write
\* fails or the sink is opened or closed under the flow in the middle of a message.
THEOREM StreamFramed == MCSpec => []Framed
<1>1. MCInit => SinkInv
  BY SinkStarts DEF MCInit
<1>2. SinkInv /\ [Flows \/ Pointers \/ Sinking]_<<part, vars, lists, sink>> => SinkInv'
  <2> SUFFICES ASSUME SinkInv, [Flows \/ Pointers \/ Sinking]_<<part, vars, lists, sink>>
               PROVE  SinkInv'
    OBVIOUS
  <2>1. [Sink!Next]_(Sink!vars)
    BY DEF Flows, Pointers, Sinking, sink, Sink!vars, Sink!sinkVars, Sink!flowVars, Sink!sourceVars
  <2> QED
    BY <2>1, SinkKeeps
<1>3. SinkInv => Framed
  BY DEF SinkInv, Framed, Sink!Framed
<1> QED
  BY <1>1, <1>2, <1>3, PTL DEF MCSpec
================================================================================
