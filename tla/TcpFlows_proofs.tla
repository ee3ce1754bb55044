---------------------------- MODULE TcpFlows_proofs ----------------------------
(***************************************************************************)
(* Flows that share a TCP connection, for any flows, limits, counts, and   *)
(* answers of the network: what the messages are numbered, who holds the   *)
(* connection, and who wakes a flow.                                       *)
(***************************************************************************)
EXTENDS TcpFlows, PendingQueueLemmas, FiniteSetTheorems

Sockets == {"closed", "idle", "connecting", "connected", "shut", "broken"}

Messages == {NoMessage} \cup [flow : Flow, number : Int]

FlowState ==
  [on : BOOLEAN, wanted : BOOLEAN, timer : BOOLEAN, paused : BOOLEAN, offPending : BOOLEAN,
   socketError : BOOLEAN, pending : Nat, limit : Nat \cup {Unlimited}, sent : Nat,
   nextNumber : Int]

TcpState ==
  [socket : Sockets, references : Nat, notify : BOOLEAN, retries : Int, message : Messages]

States ==
  [flows : [Flow -> FlowState], tcp : TcpState, pend : Queues, reconnects : SUBSET Flow, step : Int]

\* What handlers take and return, in the middle of a message too.
Typed(s) == s \in States /\ Round(s.pend)

-------------------------------------------------------------------------------
(* What is done to the parts of a state.                                   *)

\* One flow is changed.
LEMMA FlowSet ==
  ASSUME NEW s, Typed(s), NEW f \in Flow, NEW r \in FlowState
  PROVE  /\ Typed([s EXCEPT !.flows[f] = r])
         /\ [s EXCEPT !.flows[f] = r].flows = [s.flows EXCEPT ![f] = r]
         /\ [s EXCEPT !.flows[f] = r].tcp = s.tcp
         /\ [s EXCEPT !.flows[f] = r].pend = s.pend
         /\ [s EXCEPT !.flows[f] = r].reconnects = s.reconnects
         /\ [s EXCEPT !.flows[f] = r].step = s.step
BY DEF Typed, States

\* The round robin is changed.
LEMMA PendSet ==
  ASSUME NEW s, Typed(s), NEW q, Round(q)
  PROVE  /\ Typed([s EXCEPT !.pend = q])
         /\ [s EXCEPT !.pend = q].flows = s.flows
         /\ [s EXCEPT !.pend = q].tcp = s.tcp
         /\ [s EXCEPT !.pend = q].pend = q
         /\ [s EXCEPT !.pend = q].reconnects = s.reconnects
         /\ [s EXCEPT !.pend = q].step = s.step
BY DEF Typed, States, Round

\* The connection is changed.
LEMMA TcpSet ==
  ASSUME NEW s, Typed(s), NEW c \in TcpState
  PROVE  /\ Typed([s EXCEPT !.tcp = c])
         /\ [s EXCEPT !.tcp = c].flows = s.flows
         /\ [s EXCEPT !.tcp = c].tcp = c
         /\ [s EXCEPT !.tcp = c].pend = s.pend
         /\ [s EXCEPT !.tcp = c].reconnects = s.reconnects
         /\ [s EXCEPT !.tcp = c].step = s.step
BY DEF Typed, States

\* What the parts of a state are.
LEMMA Parts ==
  ASSUME NEW s, Typed(s)
  PROVE  /\ s.flows \in [Flow -> FlowState] /\ s.tcp \in TcpState
         /\ s.pend \in Queues /\ Round(s.pend)
         /\ s.reconnects \in SUBSET Flow /\ s.step \in Int
         /\ \A f \in Flow : s.flows[f] \in FlowState
BY DEF Typed, States

\* Notify sets the one bit.
LEMMA NotifyEffect ==
  ASSUME NEW s, Typed(s), NEW on \in BOOLEAN
  PROVE  /\ Typed(Notify(s, on))
         /\ Notify(s, on).flows = s.flows
         /\ Notify(s, on).tcp = [s.tcp EXCEPT !.notify = on]
         /\ Notify(s, on).tcp.socket = s.tcp.socket
         /\ Notify(s, on).tcp.references = s.tcp.references
         /\ Notify(s, on).tcp.message = s.tcp.message
         /\ Notify(s, on).tcp.notify = on
         /\ Notify(s, on).pend = s.pend
         /\ Notify(s, on).reconnects = s.reconnects
         /\ Notify(s, on).step = s.step
<1> DEFINE c == [s.tcp EXCEPT !.notify = on]
<1>1. /\ c \in TcpState /\ c.socket = s.tcp.socket /\ c.references = s.tcp.references
      /\ c.message = s.tcp.message /\ c.notify = on
  BY Parts DEF TcpState
<1>2. Notify(s, on) = [s EXCEPT !.tcp = c]
  BY DEF Notify
<1> HIDE DEF c
<1>3. /\ Typed([s EXCEPT !.tcp = c])
      /\ [s EXCEPT !.tcp = c].flows = s.flows
      /\ [s EXCEPT !.tcp = c].tcp = c
      /\ [s EXCEPT !.tcp = c].pend = s.pend
      /\ [s EXCEPT !.tcp = c].reconnects = s.reconnects
      /\ [s EXCEPT !.tcp = c].step = s.step
  BY <1>1, TcpSet
<1> QED
  BY <1>1, <1>2, <1>3 DEF c

-------------------------------------------------------------------------------
(* What the handlers' helpers do.                                          *)

\* Nothing but backlog, timer, error, count and number of the flow differs.
Stays(q, r) ==
  r.on = q.on /\ r.wanted = q.wanted /\ r.paused = q.paused /\ r.offPending = q.offPending /\ r.limit = q.limit

\* Nothing but that of f, the notification and the round robin.
About(f, s, t) ==
  /\ Typed(t)
  /\ \A g \in Flow \ {f} : t.flows[g] = s.flows[g]
  /\ Stays(s.flows[f], t.flows[f])
  /\ t.tcp.socket = s.tcp.socket /\ t.tcp.references = s.tcp.references /\ t.tcp.message = s.tcp.message
  /\ t.reconnects = s.reconnects

\* A message that waits adds its flow to the round robin.
LEMMA QueueEffect ==
  ASSUME NEW s, Typed(s), NEW f \in Flow
  PROVE  /\ About(f, s, Queue(s, f))
         /\ Queue(s, f).flows[f].sent = s.flows[f].sent
         /\ Queue(s, f).flows[f].nextNumber = s.flows[f].nextNumber
         /\ Queue(s, f).flows[f].socketError = s.flows[f].socketError
         /\ Queue(s, f).step = s.step
         /\ Queue(s, f).tcp = s.tcp
         /\ Queued(Queue(s, f).pend) = Queued(s.pend) \cup {f}
<1> DEFINE r == [s.flows[f] EXCEPT !.pending = @ + 1]
           u == [s EXCEPT !.flows[f] = r]
           more == [u EXCEPT !.pend = AppendFlow(s.pend, f)]
           stop == [r EXCEPT !.timer = FALSE]
<1>1. r \in FlowState /\ Stays(s.flows[f], r) /\ r.sent = s.flows[f].sent
      /\ r.nextNumber = s.flows[f].nextNumber /\ r.socketError = s.flows[f].socketError
  BY Parts DEF FlowState, Stays
<1>2. stop \in FlowState /\ Stays(s.flows[f], stop) /\ stop.sent = s.flows[f].sent
      /\ stop.nextNumber = s.flows[f].nextNumber /\ stop.socketError = s.flows[f].socketError
  BY <1>1 DEF FlowState, Stays
<1>3. Round(AppendFlow(s.pend, f)) /\ Queued(AppendFlow(s.pend, f)) = Queued(s.pend) \cup {f}
  BY Parts, AppendFlowProperties
<1>4. Queue(s, f) = IF Full(more, f) THEN [more EXCEPT !.flows[f].timer = FALSE] ELSE more
  BY Parts DEF Queue, Typed, States
<1> HIDE DEF r, stop
<1>5. Typed(u) /\ u.flows = [s.flows EXCEPT ![f] = r] /\ u.tcp = s.tcp /\ u.step = s.step
      /\ u.reconnects = s.reconnects
  BY <1>1, FlowSet
<1> HIDE DEF u
<1>6. /\ Typed(more) /\ more.flows = [s.flows EXCEPT ![f] = r] /\ more.tcp = s.tcp
      /\ more.step = s.step /\ more.reconnects = s.reconnects
      /\ more.pend = AppendFlow(s.pend, f)
  BY <1>3, <1>5, PendSet
<1> HIDE DEF more
<1>7. more.flows[f] = r
  BY <1>6, Parts
<1> DEFINE t == [more EXCEPT !.flows[f] = stop]
<1>8. [more EXCEPT !.flows[f].timer = FALSE] = t
  <2>1. [more EXCEPT !.flows[f].timer = FALSE]
        = [more EXCEPT !.flows[f] = [more.flows[f] EXCEPT !.timer = FALSE]]
    OBVIOUS
  <2> QED
    BY <1>7, <2>1, Zenon DEF stop
<1>9. /\ Typed(t) /\ t.flows = [s.flows EXCEPT ![f] = stop] /\ t.tcp = s.tcp
      /\ t.step = s.step /\ t.reconnects = s.reconnects
      /\ t.pend = AppendFlow(s.pend, f)
  <2>1. [[s.flows EXCEPT ![f] = r] EXCEPT ![f] = stop] = [s.flows EXCEPT ![f] = stop]
    BY Parts
  <2> QED
    BY <1>2, <1>6, <2>1, FlowSet
<1> HIDE DEF t
<1>10. CASE Full(more, f)
  <2>1. Queue(s, f) = t
    BY <1>4, <1>8, <1>10
  <2>2. t.flows[f] = stop
    BY <1>9, Parts
  <2> QED
    BY <1>2, <1>3, <1>9, <2>1, <2>2, Parts DEF About
<1>11. CASE ~Full(more, f)
  BY <1>1, <1>3, <1>4, <1>6, <1>7, <1>11, Parts DEF About
<1> QED
  BY <1>10, <1>11

\* A number given back is the only thing that changes.
LEMMA GiveBackEffect ==
  ASSUME NEW s, Typed(s), NEW f \in Flow
  PROVE  /\ About(f, s, GiveBack(s, f))
         /\ GiveBack(s, f).flows[f].sent = s.flows[f].sent
         /\ GiveBack(s, f).flows[f].nextNumber = s.flows[f].nextNumber - 1
         /\ GiveBack(s, f).flows[f].socketError = s.flows[f].socketError
         /\ GiveBack(s, f).flows[f].timer = s.flows[f].timer
         /\ GiveBack(s, f).step = s.step
         /\ GiveBack(s, f).tcp = s.tcp
         /\ GiveBack(s, f).pend = s.pend
<1> DEFINE r == [s.flows[f] EXCEPT !.nextNumber = @ - 1]
           t == [s EXCEPT !.flows[f] = r]
<1>1. /\ r \in FlowState /\ Stays(s.flows[f], r) /\ r.sent = s.flows[f].sent
      /\ r.nextNumber = s.flows[f].nextNumber - 1
      /\ r.socketError = s.flows[f].socketError /\ r.timer = s.flows[f].timer
  BY Parts DEF FlowState, Stays
<1>2. GiveBack(s, f) = t
  BY DEF GiveBack
<1> HIDE DEF r
<1>3. /\ Typed(t) /\ t.flows = [s.flows EXCEPT ![f] = r] /\ t.tcp = s.tcp
      /\ t.step = s.step /\ t.reconnects = s.reconnects /\ t.pend = s.pend
  BY <1>1, FlowSet
<1> HIDE DEF t
<1> QED
  BY <1>1, <1>2, <1>3, Parts DEF About

\* Two changes about f are one.
LEMMA AboutAgain ==
  ASSUME NEW s, NEW t, NEW u, NEW f \in Flow, About(f, s, t), About(f, t, u)
  PROVE  About(f, s, u)
BY DEF About, Stays

\* A flow is given another record that differs in what is About a flow.
LEMMA AboutFlow ==
  ASSUME NEW s, Typed(s), NEW f \in Flow, NEW r \in FlowState, Stays(s.flows[f], r)
  PROVE  /\ About(f, s, [s EXCEPT !.flows[f] = r])
         /\ [s EXCEPT !.flows[f] = r].flows[f] = r
BY FlowSet, Parts DEF About

LEMMA AboutNotify ==
  ASSUME NEW s, Typed(s), NEW f \in Flow, NEW on \in BOOLEAN
  PROVE  About(f, s, Notify(s, on))
BY NotifyEffect DEF About, Stays

\* A message that waits does so in the round robin, with somebody to wake it.
LEMMA NotSentEffect ==
  ASSUME NEW s, Typed(s), NEW f \in Flow, NEW failed \in BOOLEAN
  PROVE  /\ About(f, s, NotSent(s, f, failed))
         /\ NotSent(s, f, failed).flows[f].sent = s.flows[f].sent
         /\ NotSent(s, f, failed).flows[f].nextNumber = s.flows[f].nextNumber - 1
         /\ NotSent(s, f, failed).flows[f].socketError => s.flows[f].socketError \/ f \in Fast
         /\ NotSent(s, f, failed).step = s.step
         /\ IF Keeps(f) /\ s.flows[f].on /\ IsConnected(s)
            THEN /\ Queued(NotSent(s, f, failed).pend) = Queued(s.pend) \cup {f}
                 /\ ~failed => NotSent(s, f, failed).tcp.notify
            ELSE /\ NotSent(s, f, failed).pend = s.pend
                 /\ NotSent(s, f, failed).tcp = s.tcp
                 /\ NotSent(s, f, failed).flows[f].socketError = s.flows[f].socketError
                 /\ NotSent(s, f, failed).flows[f].timer = s.flows[f].timer
<1> DEFINE back == GiveBack(s, f)
           queued == Queue(back, f)
           runs == ~back.flows[f].paused
           r == [queued.flows[f] EXCEPT !.socketError = TRUE, !.timer = runs]
           error == [queued EXCEPT !.flows[f].socketError = TRUE, !.flows[f].timer = runs]
<1>1. /\ About(f, s, back)
      /\ back.flows[f].sent = s.flows[f].sent
      /\ back.flows[f].nextNumber = s.flows[f].nextNumber - 1
      /\ back.flows[f].socketError = s.flows[f].socketError
      /\ back.flows[f].timer = s.flows[f].timer
      /\ back.step = s.step /\ back.tcp = s.tcp /\ back.pend = s.pend
  BY GiveBackEffect
<1>2. NotSent(s, f, failed) =
        IF ~(Keeps(f) /\ back.flows[f].on /\ IsConnected(back)) THEN back
        ELSE IF ~failed THEN Notify(queued, TRUE)
        ELSE IF f \in Fast THEN Notify(error, FALSE) ELSE queued
  BY DEF NotSent
<1>3. /\ IsConnected(back) <=> IsConnected(s)
      /\ back.flows[f].on = s.flows[f].on
      /\ runs \in BOOLEAN /\ Typed(back)
  BY <1>1 DEF IsConnected, About, Stays
<1> HIDE DEF back, runs
<1>4. /\ About(f, back, queued)
      /\ queued.flows[f].sent = back.flows[f].sent
      /\ queued.flows[f].nextNumber = back.flows[f].nextNumber
      /\ queued.flows[f].socketError = back.flows[f].socketError
      /\ queued.step = back.step /\ queued.tcp = back.tcp
      /\ Queued(queued.pend) = Queued(back.pend) \cup {f}
  BY <1>3, QueueEffect
<1> HIDE DEF queued
<1>5. About(f, s, queued) /\ Typed(queued)
  BY <1>1, <1>4, AboutAgain DEF About
<1>6. queued.flows[f] \in FlowState
  BY <1>5, Parts
<1>7. /\ r \in FlowState /\ Stays(queued.flows[f], r) /\ r.sent = queued.flows[f].sent
      /\ r.nextNumber = queued.flows[f].nextNumber
  BY <1>3, <1>6 DEF FlowState, Stays
<1>8. error = [queued EXCEPT !.flows[f] = r]
  OBVIOUS
<1> HIDE DEF r
<1>9. /\ About(f, queued, error) /\ error.flows[f] = r
      /\ error.step = queued.step /\ error.pend = queued.pend /\ error.tcp = queued.tcp
  <2> DEFINE t == [queued EXCEPT !.flows[f] = r]
  <2>1. About(f, queued, t) /\ t.flows[f] = r
    BY <1>5, <1>7, AboutFlow
  <2>2. t.step = queued.step /\ t.pend = queued.pend /\ t.tcp = queued.tcp
    BY <1>5, <1>7, FlowSet
  <2>3. error = t
    BY <1>8
  <2> HIDE DEF t, error
  <2> QED
    BY <2>1, <2>2, <2>3
<1> HIDE DEF error
<1>10. About(f, s, error) /\ Typed(error)
  BY <1>5, <1>9, AboutAgain DEF About
<1>11. CASE ~(Keeps(f) /\ s.flows[f].on /\ IsConnected(s))
  <2>1. NotSent(s, f, failed) = back
    BY <1>2, <1>3, <1>11
  <2> QED
    BY <1>1, <1>11, <2>1
<1>12. CASE Keeps(f) /\ s.flows[f].on /\ IsConnected(s)
  <2>1. CASE ~failed
    <3> DEFINE t == Notify(queued, TRUE)
    <3>1. NotSent(s, f, failed) = t
      BY <1>2, <1>3, <1>12, <2>1
    <3>2. About(f, queued, t) /\ t.tcp.notify /\ t.flows = queued.flows /\ t.step = queued.step
          /\ t.pend = queued.pend
      BY <1>5, NotifyEffect, AboutNotify
    <3> HIDE DEF t
    <3>3. About(f, s, t)
      BY <1>5, <3>2, AboutAgain
    <3> QED
      BY <1>1, <1>4, <1>12, <3>1, <3>2, <3>3
  <2>2. CASE failed /\ f \in Fast
    <3> DEFINE t == Notify(error, FALSE)
    <3>1. NotSent(s, f, failed) = t
      BY <1>2, <1>3, <1>12, <2>2
    <3>2. About(f, error, t) /\ t.flows = error.flows /\ t.step = error.step /\ t.pend = error.pend
      BY <1>10, NotifyEffect, AboutNotify
    <3> HIDE DEF t
    <3>3. About(f, s, t)
      BY <1>10, <3>2, AboutAgain
    <3> QED
      BY <1>1, <1>4, <1>7, <1>9, <1>12, <2>2, <3>1, <3>2, <3>3
  <2>3. CASE failed /\ f \notin Fast
    <3>1. NotSent(s, f, failed) = queued
      BY <1>2, <1>3, <1>12, <2>3
    <3> QED
      BY <1>1, <1>4, <1>5, <1>12, <2>3, <3>1
  <2> QED
    BY <2>1, <2>2, <2>3
<1> QED
  BY <1>11, <1>12

\* The last of a message of f goes out.
LEMMA CompletedEffect ==
  ASSUME NEW s, Typed(s), NEW f \in Flow, NEW number \in Int
  PROVE  /\ About(f, s, Completed(s, f, number))
         /\ Completed(s, f, number).flows[f].nextNumber = s.flows[f].nextNumber - number
         /\ Completed(s, f, number).flows[f].sent >= s.flows[f].sent
         /\ Completed(s, f, number).flows[f].timer = s.flows[f].timer
         /\ Completed(s, f, number).flows[f].socketError = s.flows[f].socketError
         /\ Completed(s, f, number).step = number
         /\ Completed(s, f, number).tcp = s.tcp
         /\ Completed(s, f, number).pend = s.pend
<1> DEFINE n == s.flows[f].nextNumber - number
           k == IF s.flows[f].limit >= 0 THEN s.flows[f].sent + 1 ELSE s.flows[f].sent
           r == [s.flows[f] EXCEPT !.nextNumber = n, !.sent = k]
           u == [s EXCEPT !.step = number]
           t == [u EXCEPT !.flows[f] = r]
<1>1. /\ s.flows[f] \in FlowState /\ n \in Int /\ k \in Nat /\ k >= s.flows[f].sent
  BY Parts DEF FlowState
<1> HIDE DEF k
<1>2. Completed(s, f, number) = [s EXCEPT !.step = number, !.flows[f].nextNumber = n, !.flows[f].sent = k]
  BY DEF Completed, k
<1> HIDE DEF n
<1>3. /\ r \in FlowState /\ Stays(s.flows[f], r) /\ r.nextNumber = n /\ r.sent >= s.flows[f].sent
      /\ r.socketError = s.flows[f].socketError /\ r.timer = s.flows[f].timer
  BY <1>1 DEF FlowState, Stays
<1>4. [s EXCEPT !.step = number, !.flows[f].nextNumber = n, !.flows[f].sent = k] = t
  BY DEF Typed, States
<1> HIDE DEF r
<1>5. /\ Typed(u) /\ u.flows = s.flows /\ u.tcp = s.tcp /\ u.pend = s.pend
      /\ u.reconnects = s.reconnects /\ u.step = number
  BY DEF Typed, States
<1> HIDE DEF u
<1>6. /\ About(f, u, t) /\ t.flows[f] = r
      /\ t.step = number /\ t.tcp = s.tcp /\ t.pend = s.pend
  BY <1>3, <1>5, FlowSet, AboutFlow
<1> HIDE DEF t
<1>7. About(f, s, t)
  BY <1>5, <1>6 DEF About
<1> QED
  BY <1>2, <1>3, <1>4, <1>6, <1>7 DEF n

\* A message of f that waited has gone.
LEMMA SentOneEffect ==
  ASSUME NEW s, Typed(s), NEW f \in Flow
  PROVE  /\ About(f, s, SentOne(s, f))
         /\ SentOne(s, f).flows[f].nextNumber = s.flows[f].nextNumber
         /\ SentOne(s, f).flows[f].sent = s.flows[f].sent
         /\ SentOne(s, f).step = s.step
         /\ SentOne(s, f).pend = s.pend
         /\ IF f \in Fast /\ s.flows[f].timer /\ s.flows[f].socketError
            THEN ~SentOne(s, f).flows[f].socketError /\ SentOne(s, f).tcp.notify
            ELSE /\ SentOne(s, f).flows[f].timer = s.flows[f].timer
                 /\ SentOne(s, f).flows[f].socketError = s.flows[f].socketError
                 /\ SentOne(s, f).tcp = s.tcp
<1> DEFINE recovers == f \in Fast /\ s.flows[f].timer /\ s.flows[f].socketError
           k == IF s.flows[f].pending > 0 THEN s.flows[f].pending - 1 ELSE 0
           r == [s.flows[f] EXCEPT !.pending = k]
           e == [r EXCEPT !.socketError = FALSE, !.timer = FALSE]
           less == [s EXCEPT !.flows[f] = r]
           well == [less EXCEPT !.flows[f].socketError = FALSE, !.flows[f].timer = FALSE]
           t == [less EXCEPT !.flows[f] = e]
<1>1. s.flows[f] \in FlowState /\ k \in Nat
  BY Parts DEF FlowState
<1>2. SentOne(s, f) = IF ~recovers THEN less ELSE Notify(well, TRUE)
  BY DEF SentOne
<1> HIDE DEF k
<1>3. /\ r \in FlowState /\ Stays(s.flows[f], r) /\ r.nextNumber = s.flows[f].nextNumber
      /\ r.sent = s.flows[f].sent
      /\ r.socketError = s.flows[f].socketError /\ r.timer = s.flows[f].timer
  BY <1>1 DEF FlowState, Stays
<1>4. /\ e \in FlowState /\ Stays(r, e) /\ e.nextNumber = r.nextNumber
      /\ e.sent = r.sent /\ ~e.socketError
  BY <1>3 DEF FlowState, Stays
<1> HIDE DEF r
<1>5. /\ About(f, s, less) /\ less.flows[f] = r
      /\ less.step = s.step /\ less.tcp = s.tcp /\ less.pend = s.pend
  BY <1>3, FlowSet, AboutFlow
<1> HIDE DEF less
<1>6. Typed(less)
  BY <1>5 DEF About
<1>7. well = t
  <2>1. well = [less EXCEPT !.flows[f] = [less.flows[f] EXCEPT !.socketError = FALSE, !.timer = FALSE]]
    OBVIOUS
  <2> QED
    BY <1>5, <2>1, Zenon
<1> HIDE DEF e, well
<1>8. /\ About(f, less, t) /\ t.flows[f] = e
      /\ t.step = less.step /\ t.tcp = less.tcp /\ t.pend = less.pend
  BY <1>4, <1>5, <1>6, FlowSet, AboutFlow
<1> HIDE DEF t
<1>9. About(f, s, t) /\ Typed(t)
  BY <1>5, <1>8, AboutAgain DEF About
<1>10. CASE ~recovers
  BY <1>2, <1>3, <1>5, <1>10
<1>11. CASE recovers
  <2> DEFINE v == Notify(t, TRUE)
  <2>1. SentOne(s, f) = v
    BY <1>2, <1>7, <1>11
  <2>2. About(f, t, v) /\ v.tcp.notify /\ v.flows = t.flows /\ v.step = t.step /\ v.pend = t.pend
    BY <1>9, NotifyEffect, AboutNotify
  <2> HIDE DEF v
  <2>3. About(f, s, v)
    BY <1>9, <2>2, AboutAgain
  <2> QED
    BY <1>3, <1>4, <1>5, <1>8, <1>11, <2>1, <2>2, <2>3
<1> QED
  BY <1>10, <1>11

\* An iteration of SendPendingMessage ends: f stays, or has nothing to send and
\* no limit to its queue keeps its timer stopped.
LEMMA ServeNextEffect ==
  ASSUME NEW s, Typed(s), NEW f \in Flow, s.pend.cur = f
  PROVE  /\ About(f, s, ServeNext(s, f))
         /\ ServeNext(s, f).flows[f].nextNumber = s.flows[f].nextNumber
         /\ ServeNext(s, f).flows[f].sent = s.flows[f].sent
         /\ ServeNext(s, f).flows[f].socketError = s.flows[f].socketError
         /\ ServeNext(s, f).step = s.step
         /\ ServeNext(s, f).tcp = s.tcp
         /\ ServeNext(s, f).flows[f].timer =
              (s.flows[f].timer \/ (BelowLimit(s, f) /\ f \notin Fast /\ ~s.flows[f].paused))
         /\ Queued(ServeNext(s, f).pend) = IF Drained(s, f) THEN Queued(s.pend) \ {f} ELSE Queued(s.pend)
<1> DEFINE q == IF Drained(s, f) THEN RemoveFromPendingList(s.pend) ELSE Advance(s.pend)
           runs == s.flows[f].timer \/ (BelowLimit(s, f) /\ f \notin Fast /\ ~s.flows[f].paused)
           r == [s.flows[f] EXCEPT !.timer = runs]
           u == [s EXCEPT !.pend = q]
           t == [u EXCEPT !.flows[f] = r]
<1>1. Round(s.pend) /\ s.pend.list # << >>
  BY Parts, RoundElim, NoFlowAssumption
<1>2. Round(q) /\ Queued(q) = IF Drained(s, f) THEN Queued(s.pend) \ {f} ELSE Queued(s.pend)
  BY <1>1, RemoveFromPendingListProperties, AdvanceProperties
<1>3. runs \in BOOLEAN
  BY Parts DEF FlowState
<1>4. ServeNext(s, f) = [s EXCEPT !.pend = q, !.flows[f].timer = runs]
  BY DEF ServeNext
<1> HIDE DEF q, runs
<1>5. /\ r \in FlowState /\ Stays(s.flows[f], r) /\ r.nextNumber = s.flows[f].nextNumber
      /\ r.sent = s.flows[f].sent /\ r.socketError = s.flows[f].socketError /\ r.timer = runs
  BY <1>3, Parts DEF FlowState, Stays
<1>6. [s EXCEPT !.pend = q, !.flows[f].timer = runs] = t
  BY DEF Typed, States
<1> HIDE DEF r
<1>7. /\ Typed(u) /\ u.flows = s.flows /\ u.tcp = s.tcp /\ u.pend = q
      /\ u.reconnects = s.reconnects /\ u.step = s.step
  BY <1>2, PendSet
<1> HIDE DEF u
<1>8. /\ About(f, u, t) /\ t.flows[f] = r
      /\ t.step = s.step /\ t.tcp = s.tcp /\ t.pend = q
  BY <1>5, <1>7, FlowSet, AboutFlow
<1> HIDE DEF t
<1>9. About(f, s, t)
  BY <1>7, <1>8 DEF About
<1> QED
  BY <1>2, <1>4, <1>5, <1>6, <1>8, <1>9 DEF runs

-------------------------------------------------------------------------------
(* Leaving the connection, and losing it.                                  *)

\* The flows on the connection can be counted.
LEMMA UsingFinite ==
  ASSUME NEW s
  PROVE  IsFiniteSet(Using(s)) /\ Using(s) \subseteq Flow
BY FS_Subset, TcpFlowsAssumption DEF Using

\* What a connection that pauses its flows leaves.
PausedFlow(q, r) ==
  /\ q.on => r.paused /\ ~r.timer
  /\ ~q.on => r = q
  /\ r.on = q.on
  /\ r.wanted = q.wanted
  /\ r.offPending = q.offPending
  /\ r.nextNumber = q.nextNumber
  /\ r.socketError = q.socketError

Paused(s, t) ==
  /\ Typed(t)
  /\ \A f \in Flow : PausedFlow(s.flows[f], t.flows[f])
  /\ t.tcp.socket = "idle"
  /\ t.tcp.references = s.tcp.references
  /\ t.tcp.message = s.tcp.message
  /\ t.pend = s.pend
  /\ t.reconnects = s.reconnects \cup Using(s)
  /\ t.step = s.step

\* ScheduleReconnect pauses every flow on the connection.
LEMMA ScheduleReconnectEffect ==
  ASSUME NEW s, Typed(s)
  PROVE  Paused(s, ScheduleReconnect(s))
<1> DEFINE k == IF s.tcp.retries > 0 THEN s.tcp.retries - 1 ELSE s.tcp.retries
           c == [s.tcp EXCEPT !.retries = k, !.socket = "idle"]
           r(f) == IF s.flows[f].on THEN [s.flows[f] EXCEPT !.paused = TRUE, !.timer = FALSE]
                   ELSE s.flows[f]
           fs == [f \in Flow |-> r(f)]
           rs == s.reconnects \cup Using(s)
           t == [s EXCEPT !.tcp = c, !.flows = fs, !.reconnects = rs]
<1>1. k \in Int /\ s.tcp \in TcpState
  BY Parts DEF TcpState
<1>2. ScheduleReconnect(s) = [s EXCEPT !.tcp.retries = k, !.tcp.socket = "idle", !.flows = fs, !.reconnects = rs]
  BY DEF ScheduleReconnect
<1> HIDE DEF k
<1>3. c \in TcpState /\ c.socket = "idle" /\ c.references = s.tcp.references /\ c.message = s.tcp.message
  BY <1>1 DEF TcpState, Sockets
<1>4. \A f \in Flow : r(f) \in FlowState /\ PausedFlow(s.flows[f], r(f))
  BY Parts DEF FlowState, PausedFlow
<1>5. rs \in SUBSET Flow
  BY Parts, UsingFinite
<1>6. fs \in [Flow -> FlowState] /\ \A f \in Flow : fs[f] = r(f)
  BY <1>4
<1> HIDE DEF fs, rs
<1>7. [s EXCEPT !.tcp.retries = k, !.tcp.socket = "idle", !.flows = fs, !.reconnects = rs] = t
  BY DEF Typed, States
<1> HIDE DEF c
<1>8. Typed(t) /\ t.flows = fs /\ t.tcp = c /\ t.pend = s.pend /\ t.reconnects = rs /\ t.step = s.step
  BY <1>3, <1>5, <1>6 DEF Typed, States
<1> HIDE DEF t
<1>9. \A f \in Flow : t.flows[f] = r(f)
  BY <1>6, <1>8
<1> QED
  <2> HIDE DEF r
  <2>1. Paused(s, t)
    BY <1>3, <1>4, <1>8, <1>9 DEF Paused, rs
  <2>2. ScheduleReconnect(s) = t
    BY <1>2, <1>7
  <2> QED
    BY <2>1, <2>2

\* What a connection that is given up leaves.
GivenUpFlow(q, r) ==
  /\ ~r.on
  /\ q.on => ~r.offPending
  /\ ~q.on => r.offPending = q.offPending
  /\ r.paused = q.paused
  /\ r.wanted = q.wanted
  /\ r.nextNumber = q.nextNumber
  /\ r.socketError = q.socketError

GivenUp(s, t) ==
  /\ Typed(t)
  /\ \A f \in Flow : GivenUpFlow(s.flows[f], t.flows[f])
  /\ t.tcp.socket \in {"closed", "idle"}
  /\ s.tcp.references = Cardinality(Using(s)) => t.tcp.references = 0
  /\ ~IsTransmitting(t)
  /\ t.pend = s.pend
  /\ t.reconnects = s.reconnects
  /\ t.step = s.step

\* ShutdownTransport takes every flow off it, and the message with them.
LEMMA ShutdownTransportEffect ==
  ASSUME NEW s, Typed(s)
  PROVE  GivenUp(s, ShutdownTransport(s))
<1> DEFINE left == s.tcp.references - Cardinality(Using(s))
           k == IF left > 0 THEN left ELSE 0
           z == IF s.tcp.references > 0 /\ left <= 0 THEN "closed" ELSE "idle"
           c == [s.tcp EXCEPT !.references = k, !.socket = z, !.notify = FALSE, !.message = NoMessage]
           r(f) == IF s.flows[f].on
                   THEN [s.flows[f] EXCEPT !.on = FALSE, !.offPending = FALSE, !.timer = FALSE]
                   ELSE s.flows[f]
           fs == [f \in Flow |-> r(f)]
           t == [s EXCEPT !.tcp = c, !.flows = fs]
<1>1. /\ k \in Nat /\ s.tcp \in TcpState /\ z \in {"closed", "idle"}
      /\ s.tcp.references = Cardinality(Using(s)) => k = 0
  BY Parts, UsingFinite, FS_CardinalityType DEF TcpState
<1>2. ShutdownTransport(s) =
        [s EXCEPT !.tcp.references = k, !.tcp.socket = z, !.tcp.notify = FALSE, !.tcp.message = NoMessage,
                  !.flows = fs]
  BY DEF ShutdownTransport
<1> HIDE DEF k, z
<1>3. c \in TcpState /\ c.socket \in {"closed", "idle"} /\ c.references = k /\ c.message = NoMessage
  BY <1>1 DEF TcpState, Sockets, Messages
<1>4. \A f \in Flow : r(f) \in FlowState /\ GivenUpFlow(s.flows[f], r(f))
  BY Parts DEF FlowState, GivenUpFlow
<1>5. fs \in [Flow -> FlowState] /\ \A f \in Flow : fs[f] = r(f)
  BY <1>4
<1> HIDE DEF fs
<1>6. [s EXCEPT !.tcp.references = k, !.tcp.socket = z, !.tcp.notify = FALSE, !.tcp.message = NoMessage,
                  !.flows = fs] = t
  BY DEF Typed, States
<1> HIDE DEF c
<1>7. Typed(t) /\ t.flows = fs /\ t.tcp = c /\ t.pend = s.pend /\ t.reconnects = s.reconnects /\ t.step = s.step
  BY <1>3, <1>5 DEF Typed, States
<1> HIDE DEF t
<1>8. \A f \in Flow : t.flows[f] = r(f)
  BY <1>5, <1>7
<1> QED
  <2> HIDE DEF r
  <2>1. GivenUp(s, t)
    BY <1>1, <1>3, <1>4, <1>7, <1>8 DEF GivenUp, IsTransmitting
  <2>2. ShutdownTransport(s) = t
    BY <1>2, <1>6
  <2> QED
    BY <2>1, <2>2

\* A lost connection does one or the other.
LEMMA DisconnectedEffect ==
  ASSUME NEW s, Typed(s)
  PROVE  Paused(s, Disconnected(s)) \/ GivenUp(s, Disconnected(s))
BY ScheduleReconnectEffect, ShutdownTransportEffect DEF Disconnected

\* What is left of a flow that is stopped while it is alone on the connection.
Stopped(f, s, t) ==
  /\ Typed(t)
  /\ \A g \in Flow \ {f} : t.flows[g] = s.flows[g]
  /\ t.flows[f].nextNumber = s.flows[f].nextNumber
  /\ t.flows[f].paused = s.flows[f].paused
  /\ t.flows[f].socketError = s.flows[f].socketError
  /\ ~t.flows[f].timer
  /\ t.flows[f].limit = Unlimited
  /\ t.tcp.message = s.tcp.message
  /\ t.reconnects = s.reconnects
  /\ t.step = s.step
  /\ Queued(t.pend) = IF s.flows[f].on THEN Queued(s.pend) \ {f} ELSE Queued(s.pend)
  /\ ~s.flows[f].on => ~t.flows[f].on /\ ~t.flows[f].offPending /\ t.tcp = s.tcp
  /\ s.flows[f].on /\ s.tcp.references = 1 =>
       IF IsConnected(s)
       THEN t.flows[f].on /\ t.flows[f].offPending /\ t.tcp.socket = "shut" /\ t.tcp.references = 1
       ELSE /\ ~t.flows[f].on /\ ~t.flows[f].offPending
            /\ t.tcp.socket = s.tcp.socket /\ t.tcp.references = 0

\* Close changes the connection alone.
LEMMA CloseEffect ==
  ASSUME NEW s, Typed(s)
  PROVE  /\ Typed(Close(s))
         /\ Close(s).flows = s.flows /\ Close(s).pend = s.pend
         /\ Close(s).reconnects = s.reconnects /\ Close(s).step = s.step
         /\ Close(s).tcp.message = s.tcp.message
         /\ s.tcp.references = 0 => Close(s) = s
<1> DEFINE c == [s.tcp EXCEPT !.references = s.tcp.references - 1]
           d == [s.tcp EXCEPT !.references = 0, !.socket = "closed", !.notify = FALSE]
<1>1. s.tcp \in TcpState
  BY Parts
<1>2. d \in TcpState /\ d.message = s.tcp.message
  BY <1>1 DEF TcpState, Sockets
<1>3. s.tcp.references > 1 => c \in TcpState /\ c.message = s.tcp.message
  BY <1>1 DEF TcpState
<1>4. Close(s) = IF s.tcp.references = 0 THEN s
                 ELSE IF s.tcp.references > 1 THEN [s EXCEPT !.tcp = c] ELSE [s EXCEPT !.tcp = d]
  <2>1. [s EXCEPT !.tcp.references = @ - 1] = [s EXCEPT !.tcp = c]
    OBVIOUS
  <2>2. [s EXCEPT !.tcp.references = 0, !.tcp.socket = "closed", !.tcp.notify = FALSE] = [s EXCEPT !.tcp = d]
    BY DEF Typed, States
  <2> HIDE DEF c, d
  <2> QED
    BY <2>1, <2>2 DEF Close
<1> HIDE DEF c, d
<1>5. CASE s.tcp.references = 0
  BY <1>4, <1>5
<1>6. CASE s.tcp.references > 1
  <2>1. Close(s) = [s EXCEPT !.tcp = c]
    BY <1>4, <1>6
  <2> QED
    BY <1>3, <1>6, <2>1, TcpSet
<1>7. CASE ~(s.tcp.references > 1) /\ s.tcp.references # 0
  <2>1. Close(s) = [s EXCEPT !.tcp = d]
    BY <1>4, <1>7
  <2> QED
    BY <1>2, <1>7, <2>1, TcpSet
<1> QED
  BY <1>5, <1>6, <1>7

\* StopFlow shuts the connection down, or closes it and takes the flow off.
LEMMA StopFlowEffect ==
  ASSUME NEW s, Typed(s), NEW f \in Flow
  PROVE  Stopped(f, s, StopFlow(s, f))
<1> DEFINE r == [s.flows[f] EXCEPT !.limit = Unlimited, !.pending = 0, !.sent = 0,
                                   !.offPending = FALSE, !.timer = FALSE]
           stopped == [s EXCEPT !.flows[f] = r]
           q == RemoveFlow(s.pend, f)
           out == [stopped EXCEPT !.pend = q]
<1>1. /\ r \in FlowState
      /\ r.nextNumber = s.flows[f].nextNumber /\ r.wanted = s.flows[f].wanted
      /\ r.paused = s.flows[f].paused /\ r.socketError = s.flows[f].socketError
      /\ r.on = s.flows[f].on
      /\ ~r.timer /\ ~r.offPending /\ r.limit = Unlimited
  <2>1. s.flows[f] \in FlowState
    BY Parts
  <2> QED
    BY <2>1 DEF FlowState, Unlimited
<1>2. StopFlow(s, f) = IF s.flows[f].on THEN Leave([stopped EXCEPT !.pend = RemoveFlow(@, f)], f) ELSE stopped
  BY DEF StopFlow
<1> HIDE DEF r
<1>3. /\ Typed(stopped) /\ stopped.flows = [s.flows EXCEPT ![f] = r] /\ stopped.tcp = s.tcp
      /\ stopped.pend = s.pend /\ stopped.reconnects = s.reconnects /\ stopped.step = s.step
  BY <1>1, FlowSet
<1>4. [stopped EXCEPT !.pend = RemoveFlow(@, f)] = out
  BY <1>3
<1>5. Round(q) /\ Queued(q) = Queued(s.pend) \ {f}
  BY Parts, RemoveFlowProperties
<1> HIDE DEF stopped, q
<1>6. /\ Typed(out) /\ out.flows = [s.flows EXCEPT ![f] = r] /\ out.tcp = s.tcp
      /\ out.pend = q /\ out.reconnects = s.reconnects /\ out.step = s.step
  BY <1>3, <1>5, PendSet
<1> HIDE DEF out
<1>7. /\ \A g \in Flow \ {f} : stopped.flows[g] = s.flows[g] /\ out.flows[g] = s.flows[g]
      /\ stopped.flows[f] = r /\ out.flows[f] = r
  BY <1>3, <1>6, Parts
<1>8. CASE ~s.flows[f].on
  <2>1. StopFlow(s, f) = stopped
    BY <1>2, <1>8
  <2> QED
    BY <1>1, <1>3, <1>7, <1>8, <2>1 DEF Stopped
<1>9. CASE s.flows[f].on
  <2>0. StopFlow(s, f) = Leave(out, f)
    BY <1>2, <1>4, <1>9
  <2>1. CASE ShutsDown(out)
    <3> DEFINE e == [r EXCEPT !.offPending = TRUE]
               c == [s.tcp EXCEPT !.socket = "shut"]
               u == [out EXCEPT !.tcp = c]
               t == [u EXCEPT !.flows[f] = e]
    <3>1. c \in TcpState /\ c.socket = "shut" /\ c.references = s.tcp.references /\ c.message = s.tcp.message
      BY Parts DEF TcpState, Sockets
    <3>2. /\ e \in FlowState
          /\ e.nextNumber = r.nextNumber /\ e.wanted = r.wanted
          /\ e.paused = r.paused /\ e.socketError = r.socketError /\ e.on = r.on
          /\ e.timer = r.timer /\ e.offPending /\ e.limit = r.limit
      BY <1>1 DEF FlowState
    <3>3. Leave(out, f) = [out EXCEPT !.tcp.socket = "shut", !.flows[f].offPending = TRUE]
      BY <2>1 DEF Leave
    <3>4. [out EXCEPT !.tcp.socket = "shut", !.flows[f].offPending = TRUE] = t
      BY <1>6, <1>7 DEF Typed, States
    <3> HIDE DEF c, e
    <3>5. Typed(u) /\ u.flows = out.flows /\ u.tcp = c /\ u.pend = q /\ u.reconnects = s.reconnects /\ u.step = s.step
      BY <1>6, <3>1, TcpSet
    <3> HIDE DEF u
    <3>6. Typed(t) /\ t.flows = [u.flows EXCEPT ![f] = e] /\ t.tcp = c /\ t.pend = q
          /\ t.reconnects = s.reconnects /\ t.step = s.step
      BY <3>2, <3>5, FlowSet
    <3> HIDE DEF t
    <3>7. /\ \A g \in Flow \ {f} : t.flows[g] = s.flows[g]
          /\ t.flows[f] = e
      BY <1>6, <1>7, <3>5, <3>6, Parts
    <3>8. StopFlow(s, f) = t
      BY <2>0, <3>3, <3>4
    <3>9. IsConnected(s) /\ s.tcp.references = 1
      BY <1>6, <2>1 DEF ShutsDown, IsConnected
    <3> QED
      BY <1>1, <1>5, <1>9, <3>1, <3>2, <3>6, <3>7, <3>8, <3>9 DEF Stopped
  <2>2. CASE ~ShutsDown(out)
    <3> DEFINE k == IF s.tcp.references = 0 THEN 0 ELSE s.tcp.references - 1
               c == [s.tcp EXCEPT !.references = k]
               less == [out EXCEPT !.tcp = c]
               shut == Close(less)
               e == [r EXCEPT !.on = FALSE]
               t == [shut EXCEPT !.flows[f] = e]
    <3>1. k \in Nat /\ s.tcp \in TcpState /\ s.tcp.references \in Nat
      BY Parts DEF TcpState
    <3>2. c \in TcpState /\ c.socket = s.tcp.socket /\ c.references = k /\ c.message = s.tcp.message
      BY <3>1 DEF TcpState
    <3>3. Leave(out, f) = [Close([out EXCEPT !.tcp.references = IF @ = 0 THEN 0 ELSE @ - 1]) EXCEPT !.flows[f].on = FALSE]
      BY <2>2 DEF Leave
    <3>4. [out EXCEPT !.tcp.references = IF @ = 0 THEN 0 ELSE @ - 1] = less
      BY <1>6
    <3>5. /\ e \in FlowState
          /\ e.nextNumber = r.nextNumber /\ e.wanted = r.wanted
          /\ e.paused = r.paused /\ e.socketError = r.socketError /\ ~e.on
          /\ e.timer = r.timer /\ ~e.offPending /\ e.limit = r.limit
      BY <1>1 DEF FlowState
    <3>6. s.tcp.references = 1 => k = 0 /\ ~IsConnected(s)
      BY <1>6, <2>2 DEF ShutsDown, IsConnected
    <3> HIDE DEF c, k
    <3>7. Typed(less) /\ less.flows = out.flows /\ less.tcp = c /\ less.pend = q
          /\ less.reconnects = s.reconnects /\ less.step = s.step
      BY <1>6, <3>2, TcpSet
    <3> HIDE DEF less
    <3>8. /\ Typed(shut)
          /\ shut.flows = out.flows /\ shut.pend = q
          /\ shut.reconnects = s.reconnects /\ shut.step = s.step
          /\ shut.tcp.message = s.tcp.message
          /\ k = 0 => shut = less
      BY <3>2, <3>7, CloseEffect
    <3>9. [shut EXCEPT !.flows[f].on = FALSE] = t
      <4>1. [shut EXCEPT !.flows[f].on = FALSE] = [shut EXCEPT !.flows[f] = [shut.flows[f] EXCEPT !.on = FALSE]]
        OBVIOUS
      <4>2. shut.flows[f] = r
        BY <1>7, <3>8
      <4> HIDE DEF shut
      <4> QED
        BY <4>1, <4>2, Zenon
    <3>10. StopFlow(s, f) = t
      BY <2>0, <3>3, <3>4, <3>9
    <3> HIDE DEF shut, e
    <3>11. Typed(t) /\ t.flows = [shut.flows EXCEPT ![f] = e] /\ t.tcp = shut.tcp /\ t.pend = q
           /\ t.reconnects = s.reconnects /\ t.step = s.step
      BY <3>5, <3>8, FlowSet
    <3> HIDE DEF t
    <3>12. /\ \A g \in Flow \ {f} : t.flows[g] = s.flows[g]
           /\ t.flows[f] = e
      BY <1>6, <1>7, <3>8, <3>11, Parts
    <3> QED
      BY <1>1, <1>5, <1>9, <3>2, <3>5, <3>6, <3>7, <3>8, <3>10, <3>11, <3>12 DEF Stopped
  <2> QED
    BY <2>1, <2>2
<1> QED
  BY <1>8, <1>9

-------------------------------------------------------------------------------
(* What MgenTcpTransport::SendMessage does with a message of f.            *)

\* The message is out, with the number it took.
Sent(f, s, t) ==
  /\ About(f, s, t)
  /\ t.flows[f].nextNumber = 1
  /\ t.step = s.flows[f].nextNumber
  /\ t.pend = s.pend
  /\ t.flows[f].socketError => s.flows[f].socketError /\ ~(f \in Fast /\ s.flows[f].timer)

\* The message gave its number back.
Unsent(f, s, t) ==
  /\ Typed(t)
  /\ \A g \in Flow \ {f} : t.flows[g] = s.flows[g]
  /\ Stays(s.flows[f], t.flows[f])
  /\ t.flows[f].sent = s.flows[f].sent
  /\ t.flows[f].nextNumber = s.flows[f].nextNumber
  /\ t.flows[f].socketError => s.flows[f].socketError \/ f \in Fast
  /\ t.tcp.references = s.tcp.references
  /\ t.reconnects = s.reconnects
  /\ t.step = s.step
  /\ \/ Queued(t.pend) = Queued(s.pend) \cup {f}
     \/ t.pend = s.pend /\ t.flows[f].timer = s.flows[f].timer

\* Taking a number leaves the rest as it is.
LEMMA TakenEffect ==
  ASSUME NEW s, Typed(s), NEW f \in Flow
  PROVE  LET t == [s EXCEPT !.flows[f].nextNumber = @ + 1]
         IN /\ About(f, s, t)
            /\ t.flows[f].sent = s.flows[f].sent
            /\ t.flows[f].nextNumber = s.flows[f].nextNumber + 1
            /\ t.flows[f].socketError = s.flows[f].socketError
            /\ t.flows[f].timer = s.flows[f].timer
            /\ t.step = s.step /\ t.tcp = s.tcp /\ t.pend = s.pend
<1> DEFINE r == [s.flows[f] EXCEPT !.nextNumber = @ + 1]
           t == [s EXCEPT !.flows[f] = r]
<1>1. /\ r \in FlowState /\ Stays(s.flows[f], r) /\ r.sent = s.flows[f].sent
      /\ r.nextNumber = s.flows[f].nextNumber + 1
      /\ r.socketError = s.flows[f].socketError /\ r.timer = s.flows[f].timer
  BY Parts DEF FlowState, Stays
<1>2. [s EXCEPT !.flows[f].nextNumber = @ + 1] = t
  OBVIOUS
<1> HIDE DEF r
<1>3. /\ About(f, s, t) /\ t.flows[f] = r /\ t.step = s.step /\ t.tcp = s.tcp /\ t.pend = s.pend
  BY <1>1, FlowSet, AboutFlow
<1> HIDE DEF t
<1> QED
  BY <1>1, <1>2, <1>3

\* A message of f has taken its number, and nothing else but the connection
\* differs.
Took(f, s, u) ==
  /\ Typed(u)
  /\ \A g \in Flow \ {f} : u.flows[g] = s.flows[g]
  /\ Stays(s.flows[f], u.flows[f])
  /\ u.flows[f].sent = s.flows[f].sent
  /\ u.flows[f].nextNumber = s.flows[f].nextNumber + 1
  /\ u.flows[f].socketError = s.flows[f].socketError
  /\ u.flows[f].timer = s.flows[f].timer
  /\ u.tcp.references = s.tcp.references
  /\ u.reconnects = s.reconnects
  /\ u.step = s.step
  /\ u.pend = s.pend

LEMMA TookConnection ==
  ASSUME NEW s, NEW f \in Flow, NEW v, Took(f, s, v),
         NEW u, Typed(u), u.flows = v.flows, u.step = v.step, u.pend = v.pend,
         u.reconnects = v.reconnects, u.tcp.references = v.tcp.references
  PROVE  Took(f, s, u)
BY DEF Took

LEMMA GivenBack ==
  ASSUME NEW s, Typed(s), NEW f \in Flow, NEW u, Took(f, s, u)
  PROVE  /\ \A failed \in BOOLEAN :
              /\ Unsent(f, s, NotSent(u, f, failed))
              /\ NotSent(u, f, failed).tcp.socket = u.tcp.socket
              /\ NotSent(u, f, failed).tcp.message = u.tcp.message
         /\ \/ NotSent(u, f, FALSE).tcp.notify
            \/ NotSent(u, f, FALSE).pend = u.pend /\ NotSent(u, f, FALSE).tcp = u.tcp
<1>0. ASSUME NEW failed \in BOOLEAN
      PROVE  LET t == NotSent(u, f, failed)
             IN /\ Unsent(f, s, t)
                /\ t.tcp.socket = u.tcp.socket /\ t.tcp.message = u.tcp.message
                /\ failed \/ t.tcp.notify \/ (t.pend = u.pend /\ t.tcp = u.tcp)
  <2> DEFINE t == NotSent(u, f, failed)
  <2>1. /\ About(f, u, t)
        /\ t.flows[f].sent = u.flows[f].sent
        /\ t.flows[f].nextNumber = u.flows[f].nextNumber - 1
        /\ t.flows[f].socketError => u.flows[f].socketError \/ f \in Fast
        /\ t.step = u.step
        /\ \/ Queued(t.pend) = Queued(u.pend) \cup {f} /\ (failed \/ t.tcp.notify)
           \/ t.pend = u.pend /\ t.tcp = u.tcp /\ t.flows[f].timer = u.flows[f].timer
    BY NotSentEffect DEF Took
  <2> HIDE DEF t
  <2>2. s.flows[f].nextNumber \in Int
    BY Parts DEF FlowState
  <2>3. /\ Typed(t)
        /\ \A g \in Flow \ {f} : t.flows[g] = s.flows[g]
        /\ Stays(s.flows[f], t.flows[f])
        /\ t.tcp.references = s.tcp.references
        /\ t.reconnects = s.reconnects
        /\ t.tcp.socket = u.tcp.socket /\ t.tcp.message = u.tcp.message
    BY <2>1 DEF About, Stays, Took
  <2>4. t.flows[f].nextNumber = s.flows[f].nextNumber
    BY <2>1, <2>2 DEF Took
  <2>5. Unsent(f, s, t)
    BY <2>1, <2>3, <2>4 DEF Unsent, Took
  <2> QED
    BY <2>1, <2>3, <2>5 DEF t
<1>1. ASSUME NEW failed \in BOOLEAN
      PROVE  /\ Unsent(f, s, NotSent(u, f, failed))
             /\ NotSent(u, f, failed).tcp.socket = u.tcp.socket
             /\ NotSent(u, f, failed).tcp.message = u.tcp.message
  BY <1>0
<1>2. \/ NotSent(u, f, FALSE).tcp.notify
      \/ NotSent(u, f, FALSE).pend = u.pend /\ NotSent(u, f, FALSE).tcp = u.tcp
  BY NotSentEffect DEF Took
<1> QED
  BY <1>1, <1>2

\* The four outcomes of SendMessage.
LEMMA SendMessageEffect ==
  ASSUME NEW s, Typed(s), NEW f \in Flow, NEW write \in {"whole", "part", "error", "lost"},
         s.flows[f].on
  PROVE  LET t == SendMessage(s, f, write)
         IN IF IsTransmitting(s)
            THEN /\ Unsent(f, s, t)
                 /\ t.tcp.socket = s.tcp.socket /\ t.tcp.message = s.tcp.message
                 /\ t.tcp.notify \/ (t.pend = s.pend /\ t.tcp = s.tcp)
            ELSE /\ write = "whole" => Sent(f, s, t)
                 /\ write = "part" =>
                      /\ Unsent(f, s, t)
                      /\ t.tcp.socket = s.tcp.socket /\ t.tcp.notify
                      /\ t.tcp.message = [flow |-> f, number |-> s.flows[f].nextNumber]
                 /\ write = "error" =>
                      /\ Unsent(f, s, t)
                      /\ t.tcp.message = s.tcp.message
                      /\ t.tcp.socket = IF s.tcp.socket = "connected" THEN "broken" ELSE s.tcp.socket
                 /\ write = "lost" => Paused(s, t) \/ GivenUp(s, t)
<1> DEFINE number == s.flows[f].nextNumber
           taken == [s EXCEPT !.flows[f].nextNumber = @ + 1]
           t == SendMessage(s, f, write)
<1>1. number \in Int
  BY Parts DEF FlowState
<1>2. t = IF IsTransmitting(s) THEN NotSent(taken, f, FALSE)
          ELSE CASE write = "whole" -> SentOne(Notify(Completed(taken, f, number), FALSE), f)
                 [] write = "part"  -> NotSent([Notify(taken, TRUE) EXCEPT
                                                  !.tcp.message = [flow |-> f, number |-> number]], f, FALSE)
                 [] write = "error" -> NotSent([Notify(taken, FALSE) EXCEPT
                                                  !.tcp.socket = IF @ = "connected" THEN "broken" ELSE @], f, TRUE)
                 [] write = "lost"  -> NotSent(Notify(Disconnected(taken), FALSE), f, TRUE)
  BY DEF SendMessage
<1>3. /\ About(f, s, taken)
      /\ taken.flows[f].sent = s.flows[f].sent
      /\ taken.flows[f].nextNumber = number + 1
      /\ taken.flows[f].socketError = s.flows[f].socketError
      /\ taken.flows[f].timer = s.flows[f].timer
      /\ taken.step = s.step /\ taken.tcp = s.tcp /\ taken.pend = s.pend
  BY TakenEffect
<1> HIDE DEF taken, t
<1>4. Typed(taken) /\ taken.flows[f].on
  BY <1>3 DEF About, Stays
<1>10. Took(f, s, taken)
  BY <1>3 DEF Took, About
<1>5. CASE IsTransmitting(s)
  <2> DEFINE v == NotSent(taken, f, FALSE)
  <2>1. t = v
    BY <1>2, <1>5
  <2>2. /\ Unsent(f, s, v)
        /\ v.tcp.socket = taken.tcp.socket /\ v.tcp.message = taken.tcp.message
        /\ v.tcp.notify \/ (v.pend = taken.pend /\ v.tcp = taken.tcp)
    BY <1>10, GivenBack
  <2> HIDE DEF v
  <2> QED
    BY <1>3, <1>5, <2>1, <2>2 DEF t
<1>6. CASE ~IsTransmitting(s) /\ write = "whole"
  <2> DEFINE c == Completed(taken, f, number)
             u == Notify(c, FALSE)
             v == SentOne(u, f)
  <2>1. t = v
    BY <1>2, <1>6
  <2>2. /\ About(f, taken, c)
        /\ c.flows[f].nextNumber = taken.flows[f].nextNumber - number
        /\ c.flows[f].timer = taken.flows[f].timer
        /\ c.flows[f].socketError = taken.flows[f].socketError
        /\ c.step = number /\ c.tcp = taken.tcp /\ c.pend = taken.pend
    BY <1>1, <1>4, CompletedEffect
  <2> HIDE DEF c
  <2>3. About(f, s, c) /\ Typed(c)
    BY <1>3, <2>2, AboutAgain DEF About
  <2>4. /\ About(f, c, u) /\ u.flows = c.flows /\ u.step = c.step /\ u.pend = c.pend
    BY <2>3, NotifyEffect, AboutNotify
  <2> HIDE DEF u
  <2>5. About(f, s, u) /\ Typed(u)
    BY <2>3, <2>4, AboutAgain DEF About
  <2>6. /\ About(f, u, v)
        /\ v.flows[f].nextNumber = u.flows[f].nextNumber
        /\ v.step = u.step /\ v.pend = u.pend
        /\ v.flows[f].socketError => u.flows[f].socketError /\ ~(f \in Fast /\ u.flows[f].timer)
    BY <2>5, SentOneEffect
  <2> HIDE DEF v
  <2>7. About(f, s, v)
    BY <2>5, <2>6, AboutAgain
  <2>8. v.flows[f].nextNumber = 1
    BY <1>1, <1>3, <2>2, <2>4, <2>6
  <2>9. Sent(f, s, v)
    BY <1>3, <2>2, <2>4, <2>6, <2>7, <2>8 DEF Sent
  <2> QED
    BY <1>6, <2>1, <2>9 DEF t
<1>7. CASE ~IsTransmitting(s) /\ write = "part"
  <2> DEFINE m == [flow |-> f, number |-> number]
             n == Notify(taken, TRUE)
             c == [n.tcp EXCEPT !.message = m]
             u == [n EXCEPT !.tcp = c]
             v == NotSent(u, f, FALSE)
  <2>1. t = NotSent([n EXCEPT !.tcp.message = m], f, FALSE)
    BY <1>2, <1>7
  <2>2. /\ Typed(n) /\ n.flows = taken.flows /\ n.step = taken.step /\ n.pend = taken.pend
        /\ n.reconnects = taken.reconnects /\ n.tcp.socket = taken.tcp.socket
        /\ n.tcp.references = taken.tcp.references /\ n.tcp.notify
    BY <1>4, NotifyEffect
  <2>3. m \in Messages
    BY <1>1 DEF Messages
  <2>4. [n EXCEPT !.tcp.message = m] = u
    OBVIOUS
  <2> HIDE DEF m, n
  <2>5. c \in TcpState /\ c.message = m /\ c.socket = n.tcp.socket
        /\ c.references = n.tcp.references /\ c.notify
    BY <2>2, <2>3, Parts DEF TcpState
  <2> HIDE DEF c
  <2>6. Typed(u) /\ u.flows = taken.flows /\ u.tcp = c /\ u.pend = taken.pend
        /\ u.reconnects = taken.reconnects /\ u.step = taken.step
    BY <2>2, <2>5, TcpSet
  <2> HIDE DEF u
  <2>9. u.tcp.references = taken.tcp.references
    BY <2>2, <2>5, <2>6
  <2>10. Took(f, s, u)
    BY <1>10, <2>6, <2>9, TookConnection
  <2>7. /\ Unsent(f, s, v)
        /\ v.tcp.socket = u.tcp.socket /\ v.tcp.message = u.tcp.message
        /\ v.tcp.notify \/ (v.pend = u.pend /\ v.tcp = u.tcp)
    BY <2>10, GivenBack
  <2>8. t = v
    BY <2>1, <2>4
  <2> HIDE DEF v
  <2> QED
    BY <1>3, <1>7, <2>2, <2>5, <2>6, <2>7, <2>8 DEF t, m
<1>8. CASE ~IsTransmitting(s) /\ write = "error"
  <2> DEFINE n == Notify(taken, FALSE)
             z == IF n.tcp.socket = "connected" THEN "broken" ELSE n.tcp.socket
             c == [n.tcp EXCEPT !.socket = z]
             u == [n EXCEPT !.tcp = c]
             v == NotSent(u, f, TRUE)
  <2>1. t = NotSent([n EXCEPT !.tcp.socket = IF @ = "connected" THEN "broken" ELSE @], f, TRUE)
    BY <1>2, <1>8
  <2>2. /\ Typed(n) /\ n.flows = taken.flows /\ n.step = taken.step /\ n.pend = taken.pend
        /\ n.reconnects = taken.reconnects /\ n.tcp.socket = taken.tcp.socket
        /\ n.tcp.references = taken.tcp.references /\ n.tcp.message = taken.tcp.message
    BY <1>4, NotifyEffect
  <2>3. [n EXCEPT !.tcp.socket = IF @ = "connected" THEN "broken" ELSE @] = u
    OBVIOUS
  <2> HIDE DEF n
  <2>4. z \in Sockets
    BY <2>2, Parts DEF TcpState, Sockets
  <2> HIDE DEF z
  <2>5. c \in TcpState /\ c.message = n.tcp.message /\ c.socket = z /\ c.references = n.tcp.references
    BY <2>2, <2>4, Parts DEF TcpState
  <2> HIDE DEF c
  <2>6. Typed(u) /\ u.flows = taken.flows /\ u.tcp = c /\ u.pend = taken.pend
        /\ u.reconnects = taken.reconnects /\ u.step = taken.step
    BY <2>2, <2>5, TcpSet
  <2> HIDE DEF u
  <2>9. u.tcp.references = taken.tcp.references
    BY <2>2, <2>5, <2>6
  <2>10. Took(f, s, u)
    BY <1>10, <2>6, <2>9, TookConnection
  <2>7. /\ Unsent(f, s, v)
        /\ v.tcp.socket = u.tcp.socket /\ v.tcp.message = u.tcp.message
    BY <2>10, GivenBack
  <2>8. t = v
    BY <2>1, <2>3
  <2> HIDE DEF v
  <2> QED
    BY <1>3, <1>8, <2>2, <2>5, <2>6, <2>7, <2>8 DEF t, z
<1>9. CASE ~IsTransmitting(s) /\ write = "lost"
  <2> DEFINE d == Disconnected(taken)
             u == Notify(d, FALSE)
             v == NotSent(u, f, TRUE)
  <2>1. t = v
    BY <1>2, <1>9
  <2>2. Paused(taken, d) \/ GivenUp(taken, d)
    BY <1>4, DisconnectedEffect
  <2> HIDE DEF d
  <2>3. Typed(d) /\ d.tcp.socket \in {"closed", "idle"}
    BY <2>2 DEF Paused, GivenUp
  <2>4. /\ Typed(u) /\ u.flows = d.flows /\ u.step = d.step /\ u.pend = d.pend
        /\ u.reconnects = d.reconnects /\ u.tcp.socket = d.tcp.socket
        /\ u.tcp.references = d.tcp.references /\ u.tcp.message = d.tcp.message
    BY <2>3, NotifyEffect
  <2> HIDE DEF u
  <2>5. ~IsConnected(u)
    BY <2>3, <2>4 DEF IsConnected
  <2>6. /\ About(f, u, v)
        /\ v.flows[f].nextNumber = u.flows[f].nextNumber - 1
        /\ v.flows[f].socketError = u.flows[f].socketError
        /\ v.flows[f].timer = u.flows[f].timer
        /\ v.step = u.step /\ v.pend = u.pend /\ v.tcp = u.tcp
    BY <2>4, <2>5, NotSentEffect
  <2> HIDE DEF v
  <2>7. v.reconnects = d.reconnects /\ Typed(v)
        /\ v.tcp.socket = d.tcp.socket /\ v.tcp.message = d.tcp.message
        /\ v.tcp.references = d.tcp.references
        /\ \A g \in Flow \ {f} : v.flows[g] = d.flows[g]
        /\ Stays(d.flows[f], v.flows[f])
    BY <2>4, <2>6 DEF About
  <2>8. Using(taken) = Using(s)
    BY <1>3, <1>4 DEF Using, About, Stays
  <2>9. CASE Paused(taken, d)
    <3>1. PausedFlow(s.flows[f], v.flows[f])
      <4>1. PausedFlow(taken.flows[f], d.flows[f])
        BY <2>9 DEF Paused
      <4> QED
        BY <1>1, <1>3, <1>4, <2>4, <2>6, <2>7, <4>1 DEF PausedFlow, About, Stays
    <3>2. ASSUME NEW g \in Flow \ {f} PROVE PausedFlow(s.flows[g], v.flows[g])
      <4>1. PausedFlow(taken.flows[g], d.flows[g])
        BY <2>9 DEF Paused
      <4> QED
        BY <1>3, <2>7, <4>1 DEF About
    <3>3. /\ v.tcp.socket = "idle" /\ v.tcp.references = s.tcp.references
          /\ v.tcp.message = s.tcp.message /\ v.pend = s.pend
          /\ v.reconnects = s.reconnects \cup Using(s) /\ v.step = s.step
      BY <1>3, <2>4, <2>6, <2>7, <2>8, <2>9 DEF Paused, About
    <3>4. Paused(s, v)
      BY <2>7, <3>1, <3>2, <3>3 DEF Paused
    <3> QED
      BY <1>9, <2>1, <3>4 DEF t
  <2>10. CASE GivenUp(taken, d)
    <3>1. GivenUpFlow(s.flows[f], v.flows[f])
      <4>1. GivenUpFlow(taken.flows[f], d.flows[f])
        BY <2>10 DEF GivenUp
      <4> QED
        BY <1>1, <1>3, <1>4, <2>4, <2>6, <2>7, <4>1 DEF GivenUpFlow, About, Stays
    <3>2. ASSUME NEW g \in Flow \ {f} PROVE GivenUpFlow(s.flows[g], v.flows[g])
      <4>1. GivenUpFlow(taken.flows[g], d.flows[g])
        BY <2>10 DEF GivenUp
      <4> QED
        BY <1>3, <2>7, <4>1 DEF About
    <3>3. /\ v.tcp.socket \in {"closed", "idle"}
          /\ s.tcp.references = Cardinality(Using(s)) => v.tcp.references = 0
          /\ ~IsTransmitting(v) /\ v.pend = s.pend
          /\ v.reconnects = s.reconnects /\ v.step = s.step
      BY <1>3, <2>4, <2>6, <2>7, <2>8, <2>10 DEF GivenUp, About, IsTransmitting
    <3>4. GivenUp(s, v)
      BY <2>7, <3>1, <3>2, <3>3 DEF GivenUp
    <3> QED
      BY <1>9, <2>1, <3>4 DEF t
  <2> QED
    BY <2>2, <2>9, <2>10
<1> QED
  BY <1>5, <1>6, <1>7, <1>8, <1>9

-------------------------------------------------------------------------------
(* The invariant.                                                          *)

\* A flow that has taken no number is at 0 or 1, and one whose message is on
\* its way is where that message left it.
Numbers(s) ==
  /\ s.step \in 0..1
  /\ \A f \in Flow : s.flows[f].nextNumber \in 0..1
  /\ IsTransmitting(s) => s.flows[s.tcp.message.flow].nextNumber = s.tcp.message.number

\* Who holds the connection.  OFF can wait only for a flow that is alone on it.
OffAlone(s) ==
  \A f, g \in Flow : s.flows[f].offPending /\ s.flows[g].on => g = f

References(s) ==
  /\ s.tcp.references = Cardinality(Using(s))
  /\ s.tcp.socket = "closed" => Using(s) = {}
  /\ s.tcp.socket = "idle" => \A f \in Using(s) : s.flows[f].paused
  /\ \A f \in Flow : s.flows[f].offPending => s.flows[f].on
  /\ \A f \in Using(s) : s.flows[f].wanted \/ s.flows[f].offPending
  /\ OffAlone(s)
  /\ IsTransmitting(s) => s.flows[s.tcp.message.flow].on

\* Who is woken.
May(s, f) == s.flows[f].on /\ ~LimitReached(s, f)

Timed(s, f) == s.flows[f].timer \/ f \in s.reconnects

Blocked(s) == \E g \in Queued(s.pend) : LimitReached(s, g) \/ ~s.flows[g].on

Woken(s) ==
  /\ \A f \in Flow : s.flows[f].paused /\ s.flows[f].on => f \in s.reconnects
  /\ \A f \in Flow : s.flows[f].paused => s.flows[f].wanted \/ s.flows[f].offPending
  /\ \A f \in Flow : s.flows[f].paused /\ s.flows[f].offPending => s.tcp.socket = "idle" /\ ~s.flows[f].timer
  /\ \A f \in Flow : s.flows[f].socketError => f \in Fast
  /\ \A f \in Queued(s.pend), h \in Flow : s.flows[h].on /\ h # f => s.flows[f].on
  /\ s.tcp.socket \in {"connecting", "connected"} =>
       \A f \in Flow : May(s, f) => Timed(s, f) \/ f \in Queued(s.pend)

Served(s, loop) ==
  /\ loop # NotServing => s.tcp.socket = "connected" /\ ~IsTransmitting(s)
  /\ s.tcp.socket = "connected" /\ loop = NotServing /\ ~s.tcp.notify =>
       Blocked(s) \/ \A f \in Flow : May(s, f) => Timed(s, f)

-------------------------------------------------------------------------------
(* What keeps its parts, helper by helper.                                 *)

\* The numbers of the flows, and the message, stay.
SameNumbers(s, t) ==
  /\ \A f \in Flow : t.flows[f].nextNumber = s.flows[f].nextNumber
  /\ t.step = s.step
  /\ t.tcp.message = s.tcp.message \/ ~IsTransmitting(t)

\* A message on its way has a flow.
LEMMA MessageFlow ==
  ASSUME NEW s, Typed(s), IsTransmitting(s)
  PROVE  s.tcp.message.flow \in Flow /\ s.tcp.message.number \in Int
BY Parts DEF TcpState, Messages, IsTransmitting

\* The numbers stay right when they stay.
LEMMA NumbersKept ==
  ASSUME NEW s, Typed(s), Numbers(s), NEW t, SameNumbers(s, t)
  PROVE  Numbers(t)
BY MessageFlow DEF Numbers, SameNumbers, IsTransmitting

\* A connection that is lost changes no number.
LEMMA NumbersPaused ==
  ASSUME NEW s, Typed(s), Numbers(s), NEW t, Paused(s, t) \/ GivenUp(s, t)
  PROVE  Numbers(t)
<1>1. CASE Paused(s, t)
  BY <1>1, NumbersKept DEF Paused, PausedFlow, SameNumbers
<1>2. CASE GivenUp(s, t)
  BY <1>2, NumbersKept DEF GivenUp, GivenUpFlow, SameNumbers
<1> QED
  BY <1>1, <1>2

LEMMA NumbersOfShapes ==
  ASSUME NEW s, Typed(s), Numbers(s), NEW t, NEW f \in Flow,
         \/ Stopped(f, s, t)
         \/ Unsent(f, s, t) /\ t.tcp.message = s.tcp.message
         \/ About(f, s, t) /\ t.flows[f].nextNumber = s.flows[f].nextNumber /\ t.step = s.step
  PROVE  Numbers(t)
<1>3. CASE Stopped(f, s, t)
  <2>1. \A g \in Flow : t.flows[g].nextNumber = s.flows[g].nextNumber
    BY <1>3 DEF Stopped
  <2> QED
    BY <1>3, <2>1, NumbersKept DEF Stopped, SameNumbers
<1>4. CASE Unsent(f, s, t) /\ t.tcp.message = s.tcp.message
  <2>1. \A g \in Flow : t.flows[g].nextNumber = s.flows[g].nextNumber
    BY <1>4 DEF Unsent
  <2> QED
    BY <1>4, <2>1, NumbersKept DEF Unsent, SameNumbers
<1>5. CASE About(f, s, t) /\ t.flows[f].nextNumber = s.flows[f].nextNumber /\ t.step = s.step
  <2>1. \A g \in Flow : t.flows[g].nextNumber = s.flows[g].nextNumber
    BY <1>5 DEF About
  <2> QED
    BY <1>5, <2>1, NumbersKept DEF About, SameNumbers
<1> QED
  BY <1>3, <1>4, <1>5

\* A message that goes, or begins to.
LEMMA NumbersSent ==
  ASSUME NEW s, Typed(s), Numbers(s), NEW t, NEW f \in Flow, Sent(f, s, t), ~IsTransmitting(s)
  PROVE  Numbers(t)
<1>1. \A g \in Flow : t.flows[g].nextNumber \in 0..1
  <2>1. t.flows[f].nextNumber \in 0..1
    BY DEF Sent
  <2>2. \A g \in Flow \ {f} : t.flows[g] = s.flows[g]
    BY DEF Sent, About
  <2> QED
    BY <2>1, <2>2 DEF Numbers
<1>2. t.step \in 0..1
  BY DEF Sent, Numbers
<1>3. ~IsTransmitting(t)
  BY DEF Sent, About, IsTransmitting
<1> QED
  BY <1>1, <1>2, <1>3 DEF Numbers

\* A part of a message leaves the number with it.
LEMMA NumbersPart ==
  ASSUME NEW s, Typed(s), Numbers(s), NEW t, NEW f \in Flow, Unsent(f, s, t),
         t.tcp.message = [flow |-> f, number |-> s.flows[f].nextNumber]
  PROVE  Numbers(t)
<1>1. \A g \in Flow : t.flows[g].nextNumber = s.flows[g].nextNumber
  BY DEF Unsent
<1> QED
  BY <1>1 DEF Numbers, Unsent

-------------------------------------------------------------------------------
LEMMA OneFlow ==
  ASSUME NEW s, NEW f \in Flow, Using(s) = {f}
  PROVE  Cardinality(Using(s)) = 1
BY FS_Singleton

\* A connection without flows has no references.
LEMMA NoFlowUses ==
  ASSUME NEW s, Using(s) = {}
  PROVE  Cardinality(Using(s)) = 0
BY FS_EmptySet

\* Nobody joins or leaves the connection.
SameUse(s, t) ==
  /\ \A f \in Flow :
       /\ t.flows[f].on = s.flows[f].on
       /\ t.flows[f].wanted = s.flows[f].wanted
       /\ t.flows[f].offPending = s.flows[f].offPending
  /\ t.tcp.references = s.tcp.references
  /\ \/ t.tcp.socket \notin {"closed", "idle"}
     \/ t.tcp.socket = s.tcp.socket /\ \A f \in Flow : t.flows[f].paused = s.flows[f].paused
  /\ \/ ~IsTransmitting(t)
     \/ t.tcp.message = s.tcp.message
     \/ t.tcp.message.flow \in Flow /\ t.flows[t.tcp.message.flow].on

\* The references stay right when nobody joins or leaves.
LEMMA ReferencesKept ==
  ASSUME NEW s, Typed(s), References(s), NEW t, SameUse(s, t)
  PROVE  References(t)
<1>1. Using(t) = Using(s)
  BY DEF Using, SameUse
<1>2. OffAlone(t)
  BY DEF References, OffAlone, SameUse
<1>3. IsTransmitting(t) => t.flows[t.tcp.message.flow].on
  <2> SUFFICES ASSUME IsTransmitting(t), t.tcp.message = s.tcp.message
               PROVE  t.flows[t.tcp.message.flow].on
    BY DEF SameUse
  <2>1. IsTransmitting(s)
    BY DEF IsTransmitting
  <2>2. s.tcp.message.flow \in Flow /\ s.flows[s.tcp.message.flow].on
    BY <2>1, MessageFlow DEF References
  <2> QED
    BY <2>2 DEF SameUse
<1>4. t.tcp.socket = "closed" => Using(t) = {}
  BY <1>1 DEF References, SameUse
<1>5. t.tcp.socket = "idle" => \A f \in Using(t) : t.flows[f].paused
  BY <1>1, UsingFinite DEF References, SameUse
<1>6. /\ \A f \in Flow : t.flows[f].offPending => t.flows[f].on
      /\ \A f \in Using(t) : t.flows[f].wanted \/ t.flows[f].offPending
  BY <1>1, UsingFinite DEF References, SameUse
<1> QED
  BY <1>1, <1>2, <1>3, <1>4, <1>5, <1>6 DEF References, SameUse

\* A change about one flow is of that kind.
LEMMA ReferencesAbout ==
  ASSUME NEW s, Typed(s), References(s), NEW t, NEW f \in Flow, About(f, s, t)
  PROVE  References(t)
<1>1. \A g \in Flow : Stays(s.flows[g], t.flows[g])
  BY DEF About, Stays
<1>2. SameUse(s, t)
  BY <1>1 DEF About, Stays, SameUse
<1> QED
  BY <1>2, ReferencesKept

\* So is a message that was not sent.
LEMMA ReferencesUnsent ==
  ASSUME NEW s, Typed(s), References(s), NEW t, NEW f \in Flow, Unsent(f, s, t),
         t.tcp.socket = s.tcp.socket \/ t.tcp.socket = "broken",
         t.tcp.message = s.tcp.message \/ (t.tcp.message.flow = f /\ s.flows[f].on)
  PROVE  References(t)
<1>1. \A g \in Flow : Stays(s.flows[g], t.flows[g])
  BY DEF Unsent, Stays
<1>2. SameUse(s, t)
  BY <1>1 DEF Unsent, Stays, SameUse
<1> QED
  BY <1>2, ReferencesKept

\* A connection to be made again keeps its flows and their references.
LEMMA ReferencesPaused ==
  ASSUME NEW s, Typed(s), References(s), NEW t, Paused(s, t)
  PROVE  References(t)
<1>1. \A f \in Flow : PausedFlow(s.flows[f], t.flows[f])
  BY DEF Paused
<1>2. Using(t) = Using(s)
  BY <1>1 DEF Using, PausedFlow
<1>3. \A f \in Using(t) : t.flows[f].paused
  BY <1>1, <1>2 DEF Using, PausedFlow
<1>4. OffAlone(t)
  BY <1>1 DEF References, OffAlone, PausedFlow
<1>5. IsTransmitting(t) => t.flows[t.tcp.message.flow].on
  BY <1>1, MessageFlow DEF References, Paused, PausedFlow, IsTransmitting
<1>6. /\ \A f \in Flow : t.flows[f].offPending => t.flows[f].on
      /\ \A f \in Using(t) : t.flows[f].wanted \/ t.flows[f].offPending
  BY <1>1, <1>2, UsingFinite DEF References, PausedFlow
<1> QED
  BY <1>2, <1>3, <1>4, <1>5, <1>6 DEF References, Paused

\* One given up has neither.
LEMMA ReferencesGivenUp ==
  ASSUME NEW s, Typed(s), References(s), NEW t, GivenUp(s, t)
  PROVE  References(t)
<1>1. \A f \in Flow : GivenUpFlow(s.flows[f], t.flows[f])
  BY DEF GivenUp
<1>2. Using(t) = {}
  BY <1>1 DEF Using, GivenUpFlow
<1>3. \A f \in Flow : ~t.flows[f].offPending
  BY <1>1 DEF References, GivenUpFlow
<1>4. OffAlone(t)
  BY <1>3 DEF OffAlone
<1>5. t.tcp.references = 0 /\ ~IsTransmitting(t)
  BY DEF References, GivenUp
<1> QED
  BY <1>2, <1>3, <1>4, <1>5, NoFlowUses DEF References

\* A flow that stops alone leaves the connection shut, or unused.
LEMMA ReferencesStopped ==
  ASSUME NEW s, Typed(s), References(s), NEW t, NEW f \in Flow, Stopped(f, s, t),
         Using(s) \subseteq {f},
         IsTransmitting(s) => IsConnected(s)
  PROVE  References(t)
<1>1. CASE ~s.flows[f].on
  <2>1. ~t.flows[f].on /\ ~t.flows[f].offPending /\ t.tcp = s.tcp
    BY <1>1 DEF Stopped
  <2>2. Using(s) = {} /\ Using(t) = {}
    BY <1>1, <2>1 DEF Using, Stopped
  <2>3. \A g \in Flow : ~t.flows[g].offPending
    BY <2>1, <2>2 DEF Stopped, References, Using
  <2>4. OffAlone(t)
    BY <2>3 DEF OffAlone
  <2>5. ~IsTransmitting(t)
    BY <2>1, <2>2, MessageFlow DEF IsTransmitting, References, Using
  <2> QED
    BY <2>1, <2>2, <2>3, <2>4, <2>5, NoFlowUses DEF References
<1>2. CASE s.flows[f].on
  <2>1. Using(s) = {f} /\ s.tcp.references = 1
    BY <1>2, OneFlow DEF Using, References
  <2>2. CASE IsConnected(s)
    <3>1. t.flows[f].on /\ t.flows[f].offPending /\ t.tcp.socket = "shut" /\ t.tcp.references = 1
      BY <1>2, <2>1, <2>2 DEF Stopped
    <3>2. Using(t) = {f} /\ \A g \in Flow \ {f} : ~t.flows[g].offPending /\ ~t.flows[g].on
      BY <2>1, <3>1 DEF Using, Stopped, References
    <3>3. OffAlone(t)
      BY <3>2 DEF OffAlone
    <3>4. IsTransmitting(t) => t.flows[t.tcp.message.flow].on
      <4> SUFFICES ASSUME IsTransmitting(t) PROVE t.flows[t.tcp.message.flow].on
        OBVIOUS
      <4>1. IsTransmitting(s) /\ t.tcp.message = s.tcp.message
        BY DEF IsTransmitting, Stopped
      <4>2. s.tcp.message.flow \in Using(s)
        BY <4>1, MessageFlow DEF References, Using
      <4> QED
        BY <2>1, <3>1, <4>1, <4>2
    <3> QED
      BY <3>1, <3>2, <3>3, <3>4, OneFlow DEF References
  <2>3. CASE ~IsConnected(s)
    <3>1. ~t.flows[f].on /\ ~t.flows[f].offPending /\ t.tcp.references = 0
      BY <1>2, <2>1, <2>3 DEF Stopped
    <3>2. Using(t) = {} /\ \A g \in Flow : ~t.flows[g].offPending
      BY <2>1, <3>1 DEF Using, Stopped, References
    <3>3. OffAlone(t)
      BY <3>2 DEF OffAlone
    <3>4. ~IsTransmitting(t)
      BY <2>3 DEF IsTransmitting, Stopped
    <3> QED
      BY <3>1, <3>2, <3>3, <3>4, NoFlowUses DEF References
  <2> QED
    BY <2>2, <2>3
<1> QED
  BY <1>1, <1>2

-------------------------------------------------------------------------------
\* What is done for f wakes it, and leaves the others as they are.
Wakeful(f, s, t) ==
  /\ Typed(t)
  /\ \A g \in Flow \ {f} : t.flows[g] = s.flows[g]
  /\ Stays(s.flows[f], t.flows[f])
  /\ t.reconnects = s.reconnects
  /\ t.tcp.socket = s.tcp.socket \/ (s.tcp.socket = "connected" /\ t.tcp.socket = "broken")
  /\ Queued(t.pend) \ {f} = Queued(s.pend) \ {f}
  /\ f \in Queued(t.pend) => f \in Queued(s.pend) \/ s.flows[f].on
  /\ t.flows[f].socketError => s.flows[f].socketError \/ f \in Fast
  /\ t.flows[f].timer => s.flows[f].timer \/ ~s.flows[f].paused \/ ~s.flows[f].offPending
  /\ t.tcp.socket \in {"connecting", "connected"} /\ May(t, f) => Timed(t, f) \/ f \in Queued(t.pend)

\* What wakes f and disturbs nobody keeps everyone woken.
LEMMA WokenAbout ==
  ASSUME NEW s, Typed(s), Woken(s), NEW t, NEW f \in Flow, Wakeful(f, s, t)
  PROVE  Woken(t)
<1>0. Typed(t)
  BY DEF Wakeful
<1>1. \A g \in Flow : Stays(s.flows[g], t.flows[g])
  BY DEF Stays, Wakeful
<1>2. \A g \in Flow : t.flows[g].paused /\ t.flows[g].on => g \in t.reconnects
  BY <1>1 DEF Woken, Stays, Wakeful
<1>3. \A g \in Flow : t.flows[g].paused => t.flows[g].wanted \/ t.flows[g].offPending
  BY <1>1 DEF Woken, Stays, Wakeful
<1>4. ASSUME NEW g \in Flow, t.flows[g].paused, t.flows[g].offPending
      PROVE  t.tcp.socket = "idle" /\ ~t.flows[g].timer
  <2>1. s.flows[g].paused /\ s.flows[g].offPending
    BY <1>1, <1>4 DEF Stays
  <2>2. s.tcp.socket = "idle" /\ ~s.flows[g].timer
    BY <2>1 DEF Woken
  <2>3. ~t.flows[g].timer
    BY <2>1, <2>2 DEF Wakeful
  <2> QED
    BY <2>2, <2>3 DEF Wakeful
<1>5. \A g \in Flow : t.flows[g].socketError => g \in Fast
  BY DEF Woken, Wakeful
<1>6. ASSUME NEW g \in Queued(t.pend), NEW h \in Flow, t.flows[h].on, h # g
      PROVE  t.flows[g].on
  <2>1. g \in Flow
    BY <1>0, Parts, RoundElim
  <2>2. s.flows[h].on
    BY <1>1, <1>6 DEF Stays
  <2>3. s.flows[g].on
    BY <1>6, <2>1, <2>2 DEF Woken, Wakeful
  <2> QED
    BY <1>1, <2>1, <2>3 DEF Stays
<1>7. ASSUME t.tcp.socket \in {"connecting", "connected"}, NEW g \in Flow, May(t, g)
      PROVE  Timed(t, g) \/ g \in Queued(t.pend)
  <2>1. CASE g = f
    BY <1>7, <2>1 DEF Wakeful
  <2>2. CASE g # f
    <3>1. t.flows[g] = s.flows[g] /\ s.tcp.socket \in {"connecting", "connected"}
      BY <1>7, <2>2 DEF Wakeful
    <3>2. May(s, g)
      BY <1>7, <3>1 DEF May, LimitReached
    <3>3. Timed(s, g) \/ g \in Queued(s.pend)
      BY <3>1, <3>2 DEF Woken
    <3> QED
      BY <2>2, <3>1, <3>3 DEF Timed, Wakeful
  <2> QED
    BY <2>1, <2>2
<1> QED
  BY <1>2, <1>3, <1>4, <1>5, <1>6, <1>7 DEF Woken

\* Every paused flow has its RECONNECT to come.
LEMMA WokenPaused ==
  ASSUME NEW s, Typed(s), References(s), Woken(s), NEW t, Paused(s, t)
  PROVE  Woken(t)
<1>1. \A f \in Flow : PausedFlow(s.flows[f], t.flows[f])
  BY DEF Paused
<1>2. \A f \in Flow : t.flows[f].paused /\ t.flows[f].on => f \in t.reconnects
  BY <1>1 DEF Paused, PausedFlow, Using
<1>3. \A f \in Flow : t.flows[f].paused => t.flows[f].wanted \/ t.flows[f].offPending
  BY <1>1 DEF PausedFlow, Using, Woken, References
<1>4. \A f \in Flow : t.flows[f].offPending => ~t.flows[f].timer
  BY <1>1 DEF PausedFlow, References
<1>5. \A f \in Flow : t.flows[f].socketError => f \in Fast
  BY <1>1 DEF PausedFlow, Woken
<1>6. ASSUME NEW g \in Queued(t.pend), NEW h \in Flow, t.flows[h].on, h # g
      PROVE  t.flows[g].on
  <2>1. g \in Flow /\ g \in Queued(s.pend)
    BY Parts, RoundElim DEF Paused
  <2>2. s.flows[h].on
    BY <1>1, <1>6 DEF PausedFlow
  <2>3. s.flows[g].on
    BY <1>6, <2>1, <2>2 DEF Woken
  <2> QED
    BY <1>1, <2>1, <2>3 DEF PausedFlow
<1> QED
  BY <1>2, <1>3, <1>4, <1>5, <1>6 DEF Woken, Paused

\* Nobody is left on a connection that was given up.
LEMMA WokenGivenUp ==
  ASSUME NEW s, Typed(s), References(s), Woken(s), NEW t, GivenUp(s, t), s.tcp.socket # "idle"
  PROVE  Woken(t)
<1>1. \A f \in Flow : GivenUpFlow(s.flows[f], t.flows[f])
  BY DEF GivenUp
<1>2. \A f \in Flow : ~t.flows[f].on
  BY <1>1 DEF GivenUpFlow
<1>3. \A f \in Flow : ~t.flows[f].offPending
  BY <1>1 DEF GivenUpFlow, References
<1>4. \A f \in Flow : t.flows[f].paused => t.flows[f].wanted
  BY <1>1 DEF GivenUpFlow, Woken
<1>5. \A f \in Flow : t.flows[f].socketError => f \in Fast
  BY <1>1 DEF GivenUpFlow, Woken
<1> QED
  BY <1>2, <1>3, <1>4, <1>5 DEF Woken, May

\* Nor on one whose only flow stops, unless it is shut down.
LEMMA WokenStopped ==
  ASSUME NEW s, Typed(s), References(s), Woken(s), NEW t, NEW f \in Flow, Stopped(f, s, t),
         Using(s) \subseteq {f}, ~s.flows[f].paused
  PROVE  Woken(t) /\ \A h \in Flow : t.flows[h].on => t.tcp.socket = "shut"
<1>1. \A g \in Flow \ {f} : t.flows[g] = s.flows[g] /\ ~t.flows[g].on /\ ~t.flows[g].offPending
  BY DEF Stopped, Using, References
<1>2. ~t.flows[f].paused
  BY DEF Stopped
<1>3. \A h \in Flow : t.flows[h].on => h = f /\ t.tcp.socket = "shut"
  <2>1. CASE ~s.flows[f].on
    BY <1>1, <2>1 DEF Stopped
  <2>2. CASE s.flows[f].on
    <3>1. s.tcp.references = 1
      BY <2>2, OneFlow DEF Using, References
    <3> QED
      BY <1>1, <2>2, <3>1 DEF Stopped
  <2> QED
    BY <2>1, <2>2
<1>4. \A g \in Flow : t.flows[g].paused => t.flows[g].wanted \/ t.flows[g].offPending
  BY <1>1, <1>2 DEF Woken
<1>5. \A g \in Flow : t.flows[g].socketError => g \in Fast
  BY DEF Woken, Stopped
<1>6. ASSUME NEW g \in Queued(t.pend), NEW h \in Flow, t.flows[h].on, h # g
      PROVE  t.flows[g].on
  <2>1. h = f /\ s.flows[f].on
    BY <1>3, <1>6 DEF Stopped
  <2>2. g \in Flow /\ g \in Queued(s.pend)
    BY <2>1, Parts, RoundElim DEF Stopped
  <2>3. s.flows[g].on
    BY <1>6, <2>1, <2>2 DEF Woken
  <2> QED
    BY <1>6, <2>1, <2>2, <2>3 DEF Using
<1> QED
  BY <1>1, <1>2, <1>3, <1>4, <1>5, <1>6 DEF Woken, May

\* Nothing is asked of a connection that asks for output, or cannot give it.
LEMMA ServedNotified ==
  ASSUME NEW t, t.tcp.notify \/ t.tcp.socket # "connected"
  PROVE  Served(t, NotServing)
BY DEF Served

\* f is timed or may not send, and whom it blocked it still blocks.
Patient(f, s, t) ==
  /\ \A g \in Flow \ {f} : t.flows[g] = s.flows[g]
  /\ t.reconnects \ {f} = s.reconnects \ {f}
  /\ t.tcp.socket = "connected" /\ ~t.tcp.notify => s.tcp.socket = "connected" /\ ~s.tcp.notify
  /\ t.pend = s.pend
  /\ May(t, f) => Timed(t, f)
  /\ f \in Queued(s.pend) /\ (LimitReached(s, f) \/ ~s.flows[f].on) =>
       \/ LimitReached(t, f)
       \/ ~t.flows[f].on
       \/ \A h \in Flow \ {f} : ~t.flows[h].on

\* Patience with f loses nobody the service.
LEMMA ServedAbout ==
  ASSUME NEW s, Typed(s), Served(s, NotServing), NEW t, NEW f \in Flow, Patient(f, s, t)
  PROVE  Served(t, NotServing)
<1> SUFFICES ASSUME t.tcp.socket = "connected", ~t.tcp.notify
             PROVE  Blocked(t) \/ \A h \in Flow : May(t, h) => Timed(t, h)
  BY DEF Served
<1>1. Blocked(s) \/ \A h \in Flow : May(s, h) => Timed(s, h)
  BY DEF Served, Patient
<1>2. \A h \in Flow \ {f} : /\ May(t, h) <=> May(s, h)
                            /\ Timed(t, h) <=> Timed(s, h)
                            /\ LimitReached(t, h) <=> LimitReached(s, h)
  BY DEF May, Timed, LimitReached, Patient
<1>3. CASE \A h \in Flow : May(s, h) => Timed(s, h)
  BY <1>2, <1>3 DEF Patient
<1>4. CASE Blocked(s)
  <2>1. PICK g \in Queued(s.pend) : LimitReached(s, g) \/ ~s.flows[g].on
    BY <1>4 DEF Blocked
  <2>2. g \in Flow
    BY Parts, RoundElim
  <2>3. CASE g # f
    BY <1>2, <2>1, <2>2, <2>3 DEF Blocked, Patient
  <2>4. CASE g = f
    <3>1. CASE \A h \in Flow \ {f} : ~t.flows[h].on
      BY <3>1 DEF May, Patient
    <3>2. CASE LimitReached(t, f) \/ ~t.flows[f].on
      BY <2>1, <2>4, <3>2 DEF Blocked, Patient
    <3> QED
      BY <2>1, <2>4, <3>1, <3>2 DEF Patient
  <2> QED
    BY <2>3, <2>4
<1> QED
  BY <1>1, <1>3, <1>4

\* Nobody waits for the connection.
Alone(f, s, t) ==
  /\ Queued(s.pend) = {}
  /\ \A g \in Flow \ {f} : t.flows[g] = s.flows[g]
  /\ t.reconnects = s.reconnects
  /\ t.tcp.socket = "connected" => s.tcp.socket = "connected"
  /\ May(t, f) => Timed(t, f)

\* Without a round robin there is nobody to wait for.
LEMMA ServedEmpty ==
  ASSUME NEW s, Typed(s), Woken(s), NEW t, NEW f \in Flow, Alone(f, s, t)
  PROVE  Served(t, NotServing)
<1> SUFFICES ASSUME t.tcp.socket = "connected", NEW h \in Flow, May(t, h), h # f
             PROVE  Timed(t, h)
  BY DEF Served, Alone
<1>1. May(s, h)
  BY DEF May, LimitReached, Alone
<1>2. Timed(s, h)
  BY <1>1 DEF Woken, Alone
<1> QED
  BY <1>2 DEF Timed, Alone

-------------------------------------------------------------------------------
(* The handlers.                                                           *)

Good(s, loop) ==
  /\ Typed(s) /\ loop \in Nat \cup {NotServing}
  /\ Numbers(s)
  /\ Tidy => References(s)
  /\ Tidy /\ PendingMessageLimit = Unlimited => Woken(s) /\ Served(s, loop)

Inv == Good(State, breakOut)

\* The state a handler returns is the next one.
LEMMA BecomesState ==
  ASSUME NEW s, Typed(s), Becomes(s)
  PROVE  State' = s
<1>1. s = [flows |-> s.flows, tcp |-> s.tcp, pend |-> s.pend, reconnects |-> s.reconnects, step |-> s.step]
  BY DEF Typed, States
<1> QED
  BY <1>1 DEF Becomes, State

\* State is the variables.
LEMMA Guards ==
  /\ State.flows = flows /\ State.tcp = tcp /\ State.pend = pend
  /\ State.reconnects = reconnects /\ State.step = step
BY DEF State

LEMMA TxNothingGood ==
  ASSUME Inv, NEW f \in Flow, TxNothing(f)
  PROVE  Inv'
<1> DEFINE s == State
           r == [s.flows[f] EXCEPT !.timer = FALSE]
           t == [s EXCEPT !.flows[f] = r]
<1>1. Good(s, NotServing) /\ (~s.flows[f].on \/ LimitReached(s, f)) /\ breakOut' = NotServing
  BY Guards DEF Inv, TxNothing, TxFires, Idle
<1>2. /\ flows' = [s.flows EXCEPT ![f] = r] /\ tcp' = s.tcp /\ pend' = s.pend
      /\ reconnects' = s.reconnects /\ step' = s.step
  BY Guards DEF TxNothing
<1> HIDE DEF s
<1>3. r \in FlowState /\ Stays(s.flows[f], r) /\ r.nextNumber = s.flows[f].nextNumber
      /\ r.sent = s.flows[f].sent /\ r.socketError = s.flows[f].socketError /\ ~r.timer
  BY <1>1, Parts DEF FlowState, Stays, Good
<1> HIDE DEF r
<1>4. /\ About(f, s, t) /\ t.flows[f] = r /\ t.flows = [s.flows EXCEPT ![f] = r]
      /\ t.step = s.step /\ t.tcp = s.tcp /\ t.pend = s.pend /\ t.reconnects = s.reconnects
  BY <1>1, <1>3, FlowSet, AboutFlow DEF Good
<1> HIDE DEF t
<1>9. State' = t
  BY <1>2, <1>4, BecomesState DEF Becomes, About
<1>5. Numbers(t)
  BY <1>1, <1>3, <1>4, NumbersOfShapes DEF Good
<1>6. Tidy => References(t)
  BY <1>1, <1>4, ReferencesAbout DEF Good
<1>7. ~May(t, f)
  BY <1>1, <1>3, <1>4 DEF May, LimitReached, Stays
<1>8. ASSUME Tidy, PendingMessageLimit = Unlimited PROVE Woken(t) /\ Served(t, NotServing)
  <2>1. Typed(s) /\ Woken(s) /\ Served(s, NotServing)
    BY <1>1, <1>8 DEF Good
  <2>2. Wakeful(f, s, t)
    BY <1>3, <1>4, <1>7 DEF About, Wakeful
  <2>3. Patient(f, s, t)
    BY <1>1, <1>3, <1>4, <1>7 DEF About, Patient, Stays, LimitReached
  <2>4. Woken(t) /\ Served(t, NotServing)
    BY <2>1, <2>2, <2>3, WokenAbout, ServedAbout
  <2> QED
    BY <2>4
<1> QED
  BY <1>1, <1>4, <1>5, <1>6, <1>8, <1>9 DEF Inv, Good, About

\* Handlers that are about one flow.
LEMMA GoodAbout ==
  ASSUME NEW s, NEW l, Good(s, l), NEW t, NEW f \in Flow, NEW m \in Nat \cup {NotServing},
         About(f, s, t),
         t.flows[f].nextNumber = s.flows[f].nextNumber, t.step = s.step,
         Tidy /\ PendingMessageLimit = Unlimited => Woken(t) /\ Served(t, m)
  PROVE  Good(t, m)
<1>1. Numbers(t)
  BY NumbersOfShapes DEF Good
<1>2. Tidy => References(t)
  BY ReferencesAbout DEF Good
<1> QED
  BY <1>1, <1>2 DEF Good, About

\* Handlers that stop a flow.
LEMMA GoodStopped ==
  ASSUME NEW s, NEW l, Good(s, l), NEW t, NEW f \in Flow, Stopped(f, s, t),
         Tidy => /\ Using(s) \subseteq {f}
                 /\ IsTransmitting(s) => IsConnected(s)
                 /\ PendingMessageLimit = Unlimited => ~s.flows[f].paused
  PROVE  Good(t, NotServing)
<1>1. Typed(t)
  BY DEF Stopped
<1>2. Numbers(t)
  BY NumbersOfShapes DEF Good
<1>3. Tidy => References(t)
  BY ReferencesStopped DEF Good
<1>4. ASSUME Tidy, PendingMessageLimit = Unlimited PROVE Woken(t) /\ Served(t, NotServing)
  <2>1. Woken(t) /\ \A h \in Flow : t.flows[h].on => t.tcp.socket = "shut"
    BY <1>4, WokenStopped DEF Good
  <2> QED
    BY <2>1 DEF Served, May
<1> QED
  BY <1>1, <1>2, <1>3, <1>4 DEF Good

\* Handlers that lose the connection.
LEMMA GoodPaused ==
  ASSUME NEW s, NEW l, Good(s, l), NEW t, Paused(s, t) \/ GivenUp(s, t), s.tcp.socket # "idle"
  PROVE  Good(t, NotServing)
<1>1. Typed(t) /\ t.tcp.socket # "connected"
  BY DEF Paused, GivenUp
<1>2. Numbers(t)
  BY NumbersPaused DEF Good
<1>3. Tidy => References(t)
  BY ReferencesPaused, ReferencesGivenUp DEF Good
<1>4. ASSUME Tidy, PendingMessageLimit = Unlimited PROVE Woken(t) /\ Served(t, NotServing)
  BY <1>1, <1>4, WokenPaused, WokenGivenUp, ServedNotified DEF Good
<1> QED
  BY <1>1, <1>2, <1>3, <1>4 DEF Good

LEMMA TxQueueGood ==
  ASSUME Inv, NEW f \in Flow, TxQueue(f)
  PROVE  Inv'
<1> DEFINE s == State
           q == Queue(s, f)
           m == IF IsConnecting(s) \/ QueueLimit[f] > 0 THEN q ELSE s
           t == IF IsConnecting(s) THEN m ELSE Notify(m, TRUE)
<1>1. /\ Good(s, NotServing) /\ Typed(s) /\ breakOut' = NotServing
      /\ s.flows[f].timer /\ s.flows[f].on
  BY Guards DEF Inv, TxQueue, TxReady, TxFires, Idle, Good
<1>2. Becomes(t)
  BY DEF TxQueue
<1> HIDE DEF s
<1>3. /\ About(f, s, q)
      /\ q.flows[f].sent = s.flows[f].sent
      /\ q.flows[f].nextNumber = s.flows[f].nextNumber
      /\ q.flows[f].socketError = s.flows[f].socketError
      /\ q.step = s.step /\ q.tcp = s.tcp
      /\ Queued(q.pend) = Queued(s.pend) \cup {f}
  BY <1>1, QueueEffect
<1> HIDE DEF q
<1>4. About(f, s, s)
  BY <1>1 DEF About, Stays
<1>5. /\ About(f, s, m) /\ Typed(m)
      /\ m.flows[f].nextNumber = s.flows[f].nextNumber
      /\ m.flows[f].socketError = s.flows[f].socketError
      /\ m.step = s.step /\ m.tcp = s.tcp
      /\ Queued(m.pend) \ {f} = Queued(s.pend) \ {f}
      /\ Timed(m, f) \/ f \in Queued(m.pend)
  BY <1>1, <1>3, <1>4 DEF Timed, About
<1> HIDE DEF m
<1>6. About(f, m, m)
  BY <1>5 DEF About, Stays
<1>7. /\ About(f, m, t) /\ t.flows = m.flows /\ t.pend = m.pend /\ t.step = m.step
      /\ t.tcp.notify \/ IsConnecting(s)
  BY <1>5, <1>6, NotifyEffect, AboutNotify
<1> HIDE DEF t
<1>8. About(f, s, t) /\ Typed(t)
  BY <1>5, <1>7, AboutAgain DEF About
<1>9. Wakeful(f, s, t)
  BY <1>1, <1>5, <1>7, <1>8 DEF Wakeful, About, Timed
<1>10. t.tcp.notify \/ t.tcp.socket # "connected"
  BY <1>7, <1>8 DEF About, IsConnecting
<1>11. Good(t, NotServing)
  BY <1>1, <1>5, <1>7, <1>8, <1>9, <1>10, GoodAbout, WokenAbout, ServedNotified DEF Good
<1>12. State' = t
  BY <1>2, <1>8, BecomesState
<1> QED
  BY <1>1, <1>11, <1>12 DEF Inv

LEMMA TxOffGood ==
  ASSUME Inv, NEW f \in Flow, TxOff(f)
  PROVE  Inv'
<1> DEFINE s == State
           waits == TransmittingFlow(s, f) \/ (~s.flows[f].socketError /\ s.flows[f].pending > 0)
           r == [s.flows[f] EXCEPT !.timer = FALSE]
           q == AppendFlow(s.pend, f)
           u == [s EXCEPT !.flows[f] = r]
           v == [u EXCEPT !.pend = q]
           t == Notify(v, TRUE)
<1>1. /\ Good(s, NotServing) /\ Typed(s) /\ breakOut' = NotServing
      /\ s.flows[f].timer /\ s.flows[f].on /\ s.flows[f].offPending
  BY Guards DEF Inv, TxOff, TxReady, TxFires, Idle, Good
<1>2. Becomes(IF waits THEN Notify([s EXCEPT !.flows[f].timer = FALSE, !.pend = AppendFlow(@, f)], TRUE)
              ELSE StopFlow(s, f))
  BY Guards DEF TxOff
<1> HIDE DEF s
<1>3. CASE waits
  <2>1. /\ r \in FlowState /\ Stays(s.flows[f], r) /\ r.nextNumber = s.flows[f].nextNumber
        /\ r.socketError = s.flows[f].socketError /\ ~r.timer
    BY <1>1, Parts DEF FlowState, Stays
  <2>2. Round(q) /\ Queued(q) = Queued(s.pend) \cup {f}
    BY <1>1, Parts, AppendFlowProperties
  <2>3. [s EXCEPT !.flows[f].timer = FALSE, !.pend = AppendFlow(@, f)] = v
    BY <1>1 DEF Typed, States
  <2> HIDE DEF r, q
  <2>4. /\ About(f, s, u) /\ u.flows[f] = r
        /\ u.step = s.step /\ u.tcp = s.tcp /\ u.pend = s.pend
    BY <1>1, <2>1, FlowSet, AboutFlow
  <2> HIDE DEF u
  <2>5. /\ Typed(v) /\ v.flows = u.flows /\ v.tcp = u.tcp /\ v.pend = q
        /\ v.reconnects = u.reconnects /\ v.step = u.step
    BY <2>2, <2>4, PendSet DEF About
  <2> HIDE DEF v
  <2>6. About(f, s, v)
    BY <2>4, <2>5 DEF About
  <2>7. /\ About(f, v, t) /\ t.flows = v.flows /\ t.pend = v.pend /\ t.step = v.step /\ t.tcp.notify
    BY <2>5, NotifyEffect, AboutNotify
  <2>8. Becomes(t)
    BY <1>2, <1>3, <2>3
  <2> HIDE DEF t
  <2>9. About(f, s, t) /\ Typed(t)
    BY <2>6, <2>7, AboutAgain DEF About
  <2>10. Wakeful(f, s, t)
    BY <1>1, <2>1, <2>2, <2>4, <2>5, <2>7, <2>9 DEF Wakeful, About
  <2>11. Good(t, NotServing)
    BY <1>1, <2>1, <2>4, <2>5, <2>7, <2>9, <2>10, GoodAbout, WokenAbout, ServedNotified DEF Good
  <2>12. State' = t
    BY <2>8, <2>9, BecomesState
  <2> QED
    BY <1>1, <2>11, <2>12 DEF Inv
<1>4. CASE ~waits
  <2> DEFINE z == StopFlow(s, f)
  <2>1. Stopped(f, s, z)
    BY <1>1, StopFlowEffect
  <2>2. Becomes(z)
    BY <1>2, <1>4
  <2> HIDE DEF z
  <2>3. ASSUME Tidy
        PROVE  /\ Using(s) \subseteq {f}
               /\ IsTransmitting(s) => IsConnected(s)
               /\ PendingMessageLimit = Unlimited => ~s.flows[f].paused
    <3>1. References(s)
      BY <1>1, <2>3 DEF Good
    <3>2. Using(s) \subseteq {f}
      BY <1>1, <3>1 DEF References, OffAlone, Using
    <3>3. ~IsTransmitting(s)
      BY <1>1, <1>4, <3>1, <3>2, MessageFlow DEF References, TransmittingFlow, Using
    <3>4. PendingMessageLimit = Unlimited => ~s.flows[f].paused
      BY <1>1, <2>3 DEF Good, Woken
    <3> QED
      BY <3>2, <3>3, <3>4
  <2>4. Good(z, NotServing)
    BY <1>1, <2>1, <2>3, GoodStopped
  <2>5. State' = z
    BY <2>1, <2>2, BecomesState DEF Stopped
  <2> QED
    BY <1>1, <2>4, <2>5 DEF Inv
<1> QED
  BY <1>3, <1>4

-------------------------------------------------------------------------------
\* The connection alone changes.
LEMMA GoodConnection ==
  ASSUME NEW s, NEW l, Good(s, l), NEW t, Typed(t), NEW m \in Nat \cup {NotServing},
         t.flows = s.flows, t.pend = s.pend, t.reconnects = s.reconnects, t.step = s.step,
         t.tcp.references = s.tcp.references,
         t.tcp.message = s.tcp.message,
         \/ t.tcp.socket = s.tcp.socket
         \/ /\ s.tcp.socket \in {"connecting", "connected"}
            /\ t.tcp.socket \in {"connecting", "connected", "broken"},
         Tidy /\ PendingMessageLimit = Unlimited => Served(t, m)
  PROVE  Good(t, m)
<1>1. Numbers(t)
  BY NumbersKept DEF Good, SameNumbers
<1>2. SameUse(s, t)
  BY DEF SameUse
<1>3. Tidy => References(t)
  BY <1>2, ReferencesKept DEF Good
<1>4. Tidy /\ PendingMessageLimit = Unlimited => Woken(t)
  BY DEF Good, Woken, May, Timed, LimitReached
<1> QED
  BY <1>1, <1>3, <1>4 DEF Good

LEMMA ConnectedGood ==
  ASSUME Inv, Connected
  PROVE  Inv'
<1> DEFINE s == State
           c == [s.tcp EXCEPT !.socket = "connected", !.notify = TRUE]
           t == [s EXCEPT !.tcp = c]
<1>1. Good(s, NotServing) /\ Typed(s) /\ breakOut' = NotServing /\ s.tcp.socket = "connecting"
  BY Guards DEF Inv, Connected, Idle, IsConnecting, Good
<1>2. /\ flows' = s.flows /\ tcp' = c /\ pend' = s.pend
      /\ reconnects' = s.reconnects /\ step' = s.step
  BY Guards DEF Connected
<1> HIDE DEF s
<1>3. /\ c \in TcpState /\ c.socket = "connected" /\ c.notify
      /\ c.references = s.tcp.references /\ c.message = s.tcp.message
  BY <1>1, Parts DEF TcpState, Sockets
<1> HIDE DEF c
<1>4. /\ Typed(t) /\ t.flows = s.flows /\ t.tcp = c /\ t.pend = s.pend
      /\ t.reconnects = s.reconnects /\ t.step = s.step
  BY <1>1, <1>3, TcpSet
<1> HIDE DEF t
<1>5. Served(t, NotServing)
  BY <1>3, <1>4, ServedNotified
<1>6. Good(t, NotServing)
  BY <1>1, <1>3, <1>4, <1>5, GoodConnection
<1>7. State' = t
  BY <1>2, <1>4, BecomesState DEF Becomes
<1> QED
  BY <1>1, <1>6, <1>7 DEF Inv

LEMMA LostGood ==
  ASSUME Inv, Becomes(Disconnected(State)), breakOut' = NotServing, tcp.socket # "idle"
  PROVE  Inv'
<1> DEFINE s == State
           t == Disconnected(s)
<1>1. Good(s, breakOut) /\ Typed(s) /\ Becomes(t) /\ s.tcp.socket # "idle"
  BY Guards DEF Inv, Good
<1> HIDE DEF s
<1>2. Paused(s, t) \/ GivenUp(s, t)
  BY <1>1, DisconnectedEffect
<1> HIDE DEF t
<1>3. Typed(t)
  BY <1>2 DEF Paused, GivenUp
<1>4. Good(t, NotServing)
  BY <1>1, <1>2, GoodPaused
<1>5. State' = t
  BY <1>1, <1>3, BecomesState
<1> QED
  BY <1>4, <1>5 DEF Inv

LEMMA OutputReadyGood ==
  ASSUME Inv, OutputReady
  PROVE  Inv'
<1> DEFINE s == State
           t == Notify(s, FALSE)
<1>1. /\ Good(s, breakOut) /\ Typed(s) /\ breakOut' = 0
      /\ s.tcp.socket = "connected" /\ ~IsTransmitting(s) /\ Becomes(t)
  BY Guards DEF Inv, OutputReady, Good
<1> HIDE DEF s
<1>2. /\ Typed(t) /\ t.flows = s.flows /\ t.pend = s.pend
      /\ t.tcp.socket = s.tcp.socket /\ t.tcp.references = s.tcp.references
      /\ t.tcp.message = s.tcp.message
      /\ t.reconnects = s.reconnects /\ t.step = s.step
  BY <1>1, NotifyEffect
<1> HIDE DEF t
<1>3. Served(t, 0)
  BY <1>1, <1>2 DEF Served, IsTransmitting, NotServing
<1>4. Good(t, 0)
  BY <1>1, <1>2, <1>3, GoodConnection
<1>5. State' = t
  BY <1>1, <1>2, BecomesState
<1> QED
  BY <1>1, <1>4, <1>5 DEF Inv

LEMMA ServeEndGood ==
  ASSUME Inv, ServeEnd
  PROVE  Inv'
<1> DEFINE s == State
           on == s.tcp.notify /\ (IsTransmitting(s) \/ s.pend.list # << >>)
           t == Notify(s, on)
<1>1. /\ Good(s, breakOut) /\ Typed(s) /\ breakOut' = NotServing /\ breakOut # NotServing
      /\ s.tcp.socket = "closed" \/ IsTransmitting(s) \/ s.pend.cur = NoFlow
      /\ Becomes(t)
  BY Guards DEF Inv, ServeEnd, Good
<1> HIDE DEF s
<1>2. on \in BOOLEAN
  BY <1>1, Parts DEF TcpState
<1> HIDE DEF on
<1>3. /\ Typed(t) /\ t.flows = s.flows /\ t.pend = s.pend
      /\ t.tcp.socket = s.tcp.socket /\ t.tcp.references = s.tcp.references
      /\ t.tcp.message = s.tcp.message
      /\ t.reconnects = s.reconnects /\ t.step = s.step
  BY <1>1, <1>2, NotifyEffect
<1> HIDE DEF t
<1>4. ASSUME Tidy, PendingMessageLimit = Unlimited PROVE Served(t, NotServing)
  <2>1. Woken(s) /\ s.tcp.socket = "connected" /\ ~IsTransmitting(s)
    BY <1>1, <1>4 DEF Good, Served
  <2>2. Queued(s.pend) = {}
    <3>1. s.pend.cur = NoFlow
      BY <1>1, <2>1
    <3>2. s.pend.list = << >>
      BY <1>1, <3>1, Parts, RoundElim, NoFlowAssumption
    <3> QED
      BY <1>1, <3>2, Parts, RoundElim, NoElements
  <2>3. \A h \in Flow : May(s, h) => Timed(s, h)
    BY <2>1, <2>2 DEF Woken
  <2>4. \A h \in Flow : May(t, h) => Timed(t, h)
    BY <1>3, <2>3 DEF May, Timed, LimitReached
  <2> QED
    BY <2>4 DEF Served
<1>5. Good(t, NotServing)
  BY <1>1, <1>3, <1>4, GoodConnection
<1>6. State' = t
  BY <1>1, <1>3, BecomesState
<1> QED
  BY <1>1, <1>5, <1>6 DEF Inv

\* The message on its way is forgotten.
LEMMA MessageSet ==
  ASSUME NEW s, Typed(s)
  PROVE  LET t == [s EXCEPT !.tcp.message = NoMessage]
         IN /\ Typed(t) /\ t.flows = s.flows /\ t.pend = s.pend
            /\ t.reconnects = s.reconnects /\ t.step = s.step
            /\ t.tcp.socket = s.tcp.socket /\ t.tcp.references = s.tcp.references
            /\ ~IsTransmitting(t)
<1> DEFINE c == [s.tcp EXCEPT !.message = NoMessage]
           t == [s EXCEPT !.tcp = c]
<1>1. c \in TcpState /\ c.socket = s.tcp.socket /\ c.references = s.tcp.references /\ c.message = NoMessage
  BY Parts DEF TcpState, Messages
<1>2. [s EXCEPT !.tcp.message = NoMessage] = t
  OBVIOUS
<1> HIDE DEF c
<1>3. /\ Typed(t) /\ t.flows = s.flows /\ t.tcp = c /\ t.pend = s.pend
      /\ t.reconnects = s.reconnects /\ t.step = s.step
  BY <1>1, TcpSet
<1> HIDE DEF t
<1> QED
  BY <1>1, <1>2, <1>3 DEF IsTransmitting

\* The socket breaks.
LEMMA BrokenSet ==
  ASSUME NEW s, Typed(s)
  PROVE  LET t == [s EXCEPT !.tcp.socket = "broken"]
         IN /\ Typed(t) /\ t.flows = s.flows /\ t.pend = s.pend
            /\ t.reconnects = s.reconnects /\ t.step = s.step
            /\ t.tcp.socket = "broken" /\ t.tcp.references = s.tcp.references
            /\ t.tcp.message = s.tcp.message
<1> DEFINE c == [s.tcp EXCEPT !.socket = "broken"]
           t == [s EXCEPT !.tcp = c]
<1>1. c \in TcpState /\ c.socket = "broken" /\ c.references = s.tcp.references /\ c.message = s.tcp.message
  BY Parts DEF TcpState, Sockets
<1>2. [s EXCEPT !.tcp.socket = "broken"] = t
  OBVIOUS
<1> HIDE DEF c
<1>3. /\ Typed(t) /\ t.flows = s.flows /\ t.tcp = c /\ t.pend = s.pend
      /\ t.reconnects = s.reconnects /\ t.step = s.step
  BY <1>1, TcpSet
<1> HIDE DEF t
<1> QED
  BY <1>1, <1>2, <1>3

LEMMA ContinueGood ==
  ASSUME Inv, NEW write \in Writes, Continue(write)
  PROVE  Inv'
<1> DEFINE s == State
           f == s.tcp.message.flow
           number == s.tcp.message.number
           c == Completed(s, f, number)
           u == Notify(c, FALSE)
           t == [u EXCEPT !.tcp.message = NoMessage]
           w == [s EXCEPT !.tcp.socket = "broken"]
<1>1. /\ Good(s, NotServing) /\ Typed(s) /\ s.tcp.socket = "connected" /\ IsTransmitting(s)
      /\ write \in {"whole", "error", "lost"}
      /\ breakOut' = IF write = "whole" THEN 0 ELSE NotServing
  BY Guards, TcpFlowsAssumption DEF Inv, Continue, Idle, Good
<1>2. /\ write = "whole" => Becomes(t)
      /\ write = "error" => Becomes(w)
      /\ write = "lost" => Becomes(Disconnected(State))
  BY Guards DEF Continue
<1>3. CASE write = "whole"
  <2>1. f \in Flow /\ number \in Int
    BY <1>1, MessageFlow
  <2>2. s.flows[f].nextNumber = number
    BY <1>1 DEF Good, Numbers
  <2> HIDE DEF s
  <2>3. /\ About(f, s, c)
        /\ c.flows[f].nextNumber = s.flows[f].nextNumber - number
        /\ c.flows[f].sent >= s.flows[f].sent
        /\ c.flows[f].timer = s.flows[f].timer
        /\ c.flows[f].socketError = s.flows[f].socketError
        /\ c.step = number /\ c.tcp = s.tcp /\ c.pend = s.pend
    BY <1>1, <2>1, CompletedEffect
  <2> HIDE DEF c
  <2>4. /\ Typed(u) /\ u.flows = c.flows /\ u.pend = c.pend
        /\ u.tcp.socket = c.tcp.socket /\ u.tcp.references = c.tcp.references
        /\ u.reconnects = c.reconnects /\ u.step = c.step
    BY <2>3, NotifyEffect DEF About
  <2> HIDE DEF u
  <2>5. /\ Typed(t) /\ t.flows = u.flows /\ t.pend = u.pend
        /\ t.reconnects = u.reconnects /\ t.step = u.step
        /\ t.tcp.socket = u.tcp.socket /\ t.tcp.references = u.tcp.references
        /\ ~IsTransmitting(t)
    BY <2>4, MessageSet
  <2>6. Becomes(t)
    BY <1>2, <1>3 DEF s
  <2> HIDE DEF t
  <2>7. Numbers(t)
    <3>1. number \in 0..1 /\ c.flows[f].nextNumber = 0
      BY <1>1, <2>1, <2>2, <2>3 DEF Good, Numbers
    <3>2. \A g \in Flow \ {f} : t.flows[g] = s.flows[g]
      BY <2>3, <2>4, <2>5 DEF About
    <3>3. \A g \in Flow \ {f} : s.flows[g].nextNumber \in 0..1
      BY <1>1 DEF Good, Numbers
    <3> HIDE DEF f, number
    <3> QED
      BY <2>3, <2>4, <2>5, <3>1, <3>2, <3>3 DEF Numbers
  <2>8. Tidy => References(t)
    <3>1. \A g \in Flow : Stays(s.flows[g], c.flows[g])
      BY <2>3 DEF About, Stays
    <3>3. /\ t.flows = c.flows /\ t.tcp.references = s.tcp.references
          /\ t.tcp.socket = "connected"
      BY <1>1, <2>3, <2>4, <2>5
    <3>2. SameUse(s, t)
      BY <2>5, <3>1, <3>3 DEF SameUse, Stays
    <3> QED
      BY <1>1, <3>2, ReferencesKept DEF Good
  <2>9. ASSUME Tidy, PendingMessageLimit = Unlimited PROVE Woken(t) /\ Served(t, 0)
    <3>1. Woken(s)
      BY <1>1, <2>9 DEF Good
    <3>2. LimitReached(s, f) => LimitReached(t, f)
      <4>1. /\ s.flows[f].sent \in Nat /\ t.flows[f].sent \in Nat
            /\ s.flows[f].limit \in Int /\ t.flows[f].limit = s.flows[f].limit
            /\ t.flows[f].sent >= s.flows[f].sent
        <5>1. s.flows[f] \in FlowState /\ t.flows[f] \in FlowState
          BY <1>1, <2>1, <2>5, Parts
        <5>2. t.flows[f].limit = s.flows[f].limit /\ t.flows[f].sent >= s.flows[f].sent
          BY <2>3, <2>4, <2>5 DEF About, Stays
        <5> QED
          BY <5>1, <5>2 DEF FlowState, Unlimited
      <4> QED
        BY <4>1 DEF LimitReached
    <3>3. May(t, f) => Timed(t, f) \/ f \in Queued(t.pend)
      <4>1. May(t, f) => May(s, f)
        BY <2>3, <2>4, <2>5, <3>2 DEF May, About, Stays
      <4>2. May(s, f) => Timed(s, f) \/ f \in Queued(s.pend)
        BY <1>1, <2>1, <3>1 DEF Woken
      <4> QED
        BY <2>3, <2>4, <2>5, <4>1, <4>2 DEF Timed, About
    <3>4. Wakeful(f, s, t)
      BY <2>3, <2>4, <2>5, <3>3 DEF Wakeful, About
    <3>5. Served(t, 0)
      BY <1>1, <2>3, <2>4, <2>5 DEF Served, NotServing
    <3> QED
      BY <1>1, <2>1, <3>1, <3>4, <3>5, WokenAbout
  <2>10. State' = t
    BY <2>5, <2>6, BecomesState
  <2> QED
    BY <1>1, <1>3, <2>5, <2>7, <2>8, <2>9, <2>10 DEF Inv, Good
<1>4. CASE write = "error"
  <2>1. Becomes(w)
    BY <1>2, <1>4
  <2> HIDE DEF s
  <2>2. /\ Typed(w) /\ w.flows = s.flows /\ w.pend = s.pend
        /\ w.reconnects = s.reconnects /\ w.step = s.step
        /\ w.tcp.socket = "broken" /\ w.tcp.references = s.tcp.references
        /\ w.tcp.message = s.tcp.message
    BY <1>1, BrokenSet
  <2> HIDE DEF w
  <2>3. Good(w, NotServing)
    BY <1>1, <2>2, GoodConnection, ServedNotified
  <2>4. State' = w
    BY <2>1, <2>2, BecomesState
  <2> QED
    BY <1>1, <1>4, <2>3, <2>4 DEF Inv
<1>5. CASE write = "lost"
  BY <1>1, <1>2, <1>5, Guards, LostGood
<1> QED
  BY <1>1, <1>3, <1>4, <1>5

\* Nobody leaves the round robin with something to send and no timer.
LEMMA ServeNextWakeful ==
  ASSUME NEW s, Typed(s), NEW f \in Flow, s.pend.cur = f,
         s.flows[f].paused /\ s.flows[f].on => f \in s.reconnects
  PROVE  May(ServeNext(s, f), f) => Timed(ServeNext(s, f), f) \/ f \in Queued(ServeNext(s, f).pend)
<1> DEFINE t == ServeNext(s, f)
<1>1. /\ About(f, s, t)
      /\ t.flows[f].sent = s.flows[f].sent
      /\ t.flows[f].timer =
              (s.flows[f].timer \/ (BelowLimit(s, f) /\ f \notin Fast /\ ~s.flows[f].paused))
      /\ Queued(t.pend) = IF Drained(s, f) THEN Queued(s.pend) \ {f} ELSE Queued(s.pend)
  BY ServeNextEffect
<1> HIDE DEF t
<1>2. f \in Queued(s.pend)
  BY Parts, RoundElim, NoFlowAssumption
<1>3. SUFFICES ASSUME May(t, f), Drained(s, f) PROVE Timed(t, f)
  BY <1>1, <1>2 DEF t
<1>4. t.flows[f].on = s.flows[f].on /\ t.flows[f].limit = s.flows[f].limit /\ t.reconnects = s.reconnects
  BY <1>1 DEF About, Stays
<1>5. s.flows[f].on /\ ~LimitReached(s, f)
  BY <1>1, <1>3, <1>4 DEF May, LimitReached
<1>6. f \notin Fast
  BY <1>3, <1>5 DEF Drained, LimitReached
<1>7. BelowLimit(s, f)
  <2>1. QueueLimit[f] \in Int
    BY TcpFlowsAssumption
  <2> QED
    BY <1>3, <2>1 DEF BelowLimit, Drained
<1> QED
  BY <1>1, <1>4, <1>5, <1>6, <1>7 DEF Timed

\* A loop that never yields goes on.
LEMMA GoesOnLoop ==
  ASSUME NEW drained \in BOOLEAN, GoesOn(drained), breakOut \in Nat
  PROVE  /\ breakOut' \in Nat \cup {NotServing}
         /\ PendingMessageLimit = Unlimited => breakOut' = 0
BY DEF GoesOn, NotServing, Unlimited

LEMMA ServeSkipGood ==
  ASSUME Inv, NEW f \in Flow, ServeSkip(f)
  PROVE  Inv'
<1> DEFINE s == State
           t == ServeNext(s, f)
<1>1. /\ Good(s, breakOut) /\ Typed(s) /\ breakOut \in Nat
      /\ s.pend.cur = f /\ Becomes(t)
  BY Guards DEF Inv, ServeSkip, Serves, Good
<1>2. /\ breakOut' \in Nat \cup {NotServing}
      /\ PendingMessageLimit = Unlimited => breakOut' = 0
  BY <1>1, GoesOnLoop DEF ServeSkip, Drained
<1> HIDE DEF s
<1>3. /\ About(f, s, t)
      /\ t.flows[f].nextNumber = s.flows[f].nextNumber
      /\ t.flows[f].socketError = s.flows[f].socketError
      /\ t.flows[f].timer =
              (s.flows[f].timer \/ (BelowLimit(s, f) /\ f \notin Fast /\ ~s.flows[f].paused))
      /\ t.step = s.step
      /\ t.tcp = s.tcp
      /\ Queued(t.pend) = IF Drained(s, f) THEN Queued(s.pend) \ {f} ELSE Queued(s.pend)
  BY <1>1, ServeNextEffect
<1>4. ASSUME Tidy, PendingMessageLimit = Unlimited PROVE Woken(t) /\ Served(t, 0)
  <2>1. Woken(s) /\ Served(s, breakOut)
    BY <1>1, <1>4 DEF Good
  <2>2. May(t, f) => Timed(t, f) \/ f \in Queued(t.pend)
    BY <1>1, <2>1, ServeNextWakeful DEF Woken
  <2> HIDE DEF t
  <2>3. f \in Queued(s.pend)
    BY <1>1, Parts, RoundElim, NoFlowAssumption
  <2>4. Wakeful(f, s, t)
    BY <1>3, <2>2, <2>3 DEF Wakeful, About
  <2>5. Served(t, 0)
    BY <1>1, <1>3, <2>1 DEF Served, NotServing, IsTransmitting
  <2> QED
    BY <1>1, <2>1, <2>4, <2>5, WokenAbout
<1> HIDE DEF t
<1>5. Good(t, breakOut')
  BY <1>1, <1>2, <1>3, <1>4, GoodAbout
<1>6. State' = t
  BY <1>1, <1>3, BecomesState DEF About
<1> QED
  BY <1>5, <1>6 DEF Inv

\* The timer of f is set.
LEMMA TimerSet ==
  ASSUME NEW s, Typed(s), NEW f \in Flow
  PROVE  \A b \in BOOLEAN :
         LET t == [s EXCEPT !.flows[f].timer = b]
         IN /\ About(f, s, t)
            /\ t.flows[f].sent = s.flows[f].sent
            /\ t.flows[f].nextNumber = s.flows[f].nextNumber
            /\ t.flows[f].socketError = s.flows[f].socketError
            /\ t.flows[f].timer = b
            /\ t.step = s.step /\ t.tcp = s.tcp /\ t.pend = s.pend
<1> TAKE b \in BOOLEAN
<1> DEFINE r == [s.flows[f] EXCEPT !.timer = b]
           t == [s EXCEPT !.flows[f] = r]
<1>1. /\ r \in FlowState /\ Stays(s.flows[f], r) /\ r.sent = s.flows[f].sent
      /\ r.nextNumber = s.flows[f].nextNumber
      /\ r.socketError = s.flows[f].socketError /\ r.timer = b
  BY Parts DEF FlowState, Stays
<1>2. [s EXCEPT !.flows[f].timer = b] = t
  OBVIOUS
<1> HIDE DEF r
<1>3. /\ About(f, s, t) /\ t.flows[f] = r /\ t.step = s.step /\ t.tcp = s.tcp /\ t.pend = s.pend
  BY <1>1, FlowSet, AboutFlow
<1> HIDE DEF t
<1> QED
  BY <1>1, <1>2, <1>3

LEMMA ServeStopGood ==
  ASSUME Inv, NEW f \in Flow, ServeStop(f)
  PROVE  Inv'
<1> DEFINE s == State
           stops == s.flows[f].offPending /\ f \in Fast
           no == FALSE
           t == [s EXCEPT !.flows[f].timer = no]
           z == StopFlow(s, f)
<1>1. /\ Good(s, breakOut) /\ Typed(s) /\ breakOut \in Nat /\ breakOut' = NotServing
      /\ s.pend.cur = f /\ ~IsTransmitting(s)
      /\ ~s.flows[f].on \/ LimitReached(s, f) \/ stops
  BY Guards DEF Inv, ServeStop, Serves, Good
<1>2. Becomes(IF stops THEN z ELSE t)
  BY Guards DEF ServeStop
<1>3. f \in Queued(s.pend)
  BY <1>1, Parts, RoundElim, NoFlowAssumption
<1>6. no \in BOOLEAN /\ ~no
  OBVIOUS
<1> HIDE DEF s, no
<1>4. CASE stops
  <2>1. Stopped(f, s, z)
    BY <1>1, StopFlowEffect
  <2>2. Becomes(z)
    BY <1>2, <1>4
  <2> HIDE DEF z
  <2>3. ASSUME Tidy
        PROVE  /\ Using(s) \subseteq {f}
               /\ IsTransmitting(s) => IsConnected(s)
               /\ PendingMessageLimit = Unlimited => ~s.flows[f].paused
    <3>1. References(s)
      BY <1>1, <2>3 DEF Good
    <3>2. Using(s) \subseteq {f}
      BY <1>4, <3>1 DEF References, OffAlone, Using
    <3>3. PendingMessageLimit = Unlimited => ~s.flows[f].paused
      BY <1>1, <1>4, <2>3 DEF Good, Woken, Served, NotServing
    <3> QED
      BY <1>1, <3>2, <3>3
  <2>4. Good(z, NotServing)
    BY <1>1, <2>1, <2>3, GoodStopped
  <2>5. State' = z
    BY <2>1, <2>2, BecomesState DEF Stopped
  <2> QED
    BY <1>1, <2>4, <2>5 DEF Inv
<1>5. CASE ~stops
  <2>1. /\ About(f, s, t)
        /\ t.flows[f].sent = s.flows[f].sent
        /\ t.flows[f].nextNumber = s.flows[f].nextNumber
        /\ t.flows[f].socketError = s.flows[f].socketError
        /\ t.flows[f].timer = no
        /\ t.step = s.step /\ t.tcp = s.tcp /\ t.pend = s.pend
    BY <1>1, <1>6, TimerSet
  <2>2. Becomes(t)
    BY <1>2, <1>5
  <2> HIDE DEF t
  <2>3. ASSUME Tidy, PendingMessageLimit = Unlimited PROVE Woken(t) /\ Served(t, NotServing)
    <3>1. Woken(s)
      BY <1>1, <2>3 DEF Good
    <3>2. Wakeful(f, s, t)
      BY <1>3, <1>6, <2>1 DEF Wakeful, About
    <3>3. LimitReached(t, f) \/ ~t.flows[f].on
      BY <1>1, <1>5, <2>1 DEF About, Stays, LimitReached
    <3>4. Served(t, NotServing)
      BY <1>3, <2>1, <3>3 DEF Served, Blocked
    <3> QED
      BY <1>1, <3>1, <3>2, <3>4, WokenAbout
  <2>4. Good(t, NotServing)
    BY <1>1, <2>1, <2>3, GoodAbout
  <2>5. State' = t
    BY <2>1, <2>2, BecomesState DEF About
  <2> QED
    BY <1>1, <2>4, <2>5 DEF Inv
<1> QED
  BY <1>4, <1>5

LEMMA ServeSendGood ==
  ASSUME Inv, NEW f \in Flow, NEW write \in Writes, ServeSend(f, write)
  PROVE  Inv'
<1> DEFINE s == State
           r == SendMessage(s, f, write)
           t == ServeNext(r, f)
<1>1. /\ Good(s, breakOut) /\ Typed(s) /\ breakOut \in Nat
      /\ s.pend.cur = f /\ ~IsTransmitting(s) /\ s.flows[f].on
      /\ write \in {"whole", "part", "error", "lost"}
      /\ write = "lost" => s.tcp.socket = "connected"
  BY Guards, TcpFlowsAssumption DEF Inv, ServeSend, Serves, Good, CanWrite
<1>2. /\ write = "whole" => Becomes(t) /\ GoesOn(Drained(r, f))
      /\ write # "whole" => Becomes(r) /\ breakOut' = NotServing
  BY Guards DEF ServeSend
<1> HIDE DEF s
<1>3. f \in Queued(s.pend)
  BY <1>1, Parts, RoundElim, NoFlowAssumption
<1>4. /\ write = "whole" => Sent(f, s, r)
      /\ write = "part" =>
           /\ Unsent(f, s, r)
           /\ r.tcp.socket = s.tcp.socket /\ r.tcp.notify
           /\ r.tcp.message = [flow |-> f, number |-> s.flows[f].nextNumber]
      /\ write = "error" =>
           /\ Unsent(f, s, r)
           /\ r.tcp.message = s.tcp.message
           /\ r.tcp.socket = IF s.tcp.socket = "connected" THEN "broken" ELSE s.tcp.socket
      /\ write = "lost" => Paused(s, r) \/ GivenUp(s, r)
  BY <1>1, SendMessageEffect
<1> HIDE DEF r
<1>5. CASE write = "whole"
  <2>1. Sent(f, s, r) /\ Becomes(t) /\ GoesOn(Drained(r, f))
    BY <1>2, <1>4, <1>5
  <2>2. /\ breakOut' \in Nat \cup {NotServing}
        /\ PendingMessageLimit = Unlimited => breakOut' = 0
    BY <1>1, <2>1, GoesOnLoop DEF Drained
  <2>3. Numbers(r)
    BY <1>1, <2>1, NumbersSent DEF Good
  <2>4. About(f, s, r) /\ Typed(r) /\ r.pend = s.pend
    BY <2>1 DEF Sent, About
  <2>5. Tidy => References(r)
    BY <1>1, <2>4, ReferencesAbout DEF Good
  <2>6. /\ About(f, r, t)
        /\ t.flows[f].nextNumber = r.flows[f].nextNumber
        /\ t.flows[f].socketError = r.flows[f].socketError
        /\ t.step = r.step
        /\ t.tcp = r.tcp
        /\ Queued(t.pend) = IF Drained(r, f) THEN Queued(r.pend) \ {f} ELSE Queued(r.pend)
    BY <1>1, <2>4, ServeNextEffect
  <2>7. ASSUME Tidy, PendingMessageLimit = Unlimited PROVE Woken(t) /\ Served(t, 0)
    <3>1. Woken(s) /\ Served(s, breakOut)
      BY <1>1, <2>7 DEF Good
    <3>2. s.tcp.socket = "connected"
      BY <1>1, <3>1 DEF Served, NotServing
    <3>3. r.flows[f].paused /\ r.flows[f].on => f \in r.reconnects
      BY <2>4, <3>1 DEF Woken, About, Stays
    <3>4. May(t, f) => Timed(t, f) \/ f \in Queued(t.pend)
      BY <1>1, <2>4, <3>3, ServeNextWakeful
    <3> HIDE DEF t
    <3>5. About(f, s, t)
      BY <2>4, <2>6, AboutAgain
    <3>6. ~(s.flows[f].paused /\ s.flows[f].offPending)
      BY <3>1, <3>2 DEF Woken
    <3>7. t.flows[f].socketError => s.flows[f].socketError
      BY <2>1, <2>6 DEF Sent
    <3>8. Wakeful(f, s, t)
      BY <1>3, <2>4, <2>6, <3>4, <3>5, <3>6, <3>7 DEF Wakeful, About
    <3>9. Served(t, 0)
      BY <1>1, <3>2, <3>5 DEF Served, NotServing, About, IsTransmitting
    <3> QED
      BY <1>1, <3>1, <3>8, <3>9, WokenAbout
  <2> HIDE DEF t
  <2>8. Numbers(t)
    BY <2>3, <2>4, <2>6, NumbersOfShapes
  <2>9. Tidy => References(t)
    BY <2>4, <2>5, <2>6, ReferencesAbout
  <2>10. Good(t, breakOut')
    BY <2>2, <2>6, <2>7, <2>8, <2>9 DEF Good, About
  <2>11. State' = t
    BY <2>1, <2>6, BecomesState DEF About
  <2> QED
    BY <2>10, <2>11 DEF Inv
<1>6. CASE write \in {"part", "error"}
  <2>1. /\ Unsent(f, s, r) /\ Becomes(r) /\ breakOut' = NotServing
        /\ r.tcp.socket = s.tcp.socket \/ (s.tcp.socket = "connected" /\ r.tcp.socket = "broken")
        /\ r.tcp.notify \/ r.tcp.socket # "connected"
    BY <1>2, <1>4, <1>6
  <2>2. Numbers(r)
    BY <1>1, <1>4, <1>6, NumbersPart, NumbersOfShapes DEF Good
  <2>3. Tidy => References(r)
    BY <1>1, <1>4, <1>6, <2>1, ReferencesUnsent DEF Good
  <2>4. ASSUME Tidy, PendingMessageLimit = Unlimited PROVE Woken(r) /\ Served(r, NotServing)
    <3>1. Woken(s) /\ Served(s, breakOut)
      BY <1>1, <2>4 DEF Good
    <3>2. ~(s.flows[f].paused /\ s.flows[f].offPending)
      BY <1>1, <3>1 DEF Served, NotServing, Woken
    <3>3. Wakeful(f, s, r)
      BY <1>3, <2>1, <3>2 DEF Wakeful, Unsent
    <3> QED
      BY <1>1, <2>1, <3>1, <3>3, WokenAbout, ServedNotified
  <2>5. Good(r, NotServing)
    BY <2>1, <2>2, <2>3, <2>4 DEF Good, Unsent
  <2>6. State' = r
    BY <2>1, BecomesState DEF Unsent
  <2> QED
    BY <2>1, <2>5, <2>6 DEF Inv
<1>7. CASE write = "lost"
  <2>1. /\ Paused(s, r) \/ GivenUp(s, r)
        /\ Becomes(r) /\ breakOut' = NotServing /\ s.tcp.socket # "idle"
    BY <1>1, <1>2, <1>4, <1>7
  <2>2. Typed(r)
    BY <2>1 DEF Paused, GivenUp
  <2>3. Good(r, NotServing)
    BY <1>1, <2>1, GoodPaused
  <2>4. State' = r
    BY <2>1, <2>2, BecomesState
  <2> QED
    BY <2>1, <2>3, <2>4 DEF Inv
<1> QED
  BY <1>1, <1>5, <1>6, <1>7

\* How OnTxTimeout ends: f is timed, paused, or in the round robin.
Timing(f, r, t) ==
  /\ About(f, r, t)
  /\ t.flows[f].nextNumber = r.flows[f].nextNumber
  /\ t.flows[f].socketError = r.flows[f].socketError
  /\ t.step = r.step
  /\ Queued(t.pend) \ {f} = Queued(r.pend) \ {f}
  /\ f \in Queued(t.pend) => f \in Queued(r.pend) \/ f \in Fast
  /\ \/ f \in Queued(t.pend) /\ t.tcp.notify
     \/ /\ t.flows[f].timer \/ t.flows[f].paused
        /\ t.tcp = r.tcp /\ t.pend = r.pend
        /\ f \in Fast => r.flows[f].socketError

\* How OnTxTimeout leaves the timer.
LEMMA TimingEffect ==
  ASSUME NEW r, Typed(r), NEW f \in Flow
  PROVE  Timing(f, r, IF f \notin Fast THEN [r EXCEPT !.flows[f].timer = @ \/ ~r.flows[f].paused]
                      ELSE IF r.flows[f].socketError THEN [r EXCEPT !.flows[f].timer = TRUE]
                      ELSE Notify([r EXCEPT !.flows[f].timer = FALSE, !.pend = AppendFlow(@, f)], TRUE))
<1> DEFINE runs == r.flows[f].timer \/ ~r.flows[f].paused
           yes == TRUE
           no == FALSE
           slow == [r EXCEPT !.flows[f].timer = runs]
           error == [r EXCEPT !.flows[f].timer = yes]
           idle == [r EXCEPT !.flows[f].timer = no]
           q == AppendFlow(r.pend, f)
           v == [idle EXCEPT !.pend = q]
           t == Notify(v, TRUE)
<1>1. runs \in BOOLEAN /\ no \in BOOLEAN /\ ~no
  BY Parts DEF FlowState
<1>7. yes \in BOOLEAN
  OBVIOUS
<1>8. yes
  OBVIOUS
<1>2. [r EXCEPT !.flows[f].timer = @ \/ ~r.flows[f].paused] = slow
  OBVIOUS
<1>3. [r EXCEPT !.flows[f].timer = no, !.pend = AppendFlow(@, f)] = v
  BY DEF Typed, States
<1>4. CASE f \notin Fast
  <2>1. runs = (r.flows[f].timer \/ ~r.flows[f].paused)
    OBVIOUS
  <2> HIDE DEF runs
  <2>2. /\ About(f, r, slow)
        /\ slow.flows[f].nextNumber = r.flows[f].nextNumber
        /\ slow.flows[f].socketError = r.flows[f].socketError
        /\ slow.flows[f].timer = runs
        /\ slow.step = r.step /\ slow.tcp = r.tcp /\ slow.pend = r.pend
    BY <1>1, TimerSet
  <2> HIDE DEF slow
  <2>3. Timing(f, r, slow)
    BY <1>4, <2>1, <2>2 DEF Timing, About, Stays
  <2> QED
    BY <1>2, <1>4, <2>3
<1>5. CASE f \in Fast /\ r.flows[f].socketError
  <2> HIDE DEF yes
  <2>1. /\ About(f, r, error)
        /\ error.flows[f].nextNumber = r.flows[f].nextNumber
        /\ error.flows[f].socketError = r.flows[f].socketError
        /\ error.flows[f].timer = yes
        /\ error.step = r.step /\ error.tcp = r.tcp /\ error.pend = r.pend
    BY <1>7, TimerSet
  <2> HIDE DEF error
  <2>2. Timing(f, r, error)
    BY <1>5, <1>8, <2>1 DEF Timing
  <2> QED
    BY <1>5, <2>2 DEF error, yes
<1>6. CASE f \in Fast /\ ~r.flows[f].socketError
  <2> HIDE DEF no
  <2>1. /\ About(f, r, idle)
        /\ idle.flows[f].nextNumber = r.flows[f].nextNumber
        /\ idle.flows[f].socketError = r.flows[f].socketError
        /\ idle.step = r.step /\ idle.tcp = r.tcp /\ idle.pend = r.pend
    BY <1>1, TimerSet
  <2>2. Round(q) /\ Queued(q) = Queued(r.pend) \cup {f}
    BY Parts, AppendFlowProperties
  <2> HIDE DEF idle, q
  <2>3. /\ Typed(v) /\ v.flows = idle.flows /\ v.tcp = idle.tcp /\ v.pend = q
        /\ v.reconnects = idle.reconnects /\ v.step = idle.step
    BY <2>1, <2>2, PendSet DEF About
  <2> HIDE DEF v
  <2>4. About(f, r, v)
    BY <2>1, <2>3 DEF About
  <2>5. /\ About(f, v, t) /\ t.flows = v.flows /\ t.pend = v.pend /\ t.step = v.step /\ t.tcp.notify
    BY <2>3, NotifyEffect, AboutNotify
  <2> HIDE DEF t
  <2>6. About(f, r, t)
    BY <2>4, <2>5, AboutAgain
  <2>7. Timing(f, r, t)
    BY <1>6, <2>1, <2>2, <2>3, <2>5, <2>6 DEF Timing
  <2> QED
    BY <1>3, <1>6, <2>7 DEF t, no
<1> QED
  BY <1>4, <1>5, <1>6

LEMMA TxSendGood ==
  ASSUME Inv, NEW f \in Flow, NEW write \in Writes, TxSend(f, write)
  PROVE  Inv'
<1> DEFINE s == State
           w == IF IsConnecting(s) THEN Queue(s, f) ELSE s
           r == SendMessage(w, f, write)
           t == IF f \notin Fast THEN [r EXCEPT !.flows[f].timer = @ \/ ~r.flows[f].paused]
                ELSE IF r.flows[f].socketError THEN [r EXCEPT !.flows[f].timer = TRUE]
                ELSE Notify([r EXCEPT !.flows[f].timer = FALSE, !.pend = AppendFlow(@, f)], TRUE)
<1>1. /\ Good(s, NotServing) /\ Typed(s) /\ breakOut' = NotServing
      /\ s.flows[f].timer /\ s.flows[f].on /\ ~LimitReached(s, f) /\ ~s.flows[f].offPending
      /\ \/ f \in Fast
         \/ ~IsConnecting(s) /\ (s.pend.list = << >> \/ s.flows[f].socketError)
      /\ write \in {"whole", "part", "error", "lost"}
      /\ s.tcp.socket # "connected" => write = "error"
      /\ f \in Fast => r.flows[f].on
  BY Guards, TcpFlowsAssumption DEF Inv, TxSend, TxReady, TxFires, Idle, Good, CanWrite, Waits
<1>2. Becomes(t)
  BY DEF TxSend
<1> HIDE DEF s
<1>3. /\ About(f, s, w) /\ Typed(w)
      /\ w.flows[f].nextNumber = s.flows[f].nextNumber
      /\ w.flows[f].socketError = s.flows[f].socketError
      /\ w.step = s.step /\ w.tcp = s.tcp
      /\ Queued(w.pend) \ {f} = Queued(s.pend) \ {f}
      /\ w.flows[f].on
  <2>1. CASE IsConnecting(s)
    <3> DEFINE q == Queue(s, f)
    <3>1. /\ About(f, s, q)
          /\ q.flows[f].nextNumber = s.flows[f].nextNumber
          /\ q.flows[f].socketError = s.flows[f].socketError
          /\ q.step = s.step /\ q.tcp = s.tcp
          /\ Queued(q.pend) = Queued(s.pend) \cup {f}
      BY <1>1, QueueEffect
    <3> HIDE DEF q
    <3>2. w = q
      BY <2>1 DEF q
    <3> HIDE DEF w
    <3> QED
      BY <1>1, <3>1, <3>2 DEF About, Stays
  <2>2. CASE ~IsConnecting(s)
    BY <1>1, <2>2 DEF About, Stays
  <2> QED
    BY <2>1, <2>2
<1>4. s.tcp.socket = "connected" => w = s
  BY DEF IsConnecting
<1> HIDE DEF w
<1>5. IsTransmitting(w) <=> IsTransmitting(s)
  BY <1>3 DEF IsTransmitting
<1>6. IF IsTransmitting(w)
      THEN /\ Unsent(f, w, r)
           /\ r.tcp.socket = w.tcp.socket /\ r.tcp.message = w.tcp.message
           /\ r.tcp.notify \/ (r.pend = w.pend /\ r.tcp = w.tcp)
      ELSE /\ write = "whole" => Sent(f, w, r)
           /\ write = "part" =>
                /\ Unsent(f, w, r)
                /\ r.tcp.socket = w.tcp.socket /\ r.tcp.notify
                /\ r.tcp.message = [flow |-> f, number |-> w.flows[f].nextNumber]
           /\ write = "error" =>
                /\ Unsent(f, w, r)
                /\ r.tcp.message = w.tcp.message
                /\ r.tcp.socket = IF w.tcp.socket = "connected" THEN "broken" ELSE w.tcp.socket
           /\ write = "lost" => Paused(w, r) \/ GivenUp(w, r)
  BY <1>1, <1>3, SendMessageEffect
<1> HIDE DEF r
<1>7. Typed(r)
  BY <1>1, <1>6 DEF Unsent, Sent, About, Paused, GivenUp
<1>8. Timing(f, r, t) /\ About(f, r, t) /\ Typed(t)
  BY <1>7, TimingEffect DEF Timing, About
<1> HIDE DEF t
<1>9. Numbers(w)
  BY <1>1, <1>3, NumbersOfShapes DEF Good
<1>10. Numbers(r)
  BY <1>1, <1>3, <1>6, <1>9, NumbersOfShapes, NumbersSent, NumbersPart, NumbersPaused
<1>11. Numbers(t)
  BY <1>7, <1>8, <1>10, NumbersOfShapes DEF Timing
<1>12. Tidy => References(t)
  <2> SUFFICES ASSUME Tidy PROVE References(t)
    OBVIOUS
  <2>1. References(w)
    BY <1>1, <1>3, ReferencesAbout DEF Good
  <2>2. References(r)
    <3>1. CASE IsTransmitting(w)
      BY <1>3, <1>6, <2>1, <3>1, ReferencesUnsent
    <3>2. CASE ~IsTransmitting(w) /\ write = "whole"
      BY <1>3, <1>6, <2>1, <3>2, ReferencesAbout DEF Sent
    <3>3. CASE ~IsTransmitting(w) /\ write = "part"
      BY <1>3, <1>6, <2>1, <3>3, ReferencesUnsent
    <3>4. CASE ~IsTransmitting(w) /\ write = "error"
      BY <1>3, <1>6, <2>1, <3>4, ReferencesUnsent
    <3>5. CASE ~IsTransmitting(w) /\ write = "lost"
      BY <1>3, <1>6, <2>1, <3>5, ReferencesPaused, ReferencesGivenUp
    <3> QED
      BY <1>1, <3>1, <3>2, <3>3, <3>4, <3>5
  <2> QED
    BY <1>7, <1>8, <2>2, ReferencesAbout
<1>13. ASSUME Tidy, PendingMessageLimit = Unlimited PROVE Woken(t) /\ Served(t, NotServing)
  <2>1. Woken(s) /\ Served(s, NotServing) /\ References(s)
    BY <1>1, <1>13 DEF Good
  <2>2. CASE ~IsTransmitting(w) /\ write = "lost"
    <3>1. w = s /\ s.tcp.socket = "connected"
      BY <1>1, <1>4, <2>2
    <3>2. Paused(s, r) \/ GivenUp(s, r)
      BY <1>6, <2>2, <3>1
    <3>3. Woken(r)
      BY <1>1, <2>1, <3>1, <3>2, WokenPaused, WokenGivenUp
    <3>4. r.tcp.socket \notin {"connecting", "connected"} /\ ~r.flows[f].offPending
      BY <1>1, <3>2 DEF Paused, GivenUp, PausedFlow, GivenUpFlow
    <3>5. Wakeful(f, r, t)
      BY <1>1, <1>8, <3>4 DEF Wakeful, Timing, About
    <3>6. t.tcp.socket # "connected"
      BY <1>8, <3>4 DEF About
    <3> QED
      BY <1>7, <3>3, <3>5, <3>6, WokenAbout, ServedNotified
  <2>3. CASE ~(~IsTransmitting(w) /\ write = "lost")
    <3>1. /\ \A g \in Flow \ {f} : r.flows[g] = w.flows[g]
          /\ Stays(w.flows[f], r.flows[f])
          /\ r.reconnects = w.reconnects
          /\ r.tcp.socket = w.tcp.socket \/ (w.tcp.socket = "connected" /\ r.tcp.socket = "broken")
          /\ Queued(r.pend) \ {f} = Queued(w.pend) \ {f}
          /\ r.flows[f].socketError => w.flows[f].socketError \/ f \in Fast
      <4>1. CASE IsTransmitting(w)
        BY <1>6, <4>1 DEF Unsent
      <4>2. CASE ~IsTransmitting(w) /\ write = "whole"
        BY <1>6, <4>2 DEF Sent, About
      <4>3. CASE ~IsTransmitting(w) /\ write \in {"part", "error"}
        BY <1>6, <4>3 DEF Unsent
      <4> QED
        BY <1>1, <2>3, <4>1, <4>2, <4>3
    <3>2. /\ \A g \in Flow \ {f} : t.flows[g] = s.flows[g]
          /\ Stays(s.flows[f], t.flows[f])
          /\ t.reconnects = s.reconnects
          /\ t.tcp.socket = s.tcp.socket \/ (s.tcp.socket = "connected" /\ t.tcp.socket = "broken")
          /\ Queued(t.pend) \ {f} = Queued(s.pend) \ {f}
          /\ t.flows[f].socketError => s.flows[f].socketError \/ f \in Fast
      BY <1>3, <1>8, <3>1 DEF Timing, About, Stays
    <3>3. \/ f \in Queued(t.pend) /\ t.tcp.notify
          \/ /\ Timed(t, f)
             /\ t.tcp = r.tcp /\ t.pend = r.pend
             /\ f \in Fast => r.flows[f].socketError
      <4>1. t.flows[f].paused => f \in t.reconnects
        BY <1>1, <2>1, <3>2 DEF Woken, Stays
      <4> QED
        BY <1>8, <4>1 DEF Timing, Timed
    <3>4. Wakeful(f, s, t)
      BY <1>1, <1>8, <3>2, <3>3 DEF Wakeful
    <3>5. Served(t, NotServing)
      <4>1. CASE t.tcp.notify \/ t.tcp.socket # "connected"
        BY <4>1, ServedNotified
      <4>2. CASE ~t.tcp.notify /\ t.tcp.socket = "connected"
        <5>1. Timed(t, f) /\ t.tcp = r.tcp /\ t.pend = r.pend /\ (f \in Fast => r.flows[f].socketError)
          BY <3>3, <4>2
        <5>2. s.tcp.socket = "connected" /\ w = s
          BY <1>4, <3>2, <4>2
        <5>3. CASE IsTransmitting(w)
          <6>1. t.pend = s.pend /\ t.tcp = s.tcp
            BY <1>6, <4>2, <5>1, <5>2, <5>3
          <6>2. Patient(f, s, t)
            BY <1>1, <3>2, <5>1, <6>1 DEF Patient
          <6> QED
            BY <1>1, <2>1, <6>2, ServedAbout
        <5>4. CASE ~IsTransmitting(w) /\ write = "whole"
          <6>1. Sent(f, s, r)
            BY <1>6, <5>2, <5>4
          <6>2. f \notin Fast
            BY <1>1, <5>1, <6>1 DEF Sent
          <6>3. s.pend.list = << >>
            BY <1>1, <2>1, <6>2 DEF Woken
          <6>4. Queued(s.pend) = {}
            BY <1>1, <6>3, Parts, RoundElim, NoElements
          <6>5. Alone(f, s, t)
            BY <3>2, <5>1, <5>2, <6>4 DEF Alone
          <6> QED
            BY <1>1, <2>1, <6>5, ServedEmpty
        <5>5. CASE ~IsTransmitting(w) /\ write \in {"part", "error"}
          BY <1>6, <4>2, <5>1, <5>2, <5>5
        <5> QED
          BY <1>1, <2>3, <5>3, <5>4, <5>5
      <4> QED
        BY <4>1, <4>2
    <3> QED
      BY <1>1, <2>1, <3>4, <3>5, WokenAbout
  <2> QED
    BY <2>2, <2>3
<1>14. Good(t, NotServing)
  BY <1>8, <1>11, <1>12, <1>13 DEF Good
<1>15. State' = t
  BY <1>2, <1>8, BecomesState
<1> QED
  BY <1>1, <1>14, <1>15 DEF Inv

\* The flow and the connection change together.
FlowTcp(s, f, r, c, rs) == [[[s EXCEPT !.tcp = c] EXCEPT !.flows[f] = r] EXCEPT !.reconnects = rs]

LEMMA FlowTcpSet ==
  ASSUME NEW s, Typed(s), NEW f \in Flow, NEW r \in FlowState, NEW c \in TcpState, NEW rs \in SUBSET Flow
  PROVE  /\ Typed(FlowTcp(s, f, r, c, rs))
         /\ FlowTcp(s, f, r, c, rs).flows = [s.flows EXCEPT ![f] = r]
         /\ FlowTcp(s, f, r, c, rs).tcp = c
         /\ FlowTcp(s, f, r, c, rs).pend = s.pend
         /\ FlowTcp(s, f, r, c, rs).reconnects = rs
         /\ FlowTcp(s, f, r, c, rs).step = s.step
         /\ FlowTcp(s, f, r, c, rs).flows[f] = r
         /\ \A g \in Flow \ {f} : FlowTcp(s, f, r, c, rs).flows[g] = s.flows[g]
<1> DEFINE u == [s EXCEPT !.tcp = c]
           v == [u EXCEPT !.flows[f] = r]
           t == [v EXCEPT !.reconnects = rs]
<1>1. /\ Typed(u) /\ u.flows = s.flows /\ u.tcp = c /\ u.pend = s.pend
      /\ u.reconnects = s.reconnects /\ u.step = s.step
  BY TcpSet
<1> HIDE DEF u
<1>2. /\ Typed(v) /\ v.flows = [u.flows EXCEPT ![f] = r] /\ v.tcp = c /\ v.pend = s.pend
      /\ v.reconnects = s.reconnects /\ v.step = s.step
  BY <1>1, FlowSet
<1> HIDE DEF v
<1>3. /\ Typed(t) /\ t.flows = v.flows /\ t.tcp = c /\ t.pend = s.pend
      /\ t.reconnects = rs /\ t.step = s.step
  BY <1>2 DEF Typed, States
<1> HIDE DEF t
<1>4. t.flows[f] = r /\ \A g \in Flow \ {f} : t.flows[g] = s.flows[g]
  BY <1>1, <1>2, <1>3, Parts
<1> QED
  BY <1>1, <1>2, <1>3, <1>4 DEF t, v, u, FlowTcp

LEMMA ReconnectGood ==
  ASSUME Inv, NEW f \in Flow, Reconnect(f)
  PROVE  Inv'
<1> DEFINE s == State
           on == s.flows[f].on
           r == IF on THEN [s.flows[f] EXCEPT !.paused = FALSE, !.timer = TRUE] ELSE s.flows[f]
           z == IF s.tcp.socket = "idle" THEN "connecting" ELSE s.tcp.socket
           c == IF on THEN [s.tcp EXCEPT !.socket = z] ELSE s.tcp
           rs == s.reconnects \ {f}
           t == FlowTcp(s, f, r, c, rs)
<1>1. /\ Good(s, NotServing) /\ Typed(s) /\ breakOut' = NotServing
  BY Guards DEF Inv, Reconnect, Idle, Good
<1>2. s.flows \in [Flow -> FlowState] /\ s.tcp \in TcpState /\ s.reconnects \in SUBSET Flow
      /\ s.flows[f] \in FlowState
  BY <1>1, Parts
<1>3. /\ flows' = [s.flows EXCEPT ![f] = r] /\ tcp' = c /\ pend' = s.pend
      /\ reconnects' = rs /\ step' = s.step
  <2>1. [s.flows EXCEPT ![f] = s.flows[f]] = s.flows
    BY <1>2
  <2>2. on => flows' = [s.flows EXCEPT ![f] = r] /\ tcp' = c
    BY Guards DEF Reconnect
  <2>3. ~on => flows' = s.flows /\ tcp' = s.tcp
    BY Guards DEF Reconnect
  <2> QED
    BY <2>1, <2>2, <2>3, Guards DEF Reconnect
<1> HIDE DEF s
<1>4. /\ r \in FlowState /\ r.on = s.flows[f].on /\ r.wanted = s.flows[f].wanted
      /\ r.offPending = s.flows[f].offPending /\ r.limit = s.flows[f].limit /\ r.sent = s.flows[f].sent
      /\ r.nextNumber = s.flows[f].nextNumber /\ r.socketError = s.flows[f].socketError
      /\ on => ~r.paused /\ r.timer
      /\ ~on => r = s.flows[f]
  BY <1>2 DEF FlowState
<1> HIDE DEF r
<1>5. z \in Sockets
  BY <1>2 DEF TcpState, Sockets
<1> HIDE DEF z
<1>6. /\ c \in TcpState /\ c.references = s.tcp.references /\ c.message = s.tcp.message
      /\ c.notify = s.tcp.notify
      /\ c.socket = IF on THEN z ELSE s.tcp.socket
  BY <1>2, <1>5 DEF TcpState
<1> HIDE DEF c
<1>14. rs \in SUBSET Flow
  BY <1>2
<1> HIDE DEF rs
<1>7. /\ Typed(t) /\ t.flows = [s.flows EXCEPT ![f] = r] /\ t.tcp = c /\ t.pend = s.pend
      /\ t.reconnects = rs /\ t.step = s.step
      /\ t.flows[f] = r /\ \A g \in Flow \ {f} : t.flows[g] = s.flows[g]
  BY <1>1, <1>4, <1>6, <1>14, FlowTcpSet
<1> HIDE DEF t
<1>8. State' = t
  BY <1>3, <1>7, BecomesState DEF Becomes
<1>9. Numbers(t)
  <2>1. \A g \in Flow : t.flows[g].nextNumber = s.flows[g].nextNumber
    BY <1>4, <1>7
  <2> QED
    BY <1>1, <1>6, <1>7, <2>1, NumbersKept DEF Good, SameNumbers
<1>10. \A g \in Flow : /\ t.flows[g].on = s.flows[g].on
                       /\ t.flows[g].wanted = s.flows[g].wanted
                       /\ t.flows[g].offPending = s.flows[g].offPending
                       /\ t.flows[g].socketError = s.flows[g].socketError
                       /\ LimitReached(t, g) <=> LimitReached(s, g)
  BY <1>4, <1>7 DEF LimitReached
<1>11. Tidy => References(t)
  <2>1. t.tcp.socket \notin {"closed", "idle"} \/ t.tcp.socket = s.tcp.socket
    BY <1>6, <1>7 DEF z
  <2>2. t.tcp.socket = "idle" => \A g \in Flow : t.flows[g].paused = s.flows[g].paused
    BY <1>4, <1>6, <1>7 DEF z
  <2>3. CASE t.tcp.socket # "closed"
    <3>1. SameUse(s, t)
      BY <1>6, <1>7, <1>10, <2>1, <2>2, <2>3 DEF SameUse
    <3> QED
      BY <1>1, <3>1, ReferencesKept DEF Good
  <2>4. CASE t.tcp.socket = "closed"
    <3>1. s.tcp.socket = "closed"
      BY <2>1, <2>4
    <3>2. ASSUME Tidy PROVE ~on
      BY <1>1, <3>1, <3>2 DEF Good, References, Using
    <3>3. ASSUME Tidy PROVE SameUse(s, t)
      <4>1. r = s.flows[f]
        BY <1>4, <3>2, <3>3
      <4> QED
        BY <1>6, <1>7, <1>10, <3>1, <2>4, <4>1 DEF SameUse
    <3> QED
      BY <1>1, <3>3, ReferencesKept DEF Good
  <2> QED
    BY <2>3, <2>4
<1>12. ASSUME Tidy, PendingMessageLimit = Unlimited PROVE Woken(t) /\ Served(t, NotServing)
  <2>1. Woken(s) /\ Served(s, NotServing) /\ References(s)
    BY <1>1, <1>12 DEF Good
  <2>2. \A g \in Flow : t.flows[g].paused /\ t.flows[g].on => g \in t.reconnects
    BY <1>4, <1>7, <1>10, <2>1 DEF Woken, rs
  <2>3. \A g \in Flow : t.flows[g].paused => t.flows[g].wanted \/ t.flows[g].offPending
    BY <1>4, <1>7, <1>10, <2>1 DEF Woken
  <2>4. ASSUME NEW g \in Flow, t.flows[g].paused, t.flows[g].offPending
        PROVE  t.tcp.socket = "idle" /\ ~t.flows[g].timer
    <3>1. s.flows[g].offPending /\ s.flows[g].on
      BY <1>10, <2>1, <2>4 DEF References
    <3>2. g # f
      BY <1>4, <1>7, <2>4, <3>1
    <3>3. ~on
      BY <2>1, <3>1, <3>2 DEF References, OffAlone
    <3>4. s.flows[g].paused /\ t.flows[g] = s.flows[g]
      BY <1>7, <2>4, <3>2
    <3> QED
      BY <1>6, <1>7, <2>1, <3>1, <3>3, <3>4 DEF Woken
  <2>5. \A g \in Flow : t.flows[g].socketError => g \in Fast
    BY <1>10, <2>1 DEF Woken
  <2>6. ASSUME NEW g \in Queued(t.pend), NEW h \in Flow, t.flows[h].on, h # g
        PROVE  t.flows[g].on
    <3>1. g \in Flow
      BY <1>7, Parts, RoundElim
    <3> QED
      BY <1>7, <1>10, <2>1, <2>6, <3>1 DEF Woken
  <2>7. May(t, f) => Timed(t, f)
    BY <1>4, <1>7 DEF May, Timed
  <2>8. ASSUME t.tcp.socket \in {"connecting", "connected"}, NEW g \in Flow, May(t, g)
        PROVE  Timed(t, g) \/ g \in Queued(t.pend)
    <3>1. CASE g = f
      BY <2>7, <2>8, <3>1
    <3>2. CASE g # f
      <4>1. May(s, g) /\ s.flows[g] = t.flows[g]
        BY <1>7, <1>10, <2>8, <3>2 DEF May
      <4>2. CASE s.tcp.socket \in {"connecting", "connected"}
        BY <1>7, <2>1, <3>2, <4>1, <4>2 DEF Woken, Timed, rs
      <4>3. CASE s.tcp.socket \notin {"connecting", "connected"}
        <5>1. s.tcp.socket = "idle"
          BY <1>6, <1>7, <2>8, <4>3 DEF z
        <5>2. g \in s.reconnects
          BY <2>1, <4>1, <5>1 DEF References, Woken, May, Using
        <5> QED
          BY <1>7, <3>2, <5>2 DEF Timed, rs
      <4> QED
        BY <4>2, <4>3
    <3> QED
      BY <3>1, <3>2
  <2>9. Woken(t)
    BY <2>2, <2>3, <2>4, <2>5, <2>6, <2>8 DEF Woken
  <2>10. Patient(f, s, t)
    <3>1. t.tcp.socket = "connected" /\ ~t.tcp.notify => s.tcp.socket = "connected" /\ ~s.tcp.notify
      BY <1>6, <1>7 DEF z
    <3>2. t.reconnects \ {f} = s.reconnects \ {f}
      BY <1>7 DEF rs
    <3> QED
      BY <1>7, <1>10, <2>7, <3>1, <3>2 DEF Patient
  <2> QED
    BY <1>1, <2>1, <2>9, <2>10, ServedAbout
<1>13. Good(t, NotServing)
  BY <1>7, <1>9, <1>11, <1>12 DEF Good
<1> QED
  BY <1>1, <1>8, <1>13 DEF Inv

LEMMA OnGood ==
  ASSUME Inv, NEW f \in Flow, NEW count \in Counts, On(f, count)
  PROVE  Inv'
<1> DEFINE s == State
           r == [s.flows[f] EXCEPT !.on = TRUE, !.wanted = TRUE, !.offPending = FALSE,
                                   !.limit = count, !.sent = 0, !.timer = ~s.flows[f].paused]
           z == IF s.tcp.socket \in {"closed", "idle"} THEN "connecting" ELSE s.tcp.socket
           n == IF s.flows[f].offPending THEN s.tcp.references ELSE s.tcp.references + 1
           c == [s.tcp EXCEPT !.socket = z, !.references = n, !.retries = RetryCount]
           rs == s.reconnects
           t == FlowTcp(s, f, r, c, rs)
<1>1. /\ Good(s, NotServing) /\ Typed(s) /\ breakOut' = NotServing /\ ~s.flows[f].wanted
      /\ Tidy => \A g \in Flow \ {f} : /\ ~s.flows[g].offPending
                                       /\ g \in Queued(s.pend) => s.flows[g].on
  BY Guards DEF Inv, On, Idle, Good
<1>2. /\ s.flows \in [Flow -> FlowState] /\ s.tcp \in TcpState /\ s.reconnects \in SUBSET Flow
      /\ s.flows[f] \in FlowState
  BY <1>1, Parts
<1>3. /\ flows' = [s.flows EXCEPT ![f] = r] /\ tcp' = c /\ pend' = s.pend
      /\ reconnects' = rs /\ step' = s.step
  BY Guards DEF On, Restarts
<1> HIDE DEF s
<1>4. count \in Nat \cup {Unlimited} /\ RetryCount \in Int
  BY TcpFlowsAssumption DEF Unlimited
<1>5. /\ r \in FlowState /\ r.on /\ r.wanted /\ ~r.offPending
      /\ r.paused = s.flows[f].paused /\ r.timer = ~s.flows[f].paused
      /\ r.nextNumber = s.flows[f].nextNumber /\ r.socketError = s.flows[f].socketError
  BY <1>2, <1>4 DEF FlowState
<1> HIDE DEF r
<1>6. z \in Sockets /\ n \in Nat
  BY <1>2 DEF TcpState, Sockets
<1> HIDE DEF z, n
<1>7. /\ c \in TcpState /\ c.references = n /\ c.message = s.tcp.message
      /\ c.notify = s.tcp.notify /\ c.socket = z
  BY <1>2, <1>4, <1>6 DEF TcpState
<1> HIDE DEF c
<1>8. rs \in SUBSET Flow /\ rs = s.reconnects
  BY <1>2
<1> HIDE DEF rs
<1>9. /\ Typed(t) /\ t.flows = [s.flows EXCEPT ![f] = r] /\ t.tcp = c /\ t.pend = s.pend
      /\ t.reconnects = rs /\ t.step = s.step
      /\ t.flows[f] = r /\ \A g \in Flow \ {f} : t.flows[g] = s.flows[g]
  BY <1>1, <1>5, <1>7, <1>8, FlowTcpSet
<1> HIDE DEF t
<1>10. State' = t
  BY <1>3, <1>9, BecomesState DEF Becomes
<1>11. Numbers(t)
  <2>1. \A g \in Flow : t.flows[g].nextNumber = s.flows[g].nextNumber
    BY <1>5, <1>9
  <2> QED
    BY <1>1, <1>7, <1>9, <2>1, NumbersKept DEF Good, SameNumbers
<1>12. ASSUME Tidy PROVE References(t) /\ \A g \in Flow : ~t.flows[g].offPending
  <2>1. References(s)
    BY <1>1, <1>12 DEF Good
  <2>2. \A g \in Flow : ~t.flows[g].offPending
    BY <1>1, <1>5, <1>9, <1>12
  <2>3. Using(t) = Using(s) \cup {f}
    BY <1>5, <1>9 DEF Using
  <2>4. s.flows[f].on <=> s.flows[f].offPending
    BY <1>1, <2>1 DEF References, Using
  <2>5. t.tcp.references = Cardinality(Using(t))
    <3>1. CASE s.flows[f].offPending
      <4>1. Using(t) = Using(s)
        BY <2>3, <2>4, <3>1 DEF Using
      <4> QED
        BY <1>7, <1>9, <2>1, <3>1, <4>1 DEF References, n
    <3>2. CASE ~s.flows[f].offPending
      <4>1. f \notin Using(s)
        BY <2>4, <3>2 DEF Using
      <4>2. Cardinality(Using(s) \cup {f}) = Cardinality(Using(s)) + 1
        BY <4>1, UsingFinite, FS_AddElement
      <4> QED
        BY <1>7, <1>9, <2>1, <2>3, <3>2, <4>2 DEF References, n
    <3> QED
      BY <3>1, <3>2
  <2>6. t.tcp.socket \notin {"closed", "idle"}
    BY <1>7, <1>9 DEF z
  <2>7. \A g \in Using(t) : t.flows[g].wanted
    <3>1. \A g \in Flow \ {f} : s.flows[g].on => s.flows[g].wanted
      BY <1>1, <1>12, <2>1 DEF References, Using
    <3> QED
      BY <1>5, <1>9, <3>1 DEF Using
  <2>8. IsTransmitting(t) => t.flows[t.tcp.message.flow].on
    <3>1. IsTransmitting(t) => IsTransmitting(s) /\ t.tcp.message.flow = s.tcp.message.flow
      BY <1>7, <1>9 DEF IsTransmitting
    <3> QED
      BY <1>1, <1>5, <1>9, <2>1, <3>1, MessageFlow DEF References
  <2> QED
    BY <2>2, <2>5, <2>6, <2>7, <2>8 DEF References, OffAlone
<1>13. ASSUME Tidy, PendingMessageLimit = Unlimited PROVE Woken(t) /\ Served(t, NotServing)
  <2>1. Woken(s) /\ Served(s, NotServing) /\ References(s)
    BY <1>1, <1>13 DEF Good
  <2>2. s.flows[f].on <=> s.flows[f].offPending
    BY <1>1, <2>1 DEF References, Using
  <2>3. s.flows[f].paused => f \in t.reconnects
    BY <1>1, <1>8, <1>9, <2>1, <2>2 DEF Woken
  <2>4. \A g \in Flow : t.flows[g].paused /\ t.flows[g].on => g \in t.reconnects
    BY <1>5, <1>8, <1>9, <2>1, <2>3 DEF Woken
  <2>5. \A g \in Flow : t.flows[g].paused => t.flows[g].wanted \/ t.flows[g].offPending
    BY <1>5, <1>9, <2>1 DEF Woken
  <2>6. \A g \in Flow : t.flows[g].socketError => g \in Fast
    BY <1>5, <1>9, <2>1 DEF Woken
  <2>7. ASSUME NEW g \in Queued(t.pend) PROVE t.flows[g].on
    <3>1. g \in Flow
      BY <1>9, Parts, RoundElim
    <3> QED
      BY <1>1, <1>5, <1>9, <1>13, <3>1
  <2>8. May(t, f) => Timed(t, f)
    BY <1>5, <1>9, <2>3 DEF Timed
  <2>9. ASSUME t.tcp.socket \in {"connecting", "connected"}, NEW g \in Flow, May(t, g)
        PROVE  Timed(t, g) \/ g \in Queued(t.pend)
    <3>1. CASE g = f
      BY <2>8, <2>9, <3>1
    <3>2. CASE g # f
      <4>1. May(s, g) /\ s.flows[g] = t.flows[g]
        BY <1>9, <2>9, <3>2 DEF May, LimitReached
      <4>2. CASE s.tcp.socket \in {"connecting", "connected"}
        BY <1>8, <1>9, <2>1, <4>1, <4>2 DEF Woken, Timed
      <4>3. CASE s.tcp.socket \notin {"connecting", "connected"}
        <5>1. s.tcp.socket \in {"closed", "idle"}
          BY <1>7, <1>9, <2>9, <4>3 DEF z
        <5>2. g \in s.reconnects
          BY <2>1, <4>1, <5>1 DEF References, Woken, May, Using
        <5> QED
          BY <1>8, <1>9, <5>2 DEF Timed
      <4> QED
        BY <4>2, <4>3
    <3> QED
      BY <3>1, <3>2
  <2>10. Woken(t)
    BY <1>12, <1>13, <2>4, <2>5, <2>6, <2>7, <2>9 DEF Woken
  <2>11. Patient(f, s, t)
    <3>1. t.tcp.socket = "connected" /\ ~t.tcp.notify => s.tcp.socket = "connected" /\ ~s.tcp.notify
      BY <1>7, <1>9 DEF z
    <3>2. ASSUME f \in Queued(s.pend), LimitReached(s, f) \/ ~s.flows[f].on, NEW h \in Flow \ {f}
          PROVE  ~t.flows[h].on
      <4>1. CASE s.flows[f].on
        BY <1>9, <2>1, <2>2, <4>1 DEF References, OffAlone
      <4>2. CASE ~s.flows[f].on
        BY <1>9, <2>1, <3>2, <4>2 DEF Woken
      <4> QED
        BY <4>1, <4>2
    <3> QED
      BY <1>8, <1>9, <2>8, <3>1, <3>2 DEF Patient
  <2> QED
    BY <1>1, <2>1, <2>10, <2>11, ServedAbout
<1>14. Good(t, NotServing)
  BY <1>9, <1>11, <1>12, <1>13 DEF Good
<1> QED
  BY <1>1, <1>10, <1>14 DEF Inv

LEMMA OffGood ==
  ASSUME Inv, NEW f \in Flow, Off(f)
  PROVE  Inv'
<1> DEFINE s == State
           p == [s.flows[f] EXCEPT !.wanted = FALSE]
           r == [p EXCEPT !.offPending = TRUE]
           w == [r EXCEPT !.timer = FALSE]
           q == AppendFlow(s.pend, f)
           unwanted == [s EXCEPT !.flows[f] = p]
           rest == [s EXCEPT !.pend = q]
           deferred == [rest EXCEPT !.flows[f] = r]
           stopped == [rest EXCEPT !.flows[f] = w]
           t == Notify(stopped, TRUE)
<1>1. /\ Good(s, NotServing) /\ Typed(s) /\ breakOut' = NotServing /\ s.flows[f].wanted
      /\ Tidy => Using(s) \subseteq {f} /\ ~s.flows[f].paused /\ s.tcp.socket # "connecting"
  BY Guards DEF Inv, Off, Idle, Good, IsConnecting
<1>2. Becomes(IF ~Defers(f) THEN StopFlow(unwanted, f)
              ELSE IF s.flows[f].socketError THEN StopFlow(deferred, f)
              ELSE t)
  <2>1. [s EXCEPT !.flows[f].wanted = FALSE] = unwanted
    OBVIOUS
  <2>2. [unwanted EXCEPT !.flows[f].offPending = TRUE, !.pend = AppendFlow(@, f)] = deferred
    BY <1>1 DEF Typed, States
  <2>3. [deferred EXCEPT !.flows[f].timer = FALSE] = stopped
    BY <1>1 DEF Typed, States
  <2> QED
    BY <2>1, <2>2, <2>3, Guards DEF Off
<1>3. Defers(f) => s.flows[f].on
  BY Guards DEF Defers
<1> HIDE DEF s
<1>4. s.flows[f] \in FlowState /\ s.flows \in [Flow -> FlowState]
  BY <1>1, Parts
<1>5. /\ p \in FlowState /\ p.on = s.flows[f].on /\ p.paused = s.flows[f].paused
      /\ p.nextNumber = s.flows[f].nextNumber /\ p.socketError = s.flows[f].socketError
  BY <1>4 DEF FlowState
<1>6. /\ r \in FlowState /\ r.on = s.flows[f].on /\ r.paused = s.flows[f].paused
      /\ r.nextNumber = s.flows[f].nextNumber /\ r.socketError = s.flows[f].socketError
  BY <1>4 DEF FlowState
<1>7. /\ w \in FlowState /\ w.on = s.flows[f].on /\ w.paused = s.flows[f].paused
      /\ w.nextNumber = s.flows[f].nextNumber /\ w.socketError = s.flows[f].socketError
      /\ w.offPending /\ ~w.timer
  BY <1>4 DEF FlowState
<1>8. Round(q) /\ Queued(q) = Queued(s.pend) \cup {f}
  BY <1>1, Parts, AppendFlowProperties
<1> HIDE DEF p, r, w, q
<1>9. /\ Typed(unwanted) /\ unwanted.flows = [s.flows EXCEPT ![f] = p] /\ unwanted.tcp = s.tcp
      /\ unwanted.pend = s.pend /\ unwanted.reconnects = s.reconnects /\ unwanted.step = s.step
  BY <1>1, <1>5, FlowSet
<1>10. /\ Typed(rest) /\ rest.flows = s.flows /\ rest.tcp = s.tcp /\ rest.pend = q
       /\ rest.reconnects = s.reconnects /\ rest.step = s.step
  BY <1>1, <1>8, PendSet
<1> HIDE DEF unwanted, rest
<1>11. /\ Typed(deferred) /\ deferred.flows = [s.flows EXCEPT ![f] = r] /\ deferred.tcp = s.tcp
       /\ deferred.pend = q /\ deferred.reconnects = s.reconnects /\ deferred.step = s.step
  BY <1>6, <1>10, FlowSet
<1>12. /\ Typed(stopped) /\ stopped.flows = [s.flows EXCEPT ![f] = w] /\ stopped.tcp = s.tcp
       /\ stopped.pend = q /\ stopped.reconnects = s.reconnects /\ stopped.step = s.step
  BY <1>7, <1>10, FlowSet
<1> HIDE DEF deferred, stopped
<1>13. ASSUME Tidy
       PROVE  /\ Using(s) \subseteq {f}
              /\ IsTransmitting(s) => IsConnected(s)
              /\ PendingMessageLimit = Unlimited => ~s.flows[f].paused
  <2>1. References(s)
    BY <1>1, <1>13 DEF Good
  <2>2. ASSUME IsTransmitting(s) PROVE IsConnected(s)
    <3>1. f \in Using(s)
      BY <1>1, <1>13, <2>1, <2>2, MessageFlow DEF References, Using
    <3>2. s.tcp.socket \notin {"closed", "idle", "connecting"}
      BY <1>1, <1>13, <2>1, <3>1 DEF References
    <3>3. s.tcp.socket \in Sockets
      BY <1>1, Parts DEF TcpState
    <3> QED
      BY <3>2, <3>3 DEF Sockets, IsConnected
  <2> QED
    BY <1>1, <1>13, <2>2
<1>14. CASE ~Defers(f)
  <2> DEFINE u == StopFlow(unwanted, f)
  <2>1. Becomes(u) /\ Stopped(f, unwanted, u)
    BY <1>2, <1>9, <1>14, StopFlowEffect
  <2> HIDE DEF u
  <2>2. Stopped(f, s, u)
    BY <1>4, <1>5, <1>9, <2>1 DEF Stopped, IsConnected
  <2>3. Good(u, NotServing)
    BY <1>1, <1>13, <2>2, GoodStopped
  <2> QED
    BY <1>1, <2>1, <2>2, <2>3, BecomesState DEF Inv, Stopped
<1>15. CASE Defers(f) /\ s.flows[f].socketError
  <2> DEFINE u == StopFlow(deferred, f)
  <2>1. Becomes(u) /\ Stopped(f, deferred, u)
    BY <1>2, <1>11, <1>15, StopFlowEffect
  <2> HIDE DEF u
  <2>2. Queued(q) \ {f} = Queued(s.pend) \ {f}
    BY <1>8
  <2>3. Stopped(f, s, u)
    BY <1>3, <1>4, <1>6, <1>11, <1>15, <2>1, <2>2 DEF Stopped, IsConnected
  <2>4. Good(u, NotServing)
    BY <1>1, <1>13, <2>3, GoodStopped
  <2> QED
    BY <1>1, <2>1, <2>3, <2>4, BecomesState DEF Inv, Stopped
<1>16. CASE Defers(f) /\ ~s.flows[f].socketError
  <2>1. /\ Typed(t) /\ t.flows = [s.flows EXCEPT ![f] = w] /\ t.pend = q
        /\ t.reconnects = s.reconnects /\ t.step = s.step
        /\ t.tcp.socket = s.tcp.socket /\ t.tcp.references = s.tcp.references
        /\ t.tcp.message = s.tcp.message /\ t.tcp.notify
    <3>1. /\ Typed(t) /\ t.flows = stopped.flows /\ t.pend = stopped.pend
          /\ t.reconnects = stopped.reconnects /\ t.step = stopped.step
          /\ t.tcp.socket = stopped.tcp.socket /\ t.tcp.references = stopped.tcp.references
          /\ t.tcp.message = stopped.tcp.message /\ t.tcp.notify
      BY <1>12, NotifyEffect
    <3> QED
      BY <1>12, <3>1
  <2>2. Becomes(t)
    BY <1>2, <1>16
  <2> HIDE DEF t
  <2>3. t.flows[f] = w /\ \A g \in Flow \ {f} : t.flows[g] = s.flows[g]
    BY <1>4, <2>1
  <2>4. Numbers(t)
    <3>1. \A g \in Flow : t.flows[g].nextNumber = s.flows[g].nextNumber
      BY <1>7, <2>3
    <3> QED
      BY <1>1, <2>1, <3>1, NumbersKept DEF Good, SameNumbers
  <2>5. ASSUME Tidy PROVE References(t)
    <3>1. References(s)
      BY <1>1, <2>5 DEF Good
    <3>2. \A g \in Flow : t.flows[g].on = s.flows[g].on /\ t.flows[g].paused = s.flows[g].paused
      BY <1>7, <2>3
    <3>3. Using(t) = Using(s)
      BY <3>2 DEF Using
    <3>4. IsTransmitting(t) => t.flows[t.tcp.message.flow].on
      BY <1>1, <2>1, <3>1, <3>2, MessageFlow DEF References, IsTransmitting
    <3>5. \A g \in Flow : t.flows[g].offPending => t.flows[g].on
      BY <1>3, <1>7, <1>16, <2>3, <3>1 DEF References
    <3>6. \A g \in Using(t) : g = f
      BY <1>1, <2>5, <3>3
    <3>7. t.tcp.socket = "idle" => \A g \in Using(t) : t.flows[g].paused
      BY <2>1, <3>1, <3>2, <3>3 DEF References, Using
    <3>8. OffAlone(t)
      BY <3>5, <3>6 DEF OffAlone, Using
    <3> QED
      BY <1>7, <2>1, <2>3, <3>1, <3>3, <3>4, <3>5, <3>6, <3>7, <3>8 DEF References
  <2>6. ASSUME Tidy, PendingMessageLimit = Unlimited PROVE Woken(t) /\ Served(t, NotServing)
    <3>1. Woken(s) /\ References(s)
      BY <1>1, <2>6 DEF Good
    <3>2. \A g \in Flow \ {f} : ~t.flows[g].on
      BY <1>1, <2>3, <2>6 DEF Using
    <3>3. \A g \in Flow : t.flows[g].paused /\ t.flows[g].on => g \in t.reconnects
      BY <1>1, <1>7, <2>3, <2>6, <3>2
    <3>4. \A g \in Flow : t.flows[g].paused => t.flows[g].wanted \/ t.flows[g].offPending
      BY <1>7, <2>3, <3>1 DEF Woken
    <3>5. \A g \in Flow : t.flows[g].paused /\ t.flows[g].offPending =>
                            t.tcp.socket = "idle" /\ ~t.flows[g].timer
      BY <1>1, <1>7, <2>1, <2>3, <2>6, <3>1 DEF Woken
    <3>6. \A g \in Flow : t.flows[g].socketError => g \in Fast
      BY <1>7, <2>3, <3>1 DEF Woken
    <3>7. \A g \in Queued(t.pend), h \in Flow : t.flows[h].on /\ h # g => t.flows[g].on
      <4>1. \A g \in Queued(t.pend) : g \in Flow
        BY <2>1, Parts, RoundElim
      <4>2. \A g \in Queued(t.pend) : g # f => g \in Queued(s.pend)
        BY <1>8, <2>1
      <4> SUFFICES ASSUME NEW g \in Queued(t.pend), NEW h \in Flow, t.flows[h].on, h # g
                   PROVE  t.flows[g].on
        OBVIOUS
      <4>3. h = f /\ g # f
        BY <3>2
      <4>4. s.flows[f].on
        BY <1>3, <1>16
      <4> QED
        BY <2>3, <3>1, <4>1, <4>2, <4>3, <4>4 DEF Woken
    <3>8. \A g \in Flow : May(t, g) => g \in Queued(t.pend)
      BY <1>8, <2>1, <3>2 DEF May
    <3>9. Woken(t)
      BY <3>3, <3>4, <3>5, <3>6, <3>7, <3>8 DEF Woken
    <3> QED
      BY <2>1, <3>9, ServedNotified
  <2>7. Good(t, NotServing)
    BY <2>1, <2>4, <2>5, <2>6 DEF Good
  <2> QED
    BY <1>1, <2>1, <2>2, <2>7, BecomesState DEF Inv
<1> QED
  BY <1>14, <1>15, <1>16

-------------------------------------------------------------------------------
(* The specification.                                                      *)

LEMMA InitGood == Init => Inv
<1> DEFINE s == State
           off == [on |-> FALSE, wanted |-> FALSE, timer |-> FALSE, paused |-> FALSE, offPending |-> FALSE,
                   socketError |-> FALSE, pending |-> 0, limit |-> Unlimited, sent |-> 0, nextNumber |-> 1]
<1>1. ASSUME Init PROVE Inv
  <2>1. /\ s.flows = [f \in Flow |-> off]
        /\ s.tcp = [socket |-> "closed", references |-> 0, notify |-> FALSE, retries |-> 0,
                    message |-> NoMessage]
        /\ s.pend = EmptyQueue /\ s.reconnects = {} /\ s.step = 1
        /\ breakOut = NotServing
    BY <1>1, Guards DEF Init
  <2>2. Typed(s)
    <3>1. s.flows \in [Flow -> FlowState]
      BY <2>1 DEF FlowState
    <3>2. s.tcp \in TcpState
      <4>1. NoMessage \in Messages /\ "closed" \in Sockets
        BY DEF Messages, Sockets
      <4> QED
        BY <2>1, <4>1 DEF TcpState
    <3>3. Round(s.pend) /\ s.pend \in Queues
      BY <2>1, EmptyQueueProperties DEF Round
    <3> DEFINE r == [flows |-> s.flows, tcp |-> s.tcp, pend |-> s.pend,
                     reconnects |-> s.reconnects, step |-> s.step]
    <3>4. s = r
      BY DEF State
    <3>5. s.reconnects \in SUBSET Flow /\ s.step \in Int
      BY <2>1
    <3> HIDE DEF s
    <3>6. r \in States
      BY <3>1, <3>2, <3>3, <3>5 DEF States
    <3> HIDE DEF r
    <3> QED
      BY <3>3, <3>4, <3>6 DEF Typed
  <2> HIDE DEF s
  <2>3. ~IsTransmitting(s) /\ Using(s) = {} /\ s.tcp.socket = "closed" /\ s.tcp.references = 0
    BY <2>1 DEF IsTransmitting, Using
  <2>4. \A f \in Flow : /\ ~s.flows[f].on /\ ~s.flows[f].offPending /\ ~s.flows[f].paused
                        /\ ~s.flows[f].socketError /\ s.flows[f].nextNumber = 1
    <3>1. /\ ~off.on /\ ~off.offPending /\ ~off.paused /\ ~off.socketError
          /\ off.nextNumber = 1
      OBVIOUS
    <3> HIDE DEF off
    <3> QED
      BY <2>1, <3>1
  <2>5. Numbers(s)
    BY <2>1, <2>3, <2>4 DEF Numbers
  <2>6. References(s)
    BY <2>3, <2>4, NoFlowUses DEF References, OffAlone
  <2>7. Woken(s) /\ Served(s, NotServing)
    BY <2>3, <2>4 DEF Woken, Served
  <2>8. Good(s, NotServing)
    BY <2>2, <2>5, <2>6, <2>7 DEF Good
  <2> QED
    BY <2>1, <2>8 DEF Inv, s
<1> QED
  BY <1>1

LEMMA ServeGood ==
  ASSUME Inv, Serve
  PROVE  Inv'
<1>1. ASSUME NEW f \in Flow, NEW write \in Writes, ServeSend(f, write) PROVE Inv'
  BY <1>1, ServeSendGood
<1>2. ASSUME NEW f \in Flow, ServeStop(f) PROVE Inv'
  BY <1>2, ServeStopGood
<1>3. ASSUME NEW f \in Flow, ServeSkip(f) PROVE Inv'
  BY <1>3, ServeSkipGood
<1>4. CASE ServeEnd
  BY <1>4, ServeEndGood
<1> QED
  BY <1>1, <1>2, <1>3, <1>4 DEF Serve

LEMMA SocketGood ==
  ASSUME Inv, Socket \/ Fails
  PROVE  Inv'
<1>1. CASE Connected
  BY <1>1, ConnectedGood
<1>2. CASE OutputReady
  BY <1>2, OutputReadyGood
<1>3. CASE Ends
  BY <1>3, LostGood DEF Ends, Idle
<1>4. CASE Fails
  BY <1>4, LostGood DEF Fails, Idle
<1> QED
  BY <1>1, <1>2, <1>3, <1>4 DEF Socket

LEMMA TxTimeoutGood ==
  ASSUME Inv, NEW f \in Flow, TxTimeout(f)
  PROVE  Inv'
<1>1. CASE TxNothing(f)
  BY <1>1, TxNothingGood
<1>2. CASE TxOff(f)
  BY <1>2, TxOffGood
<1>3. CASE TxQueue(f)
  BY <1>3, TxQueueGood
<1>4. ASSUME NEW write \in Writes, TxSend(f, write) PROVE Inv'
  BY <1>4, TxSendGood
<1> QED
  BY <1>1, <1>2, <1>3, <1>4 DEF TxTimeout

LEMMA NextGood ==
  ASSUME Inv, [Next]_vars
  PROVE  Inv'
<1>1. CASE UNCHANGED vars
  <2>1. State' = State /\ breakOut' = breakOut
    BY <1>1 DEF vars, State
  <2> QED
    BY <2>1 DEF Inv
<1>2. ASSUME NEW write \in Writes, Continue(write) PROVE Inv'
  BY <1>2, ContinueGood
<1>3. ASSUME NEW f \in Flow, NEW count \in Counts, On(f, count) PROVE Inv'
  BY <1>3, OnGood
<1>4. ASSUME NEW f \in Flow, Off(f) PROVE Inv'
  BY <1>4, OffGood
<1>5. ASSUME NEW f \in Flow, Reconnect(f) PROVE Inv'
  BY <1>5, ReconnectGood
<1>6. ASSUME NEW f \in Flow, TxTimeout(f) PROVE Inv'
  BY <1>6, TxTimeoutGood
<1> QED
  BY <1>1, <1>2, <1>3, <1>4, <1>5, <1>6, ServeGood, SocketGood DEF Next

\* What every reachable state has in common; which parts of it hold depends on
\* when an OFF may come and whether the loop of SendPendingMessage yields.
THEOREM Invariance == Spec => []Inv
BY InitGood, NextGood, PTL DEF Spec

\* Whatever is refused, cut off, lost and connected again in between, and
\* whenever an OFF comes: a flow's messages reach the other end with numbers
\* that have no gap.
THEOREM NumbersHaveNoGap == Spec => []NoGap
<1>1. Inv => NoGap
  BY Guards DEF Inv, Good, Numbers, NoGap
<1> QED
  BY <1>1, Invariance, PTL

\* When an OFF comes only for a flow that is alone on its connection, and
\* connected, the connection counts its flows right: in MgenTransport's
\* reference_count each flow between ON and the end of its OFF is one.
THEOREM OneReferenceEach == ASSUME Tidy PROVE Spec => []ReferencesMatch
<1>1. Inv => ReferencesMatch
  BY DEF Inv, Good, References, ReferencesMatch, State
<1> QED
  BY <1>1, Invariance, PTL

\* Then the message on its way belongs to a flow that is still on, and its
\* rest is sent for that flow.
THEOREM MessageOfItsFlow == ASSUME Tidy PROVE Spec => []OwnMessage
<1>1. Inv => OwnMessage
  BY Guards DEF Inv, Good, References, OwnMessage, IsTransmitting
<1> QED
  BY <1>1, Invariance, PTL

\* And, if SendPendingMessage does not yield, no flow is forgotten: when nobody
\* in the round robin blocks it, something will come to send its next message.
THEOREM NobodyForgotten ==
  ASSUME Tidy, PendingMessageLimit = Unlimited
  PROVE  Spec => []NoLostWakeup
<1>1. ASSUME Inv, \A g \in Flow : ~Blocks(g), NEW f \in Flow, flows[f].on, ~LimitReached(State, f)
      PROVE  Wakes(f)
  <2> DEFINE s == State
  <2>1. /\ References(s) /\ Woken(s) /\ Served(s, breakOut) /\ Typed(s)
        /\ s.flows[f].on /\ May(s, f)
    BY <1>1, Guards DEF Inv, Good, May
  <2>2. /\ Timed(s, f) <=> flows[f].timer \/ f \in reconnects
        /\ Queued(s.pend) = Queued(pend)
        /\ Blocked(s) <=> \E g \in Queued(pend) : LimitReached(State, g) \/ ~flows[g].on
    BY Guards DEF Timed, Blocked
  <2>3. ~Blocked(s)
    <3>1. \A g \in Queued(s.pend) : g \in Flow
      BY <2>1, Parts, RoundElim
    <3> QED
      BY <1>1, <2>2, <3>1 DEF Blocks
  <2>4. s.tcp.socket \in Sockets /\ s.tcp = tcp
    BY <2>1, Parts, Guards DEF TcpState
  <2> HIDE DEF s
  <2>5. f \in Using(s)
    BY <2>1 DEF Using
  <2>6. CASE s.tcp.socket = "closed"
    BY <2>1, <2>5, <2>6 DEF References
  <2>7. CASE s.tcp.socket = "idle"
    <3>1. s.flows[f].paused
      BY <2>1, <2>5, <2>7 DEF References
    <3>2. Timed(s, f)
      BY <2>1, <3>1 DEF Woken, Timed
    <3> QED
      BY <2>2, <3>2 DEF Wakes
  <2>8. CASE s.tcp.socket \in {"connecting", "shut", "broken"}
    BY <2>4, <2>8 DEF Wakes
  <2>9. CASE s.tcp.socket = "connected"
    <3>1. Timed(s, f) \/ f \in Queued(pend)
      BY <2>1, <2>2, <2>9 DEF Woken
    <3>2. breakOut # NotServing \/ s.tcp.notify \/ Timed(s, f)
      BY <2>1, <2>3, <2>9 DEF Served
    <3> QED
      BY <2>2, <2>4, <2>9, <3>1, <3>2 DEF Wakes
  <2> QED
    BY <2>4, <2>6, <2>7, <2>8, <2>9 DEF Sockets
<1>2. Inv => NoLostWakeup
  BY <1>1 DEF NoLostWakeup
<1> QED
  BY <1>2, Invariance, PTL
================================================================================
