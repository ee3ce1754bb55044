------------------------------ MODULE SinkStream ------------------------------
(***************************************************************************)
(* MgenAppSinkTransport: messages on a pipe.  A flow of protocol SINK hands*)
(* its messages to the sink, which keeps one that the pipe takes only in   *)
(* part and writes the rest when the pipe is ready; the source at the other*)
(* end reads two bytes of length, then the message.  Reader and writer are *)
(* two processes; the handlers of each run one at a time.                  *)
(*                                                                         *)
(* The flow is that of UdpFlows at a finite rate, without MOD, COUNT and   *)
(* suspension.  A byte knows the message it is from, its place in it and   *)
(* the length of the message, which its first two bytes spell.             *)
(***************************************************************************)
EXTENDS Integers, Sequences, SequencesExt

CONSTANTS QueueLimit,     \* of the flow
          MinSize,        \* MIN_SIZE
          MaxSize,        \* MAX_SIZE
          Lengths,        \* lengths of messages
          PipeSize,       \* bytes that the pipe holds
          Modulus,        \* of the numbers of messages
          MaxPending      \* bound: backlog

VARIABLES open,        \* the channel of the sink
          notify,      \* its output notification
          buffer,      \* msg_buffer: the message in it
          msgIndex,    \* msg_index
          on,          \* flow_transport # NULL
          txTimer, pendingMessages, offPending,
          serving,     \* inside the loop of SendPendingMessage
          sent,        \* history: number of the next message
          disturbed,   \* history: the stream was broken off, see Idle
          pipe,        \* bytes written and not read
          input,       \* input notification of the source
          rxLength,    \* msg_length of the source
          rxBytes,     \* msg_buffer of the source, up to its msg_index
          expected,    \* history: number of the next message to arrive
          sound        \* history: has every message been the one expected?

sinkVars == <<open, notify, buffer, msgIndex>>
flowVars == <<on, txTimer, pendingMessages, offPending>>
sourceVars == <<input, rxLength, rxBytes, expected, sound>>
vars == <<sinkVars, flowVars, serving, sent, disturbed, pipe, sourceVars>>

NoMessage == [number |-> 0, length |-> 0]

TypeOK ==
  /\ open \in BOOLEAN /\ notify \in BOOLEAN
  /\ buffer \in [number : 0..(Modulus - 1), length : {0} \cup Lengths]
  /\ msgIndex \in 0..buffer.length
  /\ on \in BOOLEAN /\ txTimer \in BOOLEAN /\ offPending \in BOOLEAN
  /\ pendingMessages \in 0..MaxPending
  /\ serving \in BOOLEAN /\ disturbed \in BOOLEAN /\ input \in BOOLEAN
  /\ sent \in 0..(Modulus - 1) /\ expected \in 0..(Modulus - 1)
  /\ Len(pipe) <= PipeSize
  /\ rxLength \in 0..MaxSize
  /\ rxLength > 0 => Len(rxBytes) < rxLength
  /\ sound \in BOOLEAN

Init ==
  /\ open = FALSE
  /\ notify = FALSE
  /\ buffer = NoMessage
  /\ msgIndex = 0
  /\ on = FALSE
  /\ txTimer = FALSE
  /\ pendingMessages = 0
  /\ offPending = FALSE
  /\ serving = FALSE
  /\ sent = 0
  /\ disturbed = FALSE
  /\ pipe = << >>
  /\ input = TRUE
  /\ rxLength = 0
  /\ rxBytes = << >>
  /\ expected = 0
  /\ sound = TRUE

\* No handler of the writer is at work.  A step that disturbs the stream is the
\* last: nothing is promised after it.
Idle == ~serving /\ ~disturbed

Min2(a, b) == IF a < b THEN a ELSE b

-------------------------------------------------------------------------------
(***************************************************************************)
(* The sink.                                                               *)
(***************************************************************************)
\* Mutant: a message that is not finished is overwritten.
BusyNever == FALSE

Busy == msgIndex < buffer.length

\* Open resets the buffer, whoever opens; Close closes, whoever else is on.
Open ==
  /\ open' = TRUE
  /\ notify' = TRUE
  /\ buffer' = NoMessage
  /\ msgIndex' = 0

Close ==
  /\ open' = FALSE
  /\ notify' = FALSE
  /\ UNCHANGED <<buffer, msgIndex>>

\* Bytes first to last of message m.
Bytes(m, first, last) ==
  [i \in 1..(last - first + 1) |-> [message |-> m, place |-> first + i - 1]]

\* Write m from index on: put bytes reach the pipe.  A write that fails returns
\* without moving msg_index, whatever was put.  A closed channel fails.
Write(m, index, put, ok) ==
  /\ put <= Min2(m.length - index, PipeSize - Len(pipe))
  /\ ok => open
  /\ ~open => put = 0
  /\ pipe' = pipe \o Bytes(m, index + 1, index + put)
  /\ msgIndex' = IF ok THEN index + put ELSE index

\* Mutant: the flow does not ask to be told when the sink is ready.
AsksNever == notify

\* MgenFlow::SendMessage after MSG_SEND_BLOCKED.
Asks == QueueLimit # 0 \/ notify

Counted(pending) ==
  IF QueueLimit # 0 THEN Min2(pending + 1, MaxPending) ELSE pending

Stopped(pending) == QueueLimit > 0 /\ pending >= QueueLimit

(***************************************************************************)
(* SendMessage of the flow and of the sink.  A message the sink accepts is *)
(* taken whole, and counts as sent, even if not all of it was put; one that*)
(* cannot be written stays in the buffer, and with the flow.               *)
(***************************************************************************)
SendBusy ==
  /\ Busy
  /\ pendingMessages' = Counted(pendingMessages)
  /\ txTimer' = (txTimer /\ ~Stopped(Counted(pendingMessages)))
  /\ notify' = Asks
  /\ UNCHANGED <<buffer, msgIndex, pipe, sent, disturbed>>

SendFails(length, put) ==
  LET m == [number |-> sent, length |-> length]
  IN /\ ~Busy
     /\ buffer' = m
     /\ Write(m, 0, put, FALSE)
     /\ pendingMessages' = Counted(pendingMessages)
     /\ txTimer' = (txTimer /\ ~Stopped(Counted(pendingMessages)))
     /\ notify' = (open /\ Asks)
     /\ disturbed' = TRUE
     /\ UNCHANGED sent

Restarts(pending) ==
  \/ QueueLimit > 0 /\ pending < QueueLimit
  \/ QueueLimit < 0 /\ pending = 0
  \/ QueueLimit = 0

SendTaken(length, put, pending, timer) ==
  LET m == [number |-> sent, length |-> length]
  IN /\ ~Busy
     /\ buffer' = m
     /\ Write(m, 0, put, TRUE)
     /\ notify' = (notify \/ put < length)
     /\ sent' = (sent + 1) % Modulus
     /\ pendingMessages' = pending
     /\ txTimer' = timer
     /\ UNCHANGED disturbed

-------------------------------------------------------------------------------
(***************************************************************************)
(* Script events and the timer of the flow.                                *)
(***************************************************************************)
On ==
  /\ ~on /\ Idle
  /\ Open
  /\ disturbed' = (disturbed \/ Busy)
  /\ on' = TRUE
  /\ txTimer' = TRUE
  /\ offPending' = FALSE
  /\ UNCHANGED <<pendingMessages, serving, sent, pipe, sourceVars>>

StopFlow ==
  /\ Close
  /\ disturbed' = (disturbed \/ Busy)
  /\ on' = FALSE
  /\ txTimer' = FALSE
  /\ offPending' = FALSE
  /\ UNCHANGED <<pendingMessages, serving, sent, pipe, sourceVars>>

OffWaits ==
  /\ notify' = open
  /\ txTimer' = FALSE
  /\ offPending' = TRUE
  /\ UNCHANGED <<open, buffer, msgIndex, on, pendingMessages, serving, sent, disturbed,
                 pipe, sourceVars>>

\* The sink has no TransmittingFlow: a message half written does not hold OFF up.
Off ==
  /\ on /\ Idle /\ ~offPending
  /\ \/ pendingMessages > 0 /\ OffWaits
     \/ pendingMessages = 0 /\ StopFlow

\* Another flow switched on or off on the same sink.
OtherOn ==
  /\ on /\ Idle
  /\ Open
  /\ disturbed' = (disturbed \/ Busy)
  /\ UNCHANGED <<flowVars, serving, sent, pipe, sourceVars>>

OtherOff ==
  /\ on /\ open /\ Idle
  /\ Close
  /\ disturbed' = TRUE
  /\ UNCHANGED <<flowVars, serving, sent, pipe, sourceVars>>

TxQueue ==
  /\ notify' = open
  /\ pendingMessages' =
       IF QueueLimit > 0 THEN Min2(pendingMessages + 1, MaxPending) ELSE pendingMessages
  /\ txTimer' = ~Stopped(pendingMessages')
  /\ UNCHANGED <<open, buffer, msgIndex, sent, disturbed, pipe>>

TxSend ==
  /\ UNCHANGED open
  /\ \/ SendBusy
     \/ \E length \in Lengths, put \in 0..MaxSize :
          \/ SendFails(length, put)
          \/ SendTaken(length, put, pendingMessages, txTimer)

\* OnTxTimeout.
TxTimeout ==
  /\ txTimer /\ Idle
  /\ \/ offPending /\ (IF pendingMessages > 0 THEN OffWaits ELSE StopFlow)
     \/ /\ ~offPending
        /\ IF pendingMessages > 0 THEN TxQueue ELSE TxSend
        /\ UNCHANGED <<on, offPending, serving, sourceVars>>

-------------------------------------------------------------------------------
(***************************************************************************)
(* The pipe is ready: OnEvent writes what is left, then SendPendingMessage *)
(* lets the flow send, one step per message.                               *)
(***************************************************************************)
OutputReady ==
  /\ notify /\ open /\ Idle
  /\ Len(pipe) < PipeSize
  /\ \E put \in 0..MaxSize, ok \in BOOLEAN :
       /\ Busy /\ ok => put > 0
       /\ Write(buffer, msgIndex, put, ok)
       /\ ~ok => Busy
       /\ serving' = ok
       /\ disturbed' = (disturbed \/ ~ok)
  /\ UNCHANGED <<open, notify, buffer, flowVars, sent, sourceVars>>

ServeNext ==
  /\ serving /\ ~disturbed /\ pendingMessages > 0
  /\ UNCHANGED open
  /\ \/ SendBusy /\ serving' = FALSE
     \/ \E length \in Lengths, put \in 0..MaxSize :
          \/ SendFails(length, put) /\ serving' = FALSE
          \/ /\ SendTaken(length, put, pendingMessages - 1,
                          txTimer \/ Restarts(pendingMessages - 1))
             /\ UNCHANGED serving
  /\ UNCHANGED <<on, offPending, sourceVars>>

\* No flow is left: the notification goes off, whatever the buffer holds.
ServeEnd ==
  /\ serving /\ ~disturbed /\ pendingMessages = 0
  /\ serving' = FALSE
  /\ notify' = FALSE
  /\ UNCHANGED <<open, buffer, msgIndex, flowVars, sent, disturbed, pipe, sourceVars>>

-------------------------------------------------------------------------------
(***************************************************************************)
(* The source.  A read takes what there is, up to what is wanted.          *)
(***************************************************************************)
\* The length that two bytes spell: that of their message, if they open one.
Spells(bytes) ==
  IF bytes = Bytes(bytes[1].message, 1, 2) THEN {bytes[1].message.length}
  ELSE 0..(MaxSize + 1)

Whole(bytes) == bytes = Bytes(bytes[1].message, 1, bytes[1].message.length)

Read(wanted) == SubSeq(pipe, 1, Min2(wanted, Len(pipe)))
Rest(wanted) == SubSeq(pipe, Min2(wanted, Len(pipe)) + 1, Len(pipe))

\* Bytes of the length that are still to be read.
Wanted == 2 - Len(rxBytes)

\* The message of that length, after bytes: handled when it is complete.
Filled(bytes, length, from) ==
  LET more == SubSeq(from, 1, Min2(length - Len(bytes), Len(from)))
      all == bytes \o more
  IN /\ pipe' = SubSeq(from, Len(more) + 1, Len(from))
     /\ IF Len(all) = length
        THEN /\ sound' = (sound /\ Whole(all) /\ all[1].message.number = expected)
             /\ expected' = (expected + 1) % Modulus
             /\ rxLength' = 0
             /\ rxBytes' = << >>
        ELSE /\ rxLength' = length
             /\ rxBytes' = all
             /\ UNCHANGED <<expected, sound>>

ReadLength ==
  LET bytes == rxBytes \o Read(Wanted)
  IN IF Len(bytes) < 2
     THEN /\ rxBytes' = bytes
          /\ pipe' = Rest(Wanted)
          /\ UNCHANGED <<rxLength, expected, sound>>
     ELSE \E length \in Spells(bytes) :
            IF length \in MinSize..MaxSize
            THEN Filled(bytes, length, Rest(Wanted))
            ELSE /\ rxLength' = 0
                 /\ rxBytes' = << >>
                 /\ pipe' = Rest(Wanted)
                 /\ UNCHANGED <<expected, sound>>

\* OnInputReady; when the length is there it goes on to read the message.
InputReady ==
  /\ input /\ ~disturbed /\ pipe # << >>
  /\ IF rxLength > 0 THEN Filled(rxBytes, rxLength, pipe) ELSE ReadLength
  /\ UNCHANGED <<input, sinkVars, flowVars, serving, sent, disturbed>>

\* A read that fails, the end of the file among them, ends the notification.
ReadFails ==
  /\ input /\ ~disturbed
  /\ input' = FALSE
  /\ disturbed' = TRUE
  /\ UNCHANGED <<rxLength, rxBytes, expected, sound, pipe, sinkVars, flowVars, serving, sent>>

-------------------------------------------------------------------------------
Next ==
  \/ On \/ Off \/ OtherOn \/ OtherOff
  \/ TxTimeout \/ OutputReady \/ ServeNext \/ ServeEnd
  \/ InputReady \/ ReadFails

Spec == Init /\ [][Next]_vars

\* Handlers run to their end, the dispatchers report a pipe that is ready, and
\* a timer that stays on or is set again comes due.
Fairness ==
  /\ WF_vars(OutputReady)
  /\ WF_vars(ServeNext \/ ServeEnd)
  /\ SF_vars(TxTimeout)
  /\ WF_vars(InputReady)

FairSpec == Spec /\ Fairness

\* The source handles the messages the sink took, each whole and once, in the
\* order of the flow: unless a read or a write failed or the sink was opened or
\* closed under the flow in the middle of a message.
Framed == ~disturbed => sound

\* Every message the sink has taken arrives, though the rest of it may be left
\* in the buffer without a notification.
Arrives ==
  \A n \in 0..(Modulus - 1) : expected = n /\ sent # n ~> expected # n \/ disturbed
================================================================================
