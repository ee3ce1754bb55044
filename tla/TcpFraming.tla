------------------------------ MODULE TcpFraming -------------------------------
(***************************************************************************)
(* How MgenTcpTransport puts messages on a TCP stream and takes them off   *)
(* again.  The sender cuts a message into fragments, a fragment into the   *)
(* buffers it is packed in, and sends of a buffer what the socket takes;   *)
(* the receiver reads a length, and then what the socket has of that many  *)
(* bytes.  A message is its length here, and a checksum the number of      *)
(* bytes it was computed over.  The sender's handlers take a step for each *)
(* Send, between which only the network and the receiver can act.          *)
(*                                                                         *)
(* External: the sockets and the stream between them, which loses nothing  *)
(* until it breaks.  Left out: flows (UdpFlows), RETRY, what is logged.    *)
(* A definition introduced as a mutant is a plausible bug of the one after *)
(* it, and no part of the model.                                           *)
(***************************************************************************)
EXTENDS Integers, Sequences

CONSTANTS BufferSize,    \* TX_BUFFER_SIZE
          MaxFragSize,   \* MAX_FRAG_SIZE
          MinFragSize,   \* MIN_FRAG_SIZE
          Lengths,       \* the lengths of the messages that flows send
          Capacity,      \* bytes the stream can hold
          Cuts           \* where reads are cut that the code does not expect

LengthSize == 2          \* MSG_LEN_SIZE
ChecksumSize == 4
UINT16 == 65536

ASSUME TcpFramingAssumption ==
  /\ BufferSize \in Nat
  /\ MaxFragSize \in Nat
  /\ MinFragSize \in Nat
  /\ BufferSize >= 2 * ChecksumSize
  /\ MinFragSize > LengthSize + ChecksumSize
  /\ MaxFragSize > 2 * MinFragSize
  /\ MaxFragSize < UINT16
  /\ Lengths \subseteq {n \in Nat : n > LengthSize + ChecksumSize}
  /\ Capacity \in Nat \ {0}
  /\ Cuts \subseteq {"length", "checksum"}

VARIABLES checksums,          \* GetChecksumEnable; the sender flags fragments so
          link,               \* the connection: up, broken, or down
          handler,            \* idle, or inside SendMessage or OnEvent(SEND)
          outputNotify,
          mgenMsgLen, msgLen, \* of tx_msg: the message and the fragment
          txMsgOffset, txBufferPending, txFragmentPending,
          txSummed,           \* bytes under tx_checksum
          stream,             \* fragments the receiver has not completed
          inFlight,           \* bytes sent and not yet read
          rxMsgLen, rxMsgIndex, rxFragmentPending,
          rxSummed,           \* bytes under rx_checksum
          rxBufferIndex,      \* checksum bytes in rx_checksum_buffer
          unpacked,           \* rx_msg has been unpacked
          verdict             \* what became of the fragments received

txVars == <<mgenMsgLen, msgLen, txMsgOffset, txBufferPending,
            txFragmentPending, txSummed>>
rxVars == <<rxMsgLen, rxMsgIndex, rxFragmentPending, rxSummed, rxBufferIndex,
            unpacked>>
vars == <<checksums, link, handler, outputNotify, txVars, stream, inFlight,
          rxVars, verdict>>

Fragment == 0..MaxFragSize

TypeOK ==
  /\ checksums \in BOOLEAN
  /\ link \in {"up", "broken", "down"}
  /\ handler \in {"idle", "message", "event"}
  /\ outputNotify \in BOOLEAN
  /\ mgenMsgLen \in Nat
  /\ msgLen \in Fragment
  /\ txMsgOffset \in 0..mgenMsgLen
  /\ txBufferPending \in 0..BufferSize
  /\ txFragmentPending \in Fragment
  /\ txSummed \in Fragment
  /\ stream \in Seq(Fragment)
  /\ inFlight \in 0..Capacity
  /\ rxMsgLen \in Fragment
  /\ rxMsgIndex \in Fragment
  /\ rxFragmentPending \in 0..(UINT16 - 1)
  /\ rxSummed \in Fragment
  /\ rxBufferIndex \in 0..ChecksumSize
  /\ unpacked \in BOOLEAN
  /\ verdict \in {"good", "misframed", "unread", "overrun", "bad checksum"}

Init ==
  /\ checksums \in BOOLEAN
  /\ link = "up"
  /\ handler = "idle"
  /\ outputNotify = FALSE
  /\ mgenMsgLen = 0
  /\ msgLen = 0
  /\ txMsgOffset = 0
  /\ txBufferPending = 0
  /\ txFragmentPending = 0
  /\ txSummed = 0
  /\ stream = << >>
  /\ inFlight = 0
  /\ rxMsgLen = 0
  /\ rxMsgIndex = 0
  /\ rxFragmentPending = 0
  /\ rxSummed = 0
  /\ rxBufferIndex = 0
  /\ unpacked = FALSE
  /\ verdict = "good"

-------------------------------------------------------------------------------
(* The sender: sizes.                                                      *)

\* The next fragment of a message with r bytes left: the one after it must not
\* be too small.
FragmentSize(r) ==
  IF r <= MaxFragSize THEN r
  ELSE IF r < MaxFragSize + MinFragSize THEN MaxFragSize - MinFragSize
  ELSE MaxFragSize

\* What is packed first of a fragment of p bytes: all of it, or a buffer that
\* leaves room for the checksum in a later one.
FirstBuffer(p) ==
  IF p <= BufferSize THEN p
  ELSE IF checksums /\ p - BufferSize < ChecksumSize THEN BufferSize - ChecksumSize
  ELSE BufferSize

\* Mutant: the checksum is forgotten.
NextBufferNoRoom(p) == IF p <= BufferSize THEN p ELSE BufferSize

\* What is packed next, with p bytes of the fragment left.
NextBuffer(p) ==
  IF p <= (IF checksums THEN BufferSize - ChecksumSize ELSE BufferSize) THEN p
  ELSE IF checksums /\ p - BufferSize < ChecksumSize THEN p - ChecksumSize
  ELSE BufferSize

\* The bytes of a buffer of b bytes that go under the checksum, with p bytes
\* of the fragment left before it.
Summed(b, p) == IF ~checksums THEN 0 ELSE IF b = p THEN b - ChecksumSize ELSE b

-------------------------------------------------------------------------------
(* The sender: handlers.                                                   *)

\* GetNextTxFragment for a message of n bytes, of which o are packed.
StartFragment(n, o) ==
  LET p == FragmentSize(n - o)
      b == FirstBuffer(p)
  IN /\ msgLen' = p
     /\ txFragmentPending' = p
     /\ txBufferPending' = b
     /\ txMsgOffset' = o + b
     /\ txSummed' = Summed(b, p)
     /\ stream' = IF link = "up" THEN Append(stream, p) ELSE stream

ResetTx ==
  /\ mgenMsgLen' = 0
  /\ msgLen' = 0
  /\ txMsgOffset' = 0
  /\ txBufferPending' = 0
  /\ txFragmentPending' = 0
  /\ txSummed' = 0

Free == txMsgOffset = 0

\* SendMessage for a flow; while a message is being sent it answers BLOCKED.
SendMessage(n) ==
  /\ handler = "idle"
  /\ link # "down"
  /\ Free
  /\ handler' = "message"
  /\ mgenMsgLen' = n
  /\ StartFragment(n, 0)
  /\ UNCHANGED <<checksums, link, outputNotify, inFlight, rxVars, verdict>>

\* OnEvent(SEND) with a message to go on with; without one the flows get a
\* chance to call SendMessage.
OutputReady ==
  /\ handler = "idle"
  /\ outputNotify
  /\ link # "down"
  /\ handler' = IF txBufferPending > 0 THEN "event" ELSE "idle"
  /\ outputNotify' = (txBufferPending > 0)
  /\ UNCHANGED <<checksums, link, txVars, stream, inFlight, rxVars, verdict>>

\* The socket takes k bytes: go on with the buffer, or with the next buffer of
\* the fragment, or the next fragment of the message, or the message is sent.
Write(k) ==
  LET b == txBufferPending - k
      p == txFragmentPending - k
      sent == b = 0 /\ p = 0 /\ txMsgOffset = mgenMsgLen
  IN /\ handler # "idle"
     /\ link = "up"
     /\ inFlight + k <= Capacity
     /\ inFlight' = inFlight + k
     /\ \/ /\ b > 0
           /\ txBufferPending' = b
           /\ txFragmentPending' = p
           /\ UNCHANGED <<mgenMsgLen, msgLen, txMsgOffset, txSummed, stream>>
        \/ /\ b = 0 /\ p > 0
           /\ txBufferPending' = NextBuffer(p)
           /\ txFragmentPending' = p
           /\ txMsgOffset' = txMsgOffset + NextBuffer(p)
           /\ txSummed' = txSummed + Summed(NextBuffer(p), p)
           /\ UNCHANGED <<mgenMsgLen, msgLen, stream>>
        \/ /\ b = 0 /\ p = 0 /\ ~sent
           /\ StartFragment(mgenMsgLen, txMsgOffset)
           /\ UNCHANGED mgenMsgLen
        \/ /\ sent
           /\ ResetTx
           /\ UNCHANGED stream
     /\ handler' = IF sent THEN "idle" ELSE handler
     /\ outputNotify' = (outputNotify /\ ~sent)
     /\ UNCHANGED <<checksums, link, rxVars, verdict>>

\* Mutant: nobody asks for the socket when it can take more.
WouldBlockSilent ==
  /\ handler # "idle"
  /\ link = "up"
  /\ inFlight = Capacity
  /\ handler' = "idle"
  /\ UNCHANGED <<checksums, link, outputNotify, txVars, stream, inFlight, rxVars,
                 verdict>>

\* The socket takes nothing now: the message waits for an event.
WouldBlock ==
  /\ handler # "idle"
  /\ link = "up"
  /\ inFlight = Capacity
  /\ handler' = "idle"
  /\ outputNotify' = TRUE
  /\ UNCHANGED <<checksums, link, txVars, stream, inFlight, rxVars, verdict>>

\* Send fails: SendMessage drops the message, OnEvent leaves it to the event
\* that comes with the failure.
WriteFails ==
  /\ handler # "idle"
  /\ link = "broken"
  /\ handler' = "idle"
  /\ IF handler = "message"
     THEN ResetTx /\ outputNotify' = FALSE
     ELSE UNCHANGED <<txVars, outputNotify>>
  /\ UNCHANGED <<checksums, link, stream, inFlight, rxVars, verdict>>

-------------------------------------------------------------------------------
(* The receiver: OnEvent(RECV) reads until the socket has no more.         *)

\* GetRxNumBytes: the length first, then the rest of the fragment, up to the
\* end of the receive buffer.
ReadSize ==
  LET left == rxMsgLen - rxMsgIndex
      room == BufferSize - (rxMsgIndex % BufferSize)
  IN IF rxMsgLen = 0 THEN LengthSize
     ELSE IF left > room THEN room ELSE left

\* Mutant: > for >=.
UnpacksPast(i) ==
  \/ rxMsgLen - rxFragmentPending < BufferSize /\ i > BufferSize
  \/ rxMsgLen = i /\ i <= BufferSize

\* CopyMsgBuffer unpacks the header once the first buffer is full, or all of a
\* shorter fragment is there; i is the index after the read.
Unpacks(i) ==
  \/ rxMsgLen - rxFragmentPending < BufferSize /\ i >= BufferSize
  \/ rxMsgLen = i /\ i <= BufferSize

\* The bytes of the checksum among the first i bytes of a fragment.
ChecksumRead(i) ==
  IF rxMsgLen # 0 /\ i + ChecksumSize > rxMsgLen THEN i + ChecksumSize - rxMsgLen
  ELSE 0

\* Mutant: the bytes of the last checksum are not forgotten.
ResetRxPartly ==
  /\ rxMsgLen' = 0
  /\ rxMsgIndex' = 0
  /\ rxFragmentPending' = 0
  /\ rxSummed' = 0
  /\ unpacked' = FALSE
  /\ UNCHANGED rxBufferIndex

ResetRx ==
  /\ rxMsgLen' = 0
  /\ rxMsgIndex' = 0
  /\ rxFragmentPending' = 0
  /\ rxSummed' = 0
  /\ rxBufferIndex' = 0
  /\ unpacked' = FALSE

\* A read of k bytes that the code expects: the length is not cut in two, nor
\* the checksum in three, the end of the receive buffer being a cut as well.
Expected(k) ==
  LET i == rxMsgIndex + k
      c == ChecksumRead(i)
  IN /\ rxMsgLen = 0 /\ k # LengthSize => "length" \in Cuts
     /\ i < rxMsgLen /\ (c > k \/ (c > 0 /\ rxMsgLen - i > BufferSize - (i % BufferSize)))
          => "checksum" \in Cuts

\* The length: when it was cut its first byte is read from a buffer that was
\* never written, and may be anything.
ReadLength(k) ==
  LET i == rxMsgIndex + k
  IN /\ rxMsgLen = 0
     /\ rxMsgIndex' = i
     /\ rxSummed' = rxSummed + k
     /\ IF i < LengthSize
        THEN /\ rxFragmentPending' = (rxFragmentPending - k) % UINT16
             /\ UNCHANGED <<rxMsgLen, verdict>>
        ELSE \E n \in IF rxMsgIndex = 0 THEN {Head(stream)} ELSE Fragment :
               /\ rxMsgLen' = n
               /\ rxFragmentPending' = (n - LengthSize) % UINT16
               /\ verdict' = IF n = Head(stream) THEN verdict ELSE "misframed"
     /\ UNCHANGED <<stream, rxBufferIndex, unpacked>>

\* More of a fragment.  What is not checksum goes under the checksum, a number
\* of bytes that is below zero if the read brought less than there is of it.
ReadMore(k) ==
  LET i == rxMsgIndex + k
      c == ChecksumRead(i)
  IN /\ i < rxMsgLen
     /\ rxMsgIndex' = i
     /\ rxFragmentPending' = (rxFragmentPending - k) % UINT16
     /\ unpacked' = (unpacked \/ Unpacks(i))
     /\ IF c > k
        THEN verdict' = "overrun" /\ UNCHANGED <<rxSummed, rxBufferIndex>>
        ELSE /\ rxSummed' = rxSummed + (k - c)
             /\ rxBufferIndex' = rxBufferIndex + c
             /\ UNCHANGED verdict
     /\ UNCHANGED <<rxMsgLen, stream>>

\* The checksum of a fragment agrees when it was computed over the bytes it
\* was computed over by the sender, and all of it was read.
ChecksumGood(k) ==
  IF k > ChecksumSize THEN rxSummed + (k - ChecksumSize) = rxMsgLen - ChecksumSize
  ELSE /\ rxSummed = rxMsgLen - ChecksumSize
       /\ rxBufferIndex + k = ChecksumSize

\* The end of a fragment: it is logged, as received or as an error.
ReadEnd(k) ==
  /\ rxMsgLen # 0
  /\ rxMsgIndex + k = rxMsgLen
  /\ verdict' = CASE ~unpacked /\ ~Unpacks(rxMsgLen) -> "unread"
                  [] checksums /\ ~ChecksumGood(k) -> "bad checksum"
                  [] OTHER -> verdict
  /\ ResetRx
  /\ stream' = Tail(stream)

\* What the receiver makes of a stream it has misread is not modelled.
Read(k) ==
  /\ verdict = "good"
  /\ link = "up"
  /\ k <= inFlight
  /\ k <= ReadSize
  /\ Expected(k)
  /\ inFlight' = inFlight - k
  /\ ReadLength(k) \/ ReadMore(k) \/ ReadEnd(k)
  /\ UNCHANGED <<checksums, link, handler, outputNotify, txVars>>

-------------------------------------------------------------------------------
(* The connection.                                                         *)

\* It breaks: what is in it is lost, and the receiver, told of it, shuts its
\* side down.
Break ==
  /\ link = "up"
  /\ link' = "broken"
  /\ inFlight' = 0
  /\ stream' = << >>
  /\ ResetRx
  /\ UNCHANGED <<checksums, handler, outputNotify, txVars, verdict>>

\* OnEvent(ERROR or DISCONNECT) of the sender, which calls ShutdownTransport.
OnDisconnect ==
  /\ handler = "idle"
  /\ link = "broken"
  /\ link' = "down"
  /\ ResetTx
  /\ outputNotify' = FALSE
  /\ UNCHANGED <<checksums, handler, stream, inFlight, rxVars, verdict>>

\* The next ON event of a flow, and an ACCEPT at the receiver.
Open ==
  /\ link = "down"
  /\ link' = "up"
  /\ UNCHANGED <<checksums, handler, outputNotify, txVars, stream, inFlight, rxVars,
                 verdict>>

Next ==
  \/ \E n \in Lengths : SendMessage(n)
  \/ OutputReady
  \/ \E k \in 1..txBufferPending : Write(k)
  \/ WouldBlock
  \/ WriteFails
  \/ \E k \in 1..BufferSize : Read(k)
  \/ Break
  \/ OnDisconnect
  \/ Open

Spec == Init /\ [][Next]_vars

-------------------------------------------------------------------------------
(* Properties.                                                             *)

\* What is left of a message after the fragment being sent is nothing, or a
\* fragment that is large enough: GetNextTxFragmentSize never leaves a rest
\* that is too small for a header.
FragmentsFit ==
  LET later == mgenMsgLen - txMsgOffset - (txFragmentPending - txBufferPending)
  IN later = 0 \/ later >= MinFragSize

\* The checksum of a fragment, its last four bytes, is never cut by the end of
\* a buffer, and the last buffer is sent with all bytes before it summed.
ChecksumRoom ==
  checksums /\ txFragmentPending > 0 =>
    LET later == txFragmentPending - txBufferPending
    IN /\ later = 0 => txSummed = msgLen - ChecksumSize
       /\ later > 0 => later >= ChecksumSize /\ txSummed = msgLen - later

\* The sum of a sequence of numbers.
Total(s) ==
  LET sum[n \in 0..Len(s)] == IF n = 0 THEN 0 ELSE sum[n - 1] + s[n]
  IN sum[Len(s)]

\* On a connection that is up, every byte of every fragment that was begun is
\* still to be sent, or on its way, or read: the two ends never disagree about
\* where a fragment ends.
Accounted ==
  link = "up" => Total(stream) = txFragmentPending + inFlight + rxMsgIndex

\* The two ends never disagree about where a fragment ends: no rest of a message
\* is too small for one, no byte is lost or made up, and the receiver finds the
\* length of each where the sender put it and has unpacked its header, from the
\* first buffer, when it ends.
FragmentsRead ==
  /\ FragmentsFit
  /\ Accounted
  /\ verdict \notin {"misframed", "unread"}

\* A fragment that arrives as it was sent passes its checksum, however the
\* reads are cut.
ChecksumsHold == verdict \notin {"overrun", "bad checksum"}

\* A message the transport has begun to send is sent to its end, or dropped
\* with the connection.
Transmitted == txMsgOffset > 0 ~> txMsgOffset = 0

\* Handlers run to their end, the dispatcher calls them for a socket that is
\* writable, readable or broken, and the network moves what it holds.
Fairness ==
  /\ WF_vars(WouldBlock \/ WriteFails \/ \E k \in 1..txBufferPending : Write(k))
  /\ SF_vars(OutputReady)
  /\ SF_vars(OnDisconnect)
  /\ WF_vars(\E k \in 1..BufferSize : Read(k))

FairSpec == Spec /\ Fairness
================================================================================
