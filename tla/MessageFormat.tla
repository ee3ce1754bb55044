----------------------------- MODULE MessageFormat -----------------------------
(***************************************************************************)
(* What of a message reaches the log of its receiver.  MgenMsg::Pack writes*)
(* the fields that the size of the message has room for, Unpack reads them *)
(* back, LogRecvEvent shows them, or writes a binary record from which     *)
(* ConvertBinaryLog unpacks them again.                                    *)
(*                                                                         *)
(* A byte is the field it belongs to and the message it was packed from, or*)
(* Zero; what a field holds is abstracted to that message.  The fixed      *)
(* header, payload type and sizes of fields are those of the code.         *)
(***************************************************************************)
EXTENDS Integers, Sequences, FiniteSets, SequencesExt

CONSTANTS AddressLengths, \* of a destination
          HostLengths,    \* of the HOSTADDR of the sender, 0 where there is none
          DataLengths,    \* of the payload a script gives, 0 where there is none
          ItemLengths,    \* of the reports and commands a message carries
          UdpSizes,       \* sizes of messages over UDP
          TcpSizes,       \* and over TCP, where the receiver reuses rx_msg
          EndsInLength    \* may a message end inside its payload length?

VARIABLES protocol,  \* of the transport, "UDP" or "TCP"
          stage,     \* "idle", "sent", "received"
          sent,      \* the message on its way, its size, and is it summed?
          rx,        \* the MgenMsg it is unpacked into
          text,      \* the line of a text log
          converted  \* the line converted from a binary log

formatVars == <<protocol, stage, sent, rx, text, converted>>

\* Messages are numbered 1 and 2; None is the value of a field that is not there.
None == 0
NoMessage == [number |-> None, dst |-> 0, host |-> 0, kind |-> "data", length |-> 0]
NoLine == [host |-> None, gps |-> None, data |-> <<>>]
Nothing == [message |-> NoMessage, size |-> 0, checksum |-> FALSE]

Zero == [field |-> "zero", of |-> NoMessage]
Cells(f, m, n) == [i \in 1..n |-> [field |-> f, of |-> m]]
Zeros(n) == [i \in 1..n |-> Zero]

-----------------------------------------------------------------------------
(* The sender. *)

FixedSize(m) == 24 + m.dst

\* What MgenFlow::SendMessage keeps for the header, and leaves for reports.
HeaderLength(m) == 4 * 11 + m.dst + m.host
Room(m, size) == IF size > HeaderLength(m) THEN size - HeaderLength(m) ELSE 0

\* A message carries the reports and commands there is room for, else the
\* payload of its script.
Carries(m, size) ==
  IF m.kind = "items" THEN m.length \in ItemLengths /\ m.length <= Room(m, size)
                      ELSE m.length \in DataLengths

\* Would Unpack find the payload type and no room for the payload length?
CutInLength(m, size) ==
  LET host == IF FixedSize(m) + 4 + m.host <= size THEN m.host ELSE 0
  IN  size - (FixedSize(m) + 18 + host) \in {0, 1}

MessageKinds ==
  [number : {1, 2}, dst : AddressLengths, host : HostLengths,
   kind : {"data", "items"}, length : DataLengths \cup ItemLengths]

\* The fields after the fixed header, in order.  An address that is not valid
\* has a port, a type and a length of zero.
Optional(m) ==
  << IF m.host = 0 THEN Zeros(4) ELSE Cells("host", m, 4 + m.host),
     Cells("gps", m, 13), Cells("type", m, 1), Cells("length", m, 2) >>

\* The fixed header and the first k of them.
Header(m, k) ==
  LET field(i) == IF i <= k THEN Optional(m)[i] ELSE << >>
  IN Cells("fixed", m, FixedSize(m)) \o field(1) \o field(2) \o field(3) \o field(4)

\* Pack stops at the first field that there is no room for.
Fitting(m, size) ==
  CHOOSE k \in 0..4 :
    /\ Len(Header(m, k)) <= size
    /\ k < 4 => Len(Header(m, k + 1)) > size

\* The payload goes whole or not at all; without it its length is zero.
Content(m, size) ==
  LET head == Header(m, Fitting(m, size))
  IN  IF Fitting(m, size) < 4 THEN head
      ELSE IF m.length > 0 /\ Len(head) + m.length <= size
           THEN head \o Cells("payload", m, m.length)
           ELSE SubSeq(head, 1, Len(head) - 2) \o Zeros(2)

Filler(n) == Zeros(n)

RoomForChecksumAny(m, size) == Fitting(m, size) = 4

\* The checksum takes the last four bytes where the filler has more than four,
\* and Pack got as far as the payload.
RoomForChecksum(m, size) == Fitting(m, size) = 4 /\ size > Len(Content(m, size)) + 4

Pack(m, size, checksum) ==
  LET bytes == Content(m, size) \o Filler(size - Len(Content(m, size)))
  IN  IF checksum /\ RoomForChecksum(m, size)
      THEN SubSeq(bytes, 1, size - 4) \o Cells("checksum", m, 4)
      ELSE bytes

-----------------------------------------------------------------------------
(* The receiver. *)

\* MgenMsg::MgenMsg.
Fresh == [header |-> 0, host |-> None, gps |-> None, type |-> None, length |-> 0, payload |-> <<>>]

AddressLength(bytes) == bytes[1].of.dst
HostLengthAt(bytes, at) == IF bytes[at + 4].field = "host" THEN bytes[at + 4].of.host ELSE 0
ValueAt(bytes, i, f) == IF bytes[i].field = f THEN bytes[i].of.number ELSE None
LengthAt(bytes, at) ==
  IF bytes[at + 1].field = "length" THEN bytes[at + 1].of.length ELSE 0

\* Unpack of the n bytes into an object that holds old: host_addr and gps_status
\* are cleared first, the other fields keep what they had where they are not read.
Unpack(bytes, n, old) ==
  LET hostAt    == 24 + AddressLength(bytes)
      hostHead  == hostAt + 4 <= n
      hostLen   == IF hostHead THEN HostLengthAt(bytes, hostAt) ELSE 0
      gpsAt     == hostAt + 4 + hostLen
      hostReads == hostHead /\ gpsAt <= n
      gpsReads  == hostReads /\ gpsAt + 13 <= n
      typeReads == gpsReads /\ gpsAt + 14 <= n
      lenReads  == typeReads /\ gpsAt + 16 <= n
      length    == IF lenReads THEN LengthAt(bytes, gpsAt + 14) ELSE 0
      whole     == length # 0 /\ gpsAt + 16 + length <= n
  IN [header  |-> CASE lenReads  -> gpsAt + 16
                    [] typeReads /\ ~lenReads -> old.header
                    [] gpsReads  /\ ~typeReads -> gpsAt + 13
                    [] hostReads /\ ~gpsReads -> gpsAt
                    [] hostHead  /\ ~hostReads -> hostAt + 4
                    [] OTHER -> hostAt,
      host    |-> IF hostReads /\ hostLen > 0 THEN ValueAt(bytes, hostAt + 1, "host") ELSE None,
      gps     |-> IF gpsReads THEN ValueAt(bytes, gpsAt + 13, "gps") ELSE None,
      type    |-> IF typeReads
                  THEN IF bytes[gpsAt + 14].field = "type" THEN bytes[gpsAt + 14].of.kind ELSE "data"
                  ELSE old.type,
      length  |-> IF ~lenReads THEN old.length ELSE IF whole THEN length ELSE 0,
      payload |-> IF ~lenReads THEN old.payload
                  ELSE IF whole THEN SubSeq(bytes, gpsAt + 17, gpsAt + 16 + length) ELSE <<>>]

\* What LogRecvEvent shows of the optional fields.
Shown(x) == [host |-> x.host, gps |-> x.gps,
             data |-> IF x.length > 0 THEN <<x.type, x.payload>> ELSE <<>>]

\* The part of the bytes that a binary record keeps.
RecordLength(x) == x.header + x.length

\* ConvertBinaryLog unpacks the record, in a buffer of its own, into a new object;
\* Unpack gives up on less than MIN_SIZE bytes.
Convert(bytes, x) ==
  LET n == RecordLength(x)
  IN  IF n < 28 THEN NoLine ELSE Shown(Unpack(SubSeq(bytes \o Zeros(n), 1, n), n, Fresh))

-----------------------------------------------------------------------------
Init ==
  /\ protocol \in {"UDP", "TCP"}
  /\ stage = "idle" /\ sent = Nothing /\ rx = Fresh /\ text = NoLine /\ converted = NoLine

Sizes == IF protocol = "UDP" THEN UdpSizes ELSE TcpSizes

\* MgenFlow::SendMessage, and the SendMessage of its transport.
Send(m, size, checksum) ==
  /\ stage = "idle"
  /\ size \in Sizes /\ FixedSize(m) <= size
  /\ Carries(m, size)
  /\ EndsInLength \/ ~CutInLength(m, size)
  /\ stage' = "sent"
  /\ sent' = [message |-> m, size |-> size, checksum |-> checksum]
  /\ UNCHANGED <<protocol, rx, text, converted>>

\* The handler of the receiver: the message is unpacked and logged.
Receive ==
  /\ stage = "sent"
  /\ stage' = "received"
  /\ LET bytes == Pack(sent.message, sent.size, sent.checksum) IN
     /\ rx' = Unpack(bytes, sent.size, rx)
     /\ text' = Shown(rx')
     /\ converted' = Convert(bytes, rx')
  /\ UNCHANGED <<protocol, sent>>

\* The end of the handler: over UDP the object goes, over TCP it stays.
Done ==
  /\ stage = "received"
  /\ stage' = "idle"
  /\ rx' = IF protocol = "UDP" THEN Fresh ELSE rx
  /\ sent' = Nothing /\ text' = NoLine /\ converted' = NoLine
  /\ UNCHANGED protocol

Next ==
  \/ \E m \in MessageKinds, size \in UdpSizes \cup TcpSizes, checksum \in BOOLEAN : Send(m, size, checksum)
  \/ Receive
  \/ Done

Spec == Init /\ [][Next]_formatVars

-----------------------------------------------------------------------------
\* What the log of a receiver should show of a message: the fields before the
\* end of the message, none of those after it, and the payload if it is whole.
Expected(m, size) ==
  LET end(k) == FixedSize(m) + 4 + m.host + (IF k > 1 THEN 13 ELSE 0) + (IF k > 2 THEN 3 ELSE 0)
  IN  [host |-> IF m.host > 0 /\ end(1) <= size THEN m.number ELSE None,
       gps  |-> IF end(2) <= size THEN m.number ELSE None,
       data |-> IF m.length > 0 /\ end(3) + m.length <= size
                THEN <<m.kind, Cells("payload", m, m.length)>> ELSE <<>>]

\* At every size the receiver shows the fields that were packed whole and takes
\* no filler, checksum or rest of an earlier message for a field (Pack, Unpack);
\* and reports and commands for which MgenFlow::SendMessage found room are not
\* dropped by Pack.
Received ==
  stage = "received" =>
    /\ text = Expected(sent.message, sent.size)
    /\ sent.message.kind = "items" => rx.length = sent.message.length /\ rx.type = "items"

\* The line converted from the binary record of a message is the line of its text
\* log (LogRecvEvent, ConvertBinaryLog).
Converted == stage = "received" => converted = text
================================================================================
