------------------------------- MODULE BinaryLog -------------------------------
(***************************************************************************)
(* The binary log: OpenLog, the header and START record of Mgen::Start, the*)
(* records of events (MgenTransport::LogEvent, MgenMsg::Log*Event), STOP,  *)
(* and MgenMsg::ConvertBinaryLog, which makes the lines of a text log of   *)
(* them.  mgen may end and be run again on the same file.                  *)
(*                                                                         *)
(* An event is a record of the fields its line shows; what a RECV record   *)
(* has of a message is in MessageFormat.  A field that is not there is 0.  *)
(***************************************************************************)
EXTENDS Integers, SequencesExt

CONSTANTS Events,      \* the events that may be logged
          OtherOrders, \* may events be logged before the START, or a log be
                       \* opened after it?
          Flush,       \* log_flush
          MaxEvents, MaxRuns

VARIABLES file,        \* what the file has
          flushed,     \* how much of it would outlive mgen
          lines,       \* the lines a text log would have had instead
          open,        \* log_file # NULL
          logEmpty,    \* log_empty
          started,     \* Mgen::started, with the start timer over
          runs         \* runs of mgen so far

vars == <<file, flushed, lines, open, logEmpty, started, runs>>

TcpEvents == {"ON", "ACCEPT", "CONNECT", "DISCONNECT", "RECONNECT", "SHUTDOWN", "OFF"}
Ends == {"DISCONNECT", "RECONNECT", "SHUTDOWN", "OFF"}

RECORD_MAX == 1024

Init ==
  /\ file = << >> /\ flushed = 0 /\ lines = << >>
  /\ open = FALSE /\ logEmpty = TRUE /\ started = FALSE
  /\ runs = 0

-------------------------------------------------------------------------------
(***************************************************************************)
(* Lines of the text log.                                                  *)
(***************************************************************************)
Line(e) ==
  CASE e.type \in Ends -> [type |-> e.type, addr |-> e.addr, port |-> e.port, host |-> e.host,
                           flow |-> IF e.client THEN e.flow ELSE 0]
    [] e.type = "ACCEPT" -> [type |-> e.type, addr |-> e.addr, port |-> e.port, host |-> e.host]
    [] e.type \in {"ON", "CONNECT"} ->
         [type |-> e.type, addr |-> e.addr, port |-> e.port, host |-> e.host, flow |-> e.flow]
    [] e.type = "SEND" -> [type |-> e.type, flow |-> e.flow, size |-> e.size, host |-> e.host,
                           protocol |-> e.protocol]
    [] e.type \in {"LISTEN", "IGNORE"} ->
         [type |-> e.type, protocol |-> e.protocol, port |-> e.port]
    [] e.type \in {"JOIN", "LEAVE"} ->
         [type |-> e.type, addr |-> e.addr, source |-> e.source, iface |-> e.iface, port |-> e.port]
    [] e.type = "RECV" -> [type |-> e.type, addr |-> e.addr, length |-> e.length]
    [] e.type = "RERR" -> [type |-> e.type, error |-> e.error, addr |-> e.addr]
    [] e.type \in {"START", "STOP"} -> [type |-> e.type]

(***************************************************************************)
(* Records.  The length is that which the record begins with; its bytes are*)
(* those that follow.                                                      *)
(***************************************************************************)
Record(type, length, bytes, fields) ==
  [type |-> type, length |-> length, bytes |-> bytes, fields |-> fields]

TcpRecord(e) ==
  LET host == IF e.host = 0 THEN 0 ELSE 4 + e.hostLength
  IN Record(e.type, 12 + e.addrLength + 2 + 4 + host, 8 + 4 + e.addrLength + 2 + 4 + host,
            [addr |-> e.addr, port |-> e.port, flow |-> e.flow, host |-> e.host])

SendLength(e) ==
  12 + e.addrLength + e.header
  + (IF e.host = 0 THEN 0 ELSE 4 + e.hostLength)
  + (IF e.protocol = "TCP" THEN 4 ELSE 0)

\* The record is filled up with the message: what of its header is there is its
\* first packet_header_len bytes, in which the host may have found no room.
SendRecord(e) ==
  Record(e.type, SendLength(e), SendLength(e),
         [flow |-> e.flow, protocol |-> e.protocol,
          size |-> e.size, host |-> IF e.hostFits THEN e.host ELSE 0])

RecvRecord(e) == Record(e.type, 12 + e.addrLength + e.length, 12 + e.addrLength + e.length,
                        [addr |-> e.addr, length |-> e.length])

RerrRecord(e) == Record(e.type, 12 + e.addrLength + 4, 12 + e.addrLength + 4,
                        [addr |-> e.addr, error |-> e.error])

\* The two bytes of a port of a JOIN or LEAVE are in the order of the host.
Swapped(port) == 256 * (port % 256) + port \div 256

DrecRecord(e) ==
  IF e.type \in {"LISTEN", "IGNORE"}
  THEN Record(e.type, 12, 12, [protocol |-> e.protocol, port |-> e.port])
  ELSE Record(e.type, 13 + e.addrLength + e.ifaceLength, 13 + e.addrLength + e.ifaceLength,
              [addr |-> e.addr, port |-> Swapped(e.port), iface |-> e.iface])

RecordOf(e) ==
  CASE e.type \in TcpEvents -> TcpRecord(e)
    [] e.type = "SEND" -> SendRecord(e)
    [] e.type = "RECV" -> RecvRecord(e)
    [] e.type = "RERR" -> RerrRecord(e)
    [] OTHER -> DrecRecord(e)

TimeRecord(type) == Record(type, 8, 8, [none |-> 0])
Header == Record("header", 0, 0, [none |-> 0])

-------------------------------------------------------------------------------
Write(records) ==
  /\ file' = file \o records
  /\ flushed' = IF Flush THEN Len(file') ELSE flushed

\* Mutant: the file that is appended to is not looked at.
EmptyUnseen(append) == TRUE
\* An appended file that has anything is not given a header.
Empty(append) == append => file = << >>

OpenLog(append) ==
  /\ runs < MaxRuns
  /\ ~started \/ OtherOrders
  /\ open' = TRUE
  /\ logEmpty' = Empty(append)
  /\ IF append THEN UNCHANGED <<file, flushed, lines>>
     ELSE file' = << >> /\ flushed' = 0 /\ lines' = << >>
  /\ UNCHANGED <<started, runs>>

\* Start runs once more whenever a START command says so.
Start ==
  /\ started' = TRUE
  /\ IF open
     THEN /\ file' = file \o (IF logEmpty THEN <<Header>> ELSE << >>) \o <<TimeRecord("START")>>
          /\ flushed' = Len(file')
          /\ lines' = Append(lines, [type |-> "START"])
          /\ logEmpty' = FALSE
     ELSE UNCHANGED <<file, flushed, lines, logEmpty>>
  /\ Len(lines) < MaxEvents
  /\ UNCHANGED <<open, runs>>

LogEvent(e) ==
  /\ started \/ OtherOrders
  /\ open
  /\ Len(lines) < MaxEvents
  /\ Write(<<RecordOf(e)>>)
  /\ lines' = Append(lines, Line(e))
  /\ UNCHANGED <<open, logEmpty, started, runs>>

\* mgen ends by itself: the file is flushed and closed.
Stop ==
  /\ runs < MaxRuns
  /\ IF started /\ open
     THEN file' = Append(file, TimeRecord("STOP")) /\ lines' = Append(lines, [type |-> "STOP"])
     ELSE UNCHANGED <<file, lines>>
  /\ flushed' = Len(file')
  /\ open' = FALSE /\ logEmpty' = TRUE /\ started' = FALSE
  /\ runs' = runs + 1

\* Not the header, and not torn.
HasLine(r) == r.type # "header" /\ r.bytes = r.length

\* mgen is killed: what it had not flushed is lost, up to some record or in the
\* middle of one.  The text log would have lost the lines of those records.
Kill ==
  /\ runs < MaxRuns
  /\ \E n \in flushed..Len(file), torn \in BOOLEAN :
       /\ torn => n < Len(file)
       /\ file' = SubSeq(file, 1, n)
                  \o (IF torn THEN <<[file[n + 1] EXCEPT !.bytes = @ - 1]>> ELSE << >>)
       /\ lines' = SubSeq(lines, 1, Cardinality({i \in 1..n : HasLine(file[i])}))
       /\ flushed' = Len(file')
  /\ open' = FALSE /\ logEmpty' = TRUE /\ started' = FALSE
  /\ runs' = runs + 1

Next ==
  \/ \E append \in BOOLEAN : OpenLog(append)
  \/ Start
  \/ \E e \in Events : LogEvent(e)
  \/ Stop
  \/ Kill

Spec == Init /\ [][Next]_vars

-------------------------------------------------------------------------------
(***************************************************************************)
(* The conversion.                                                         *)
(***************************************************************************)
\* A record it cannot take ends it: none of the types, one that is too long, or
\* one that does not begin where the last one ended.
Convertible(r) ==
  r.type \notin {"header", "RERR"} /\ r.length <= RECORD_MAX /\ r.length = r.bytes

\* A flow number tells the client's end from the server's.
ConvertTcp(r) ==
  IF r.type = "ACCEPT"
  THEN [type |-> r.type, addr |-> r.fields.addr, port |-> r.fields.port, host |-> r.fields.host]
  ELSE [type |-> r.type, addr |-> r.fields.addr, port |-> r.fields.port, host |-> r.fields.host,
        flow |-> r.fields.flow]

ConvertDrec(r) ==
  IF r.type \in {"LISTEN", "IGNORE"}
  THEN [type |-> r.type, protocol |-> r.fields.protocol, port |-> r.fields.port]
  ELSE [type |-> r.type, addr |-> r.fields.addr, source |-> 0, iface |-> r.fields.iface,
        port |-> r.fields.port]

ConvertRecord(r) ==
  CASE r.type \in TcpEvents -> ConvertTcp(r)
    [] r.type \in {"LISTEN", "IGNORE", "JOIN", "LEAVE"} -> ConvertDrec(r)
    [] r.type \in {"START", "STOP"} -> [type |-> r.type]
    [] r.type = "SEND" -> [type |-> "SEND", flow |-> r.fields.flow, size |-> r.fields.size,
                           host |-> r.fields.host, protocol |-> r.fields.protocol]
    [] OTHER -> [type |-> "RECV", addr |-> r.fields.addr, length |-> r.fields.length]

ConvertBinaryLog(f) ==
  IF f = << >> \/ Head(f) # Header THEN << >>
  ELSE LET records == Tail(f)
           bad == {i \in DOMAIN records : ~Convertible(records[i])}
           good == IF bad = {} THEN Len(records)
                   ELSE (CHOOSE i \in bad : \A j \in bad : i <= j) - 1
       IN [i \in 1..good |-> ConvertRecord(records[i])]

-------------------------------------------------------------------------------
TypeOK ==
  /\ flushed \in 0..Len(file)
  /\ Len(lines) <= MaxEvents + MaxRuns
  /\ {open, logEmpty, started} \subseteq BOOLEAN
  /\ runs \in 0..MaxRuns

\* "The text-format log file can actually be recreated from a binary log file":
\* whatever runs wrote to the file, however they ended, converting it gives the
\* lines of all of them.
Recreated == ConvertBinaryLog(file) = lines
================================================================================
