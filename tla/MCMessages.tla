------------------------------- MODULE MCMessages -------------------------------
(***************************************************************************)
(* Messages for TLC: how the messages of a flow are counted (Analytic),    *)
(* which reports of that go out in messages (Reporter) and as what bytes   *)
(* (ReportFormat), the commands to flows that messages carry (FlowCommand),*)
(* what of a message is received and logged (MessageFormat), and what the  *)
(* binary log keeps (BinaryLog).  They meet where a window that ends       *)
(* updates a report, which Reporter lets happen at any time, and where     *)
(* reports, commands and the payload another program shares (SharedPayload)*)
(* are packed, of which MessageFormat takes any; so each part is explored  *)
(* from initial states of its own.  Those but the first two share the      *)
(* variables s1 to s7.                                                     *)
(***************************************************************************)
EXTENDS Analytic, Samples

CONSTANTS Analytics, NoAnalytic, Reciprocal, Feedback, MaxRoom, ExactFit,
          AddressLengths, HostLengths, DataLengths, ItemLengths, UdpSizes, TcpSizes, EndsInLength,
          Ids, MAX_FLOW, BufferRoom, MaxNamed, MaxOns, Events, OtherOrders, Flush, MaxEvents,
          MaxRuns, ReportAddresses, ReportFlows, ReportProtocols, TimeTable, EndedWindows, MaxWindows,
          PAYLOAD_MAX, NegativeChars, Values, OldSizes, MaxSegments

ASSUME NoAnalyticAssumption == NoAnalytic \notin Analytics

ASSUME PayloadAssumption ==
  /\ PAYLOAD_MAX \in Nat /\ NegativeChars \in Nat
  /\ Values \subseteq Nat /\ OldSizes \subseteq Nat

VARIABLES part, table, queue, next, last, message, odd, s1, s2, s3, s4, s5, s6, s7

Reports == INSTANCE Reporter

Format == INSTANCE MessageFormat WITH
  protocol <- s1, stage <- s2, sent <- s3, rx <- s4, text <- s5, converted <- s6

Carried == INSTANCE FlowCommand WITH
  Commands <- FewStatuses(Ids, MaxNamed),
  bytes <- s1, length <- s2, told <- s3, ons <- s4, sent <- s5, suspended <- s6, sinceReset <- s7

Kept == INSTANCE BinaryLog WITH
  file <- s1, flushed <- s2, lines <- s3, open <- s4, logEmpty <- s5, started <- s6, runs <- s7

Encoded == INSTANCE ReportFormat WITH
  Addresses <- ReportAddresses, FlowIds <- ReportFlows, Protocols <- ReportProtocols,
  Table <- TimeTable, Updates <- EndedWindows,
  buffer <- s1, given <- s2, windows <- s3

Shared == INSTANCE SharedPayload WITH
  segments <- s1, keyFile <- s2, mgr <- s3, mgen <- s4, told <- s5, quiet <- s6

ASSUME CommandAssumption ==
  /\ MAX_FLOW \in Nat /\ BufferRoom \in Nat
  /\ Ids \subseteq 1..MAX_FLOW
  /\ Carried!LengthNeeded(MAX_FLOW) <= BufferRoom

\* Addresses are those of IPv4 and IPv6, no report is empty, and over TCP a message has
\* at least the size that a pattern may have, which is that of the longest header.
FormatChoices ==
  /\ AddressLengths \subseteq {4, 16} /\ HostLengths \subseteq {0, 4, 16}
  /\ DataLengths \subseteq Nat /\ ItemLengths \subseteq Nat \ {0}
  /\ UdpSizes \subseteq Nat /\ \A size \in TcpSizes : size \in Nat /\ size >= 76

ASSUME FormatAssumption == FormatChoices

\* What a window may have. No latency is negative, and no rate lies just below a power of
\* ten: see SetLatencyAve and QuantizeRate.
JustBelow(rate, p) == rate < p /\ rate + p \div 8192 >= p
Plausible(u) ==
  /\ {u.size, u.offset, u.min, u.max} \subseteq Int /\ u.ave \in u.min..u.max /\ u.ave >= 0
  /\ u.rate \in Nat /\ u.rate < 1000000 /\ \A i \in 2..7 : ~JustBelow(u.rate, Encoded!PowerOfTen[i])
  /\ u.of \in Nat \ {0} /\ u.lost \in 0..u.of

ReportChoices ==
  /\ \A a \in ReportAddresses :
       a.len \in {4, 16} /\ {a.byte, a.port} \subseteq Nat /\ a.byte < 256 /\ a.port < 65536
  /\ ReportFlows \subseteq Nat /\ \A id \in ReportFlows : id \div 65536 < 65536
  /\ ReportProtocols \subseteq Nat /\ \A p \in ReportProtocols : p < 16
  /\ TimeTable \in Seq(Nat) /\ Len(TimeTable) > 0 /\ Len(TimeTable) <= 256
  /\ \A u \in EndedWindows : Plausible(u)

ASSUME ReportAssumption == ReportChoices

\* The events a binary log has in full.  The record of one whose numbers are too
\* long is not read back, nor that of a RERR; a client's end is told from a server's
\* by a flow number; a SEND record has the host only if the message had room for it,
\* a JOIN record the port in the order of the host, and no source.
Recordable(e) ==
  /\ e.type \in Kept!TcpEvents \cup {"SEND", "RECV", "LISTEN", "IGNORE", "JOIN", "LEAVE"}
  /\ Kept!RecordOf(e).length \in 0..Kept!RECORD_MAX
  /\ e.type \in Kept!TcpEvents => e.addrLength \in Nat /\ e.hostLength \in Nat
  /\ e.type \in Kept!Ends => e.client \in BOOLEAN /\ (~e.client => e.flow = 0)
  /\ e.type = "SEND" => e.host = 0 \/ e.hostFits
  /\ e.type \in {"JOIN", "LEAVE"} => e.source = 0 /\ Kept!Swapped(e.port) = e.port

ASSUME EventAssumption == \A e \in Events : Recordable(e)

reporter == <<table, queue, next, last, message, odd>>
others == <<s1, s2, s3, s4, s5, s6, s7>>

\* Variables a part does not use.
From4 == s4 = 0 /\ s5 = 0 /\ s6 = 0 /\ s7 = 0

MCInit ==
  /\ Init /\ Reports!Init
  /\ \/ part \in {"windows", "reports"} /\ s1 = 0 /\ s2 = 0 /\ s3 = 0 /\ From4
     \/ part = "format" /\ Format!Init /\ s7 = 0
     \/ part = "commands" /\ Carried!Init
     \/ part = "log" /\ Kept!Init
     \/ part = "bytes" /\ Encoded!Init /\ From4
     \/ part = "memory" /\ Shared!Init /\ s7 = 0

Windows == part = "windows" /\ Next /\ UNCHANGED <<part, reporter, others>>
Reporting == part = "reports" /\ Reports!Next /\ UNCHANGED <<part, vars, others>>

MCNext ==
  \/ Windows
  \/ Reporting
  \/ /\ \/ part = "format" /\ Format!Next /\ UNCHANGED s7
        \/ part = "commands" /\ Carried!Next
        \/ part = "log" /\ Kept!Next
        \/ part = "bytes" /\ Encoded!Next /\ UNCHANGED <<s4, s5, s6, s7>>
        \/ part = "memory" /\ Shared!Next /\ UNCHANGED s7
     /\ UNCHANGED <<part, vars, reporter>>

MCSpec ==
  /\ MCInit
  /\ [][MCNext]_<<part, vars, reporter, others>>
  /\ Reports!Fairness

-------------------------------------------------------------------------------
\* The queue of reports holds what is in the table, and nothing that was removed.
Listed == Reports!Listed

\* Every report goes out again and again once updates end.
AllReported == Reports!AllReported

\* Whoever reads a report reads the flow and the window it was made of.
ReportRead == part = "bytes" => Encoded!ReportRead

\* A receiver shows the fields of a message that were packed whole, and no others,
\* and gets the reports and commands it was given; and a line converted from the
\* binary log is that of the text log.
Logged == part = "format" => Format!Received /\ Format!Converted

\* A message carries the payload that another program shares, all of it and as it
\* was told, if that program was not about to change it and misread no datagram.
PayloadTold == part = "memory" => Shared!PayloadTold

\* A command that arrives tells each flow what the sender's events told it.
AsTold == part = "commands" => Carried!AsTold

\* Converting the binary log gives the lines of the text log, of all runs of mgen.
Recreated == part = "log" => Kept!Recreated
================================================================================
