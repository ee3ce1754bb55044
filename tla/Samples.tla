-------------------------------- MODULE Samples --------------------------------
(***************************************************************************)
(* What TLC gives the modules that MCControl and MCMessages put together:  *)
(* commands of every kind with two scripts, lines of events with every     *)
(* option, patterns of every type, events for a log, and reports.          *)
(***************************************************************************)
EXTENDS Integers, FiniteSets, SequencesExt

Cmd(name, arg) == [name |-> name, arg |-> arg, list |-> << >>]
Flagged(name) == Cmd(name, "none")
Of(name, list) == [name |-> name, arg |-> "list", list |-> list]

Names == {"a", "b"}

\* The second script is refused before its end.
SampleScripts ==
  [s \in Names |->
     IF s = "a"
     THEN <<Cmd("TOS", "1"), Of("EVENT", <<<<2, 2>>>>), Cmd("QUEUE", "3"), Cmd("RXLOG", "off"),
            Of("EVENT", <<<<1, 1>>>>)>>
     ELSE <<Cmd("START", "2"), Cmd("QUEUE", "2"), Flagged("BINARY"), Cmd("OUTPUT", "f"),
            Cmd("DLOG", "d"), Cmd("START", "bad"), Of("EVENT", <<<<1, 1>>>>)>>]

SampleMenu ==
  {Cmd("INPUT", s) : s \in Names}
  \cup {Cmd("QUEUE", "1"), Cmd("TOS", "2"), Cmd("TOS", "bad"), Cmd("RXBUFFER", "bad"),
        Cmd("START", "1"), Cmd("START", "none"), Cmd("EVENT", "none"), Flagged("REPORT"),
        Flagged("HELP"), Flagged("STOP"),
        Cmd("INSTANCE", "name")}
  \cup {Cmd("LOG", "f"), Cmd("OUTPUT", "g"), Flagged("NOLOG"), Flagged("BINARY")}
  \cup {Of("SUSPEND", <<<<1, 2>>>>), Of("SUSPEND", <<<<0, 0>>>>), Of("RESET", <<<<1, 1>>>>),
        Of("RESUME", <<<<2, 2>>, <<2, 1>>, <<1, 1>>>>), Of("RECONNECT", <<<<1, 1>>>>)}

\* A script and a few commands, of which START may come without its argument.
FewCommands ==
  {Cmd("INPUT", "a"), Cmd("QUEUE", "1"), Cmd("START", "1"), Cmd("START", "none")}

-------------------------------------------------------------------------------
Option(l, v) == [label |-> l, value |-> v]

Protocols == {Option("PROTOCOL", p) : p \in {"UDP", "TCP"}}
Sizes == {Option("PATTERN", s) : s \in {<<1, 4>>, <<9, 3>>, <<2, 4>>}}
Needed == Protocols \cup Sizes \cup {Option("DST", p) : p \in {0, 5}}

Others ==
  {Option("SRC", p) : p \in {0, 9}} \cup {Option("TOS", v) : v \in {-1, 2, 3}}
  \cup {Option("TTL", 4), Option("SEQUENCE", 9), Option("COUNT", <<2, "none">>),
        Option("COUNT", <<2, "on">>), Option("RETRY", <<2>>), Option("RETRY", <<1, 3>>)}
  \cup {Option(l, 0) : l \in {"FEEDBACK", "REPORT", "CONNECT", "RSVP", "INVALID", "PAUSE"}}

Statuses ==
  {Option("SUSPEND", r) : r \in {<<1, 3>>, <<0, 2>>, <<2, 3>>}}
  \cup {Option("RESUME", r) : r \in {<<2, 2>>, <<1, 5>>}}
  \cup {Option("RESET", r) : r \in {<<3, 4>>, <<3, 2>>}}

\* ON lines name the protocol before the pattern.
ProtocolFirst(s) ==
  \A i, j \in DOMAIN s : (s[i].label = "PROTOCOL" /\ s[j].label = "PATTERN") => i < j

SampleLines ==
  [type : {"ON"}, options : {s \in BoundedSeq(Needed, 4) : ProtocolFirst(s)}]
  \cup [type : {"MOD"}, options : BoundedSeq(Needed \cup Others \cup Statuses, 2)
                                  \cup BoundedSeq(Statuses, 3)]

-------------------------------------------------------------------------------
\* The highest port there is stays out of the lists: see PortsListed.
Ports(top) == (0..top) \X (0..top)

Joined(top) ==
  {Option("INTERFACE", "eth"), Option("INVALID", 0), Option("RXBUFFER", 5), Option("RXBUFFER", 0),
   Option("PORT", <<<<1, 2>>>>), Option("PORT", <<<<2, 2>>, <<1, 3>>>>)}
  \cup {Option("SRC", a) : a \in {"source4", "source6", "group4"}}

\* What may follow the list of a LISTEN; -1 is no number.
AfterList == {Option("RXBUFFER", 5), Option("RXBUFFER", -1), Option("SRC", "source4"),
              Option("PORT", <<<<1, 2>>>>)}

SampleDrecLines(top) ==
  [type : {"LISTEN"}, of : {"UDP", "NONE"},
   options : {<<Option("PORT", s)>> : s \in BoundedSeq(Ports(top), 2)}
             \cup {<<Option("PORT", s), o>> : s \in BoundedSeq(Ports(1), 1), o \in AfterList}
             \cup {<<Option("PORT", <<<<0, 1>>>>), o, p>> : o \in AfterList, p \in AfterList}
             \cup {<< >>} \cup {<<o>> : o \in AfterList}]
  \cup [type : {"JOIN"}, of : {"group4", "host"}, options : BoundedSeq(Joined(top), 3)]

-------------------------------------------------------------------------------
SimplePatterns ==
  {[type |-> "PERIODIC", interval |-> i] : i \in {-1, 0, 3}}
  \cup {[type |-> "POISSON", interval |-> 2], [type |-> "JITTER", interval |-> 4, jitter |-> 2]}

SamplePatterns ==
  SimplePatterns
  \cup [type : {"BURST"}, interval : {3, 7}, random : BOOLEAN, inner : SimplePatterns,
        duration : {5}, exponential : BOOLEAN]

Periodic == {[type |-> "PERIODIC", interval |-> 3]}

Recorded(t, s) == [time |-> t, size |-> s]

\* The last interval of a trace is no second, and no packet is shorter than its
\* headers: see EndOfFile and SizeOf of Traces.
SampleTraces ==
  [x |-> <<Recorded(7, 60), Recorded(9, 100), Recorded(12, 142), Recorded(8, 90)>>,
   y |-> <<Recorded(2, 80), Recorded(6, 120)>>]

Cloned(file, repeat, count) ==
  [type |-> "tcpdump", file |-> file, repeat |-> repeat, count |-> count]

SampleCloned ==
  {Cloned("x", "given", 1), Cloned("x", "given", 0), Cloned("y", "given", 2), Cloned("y", "bad", 0),
   Cloned("missing", "absent", 0), [Cloned("x", "given", 0) EXCEPT !.type = "other"]}

-------------------------------------------------------------------------------
\* At most two of the flows have a status.
FewStatuses(ids, most) == {f \in [ids -> 0..3] : Cardinality({i \in ids : f[i] # 0}) <= most}

TcpEvent(type, client, flow, host) ==
  [type |-> type, client |-> client, flow |-> flow, addr |-> "b", addrLength |-> 4, port |-> 7,
   host |-> host, hostLength |-> 4]

SampleEvents ==
  {TcpEvent("ON", TRUE, 2, 0), TcpEvent("ACCEPT", FALSE, 0, 0), TcpEvent("OFF", TRUE, 2, 9),
   TcpEvent("OFF", FALSE, 0, 0)}
  \cup [type : {"SEND"}, protocol : {"UDP", "TCP"}, flow : {2}, size : {90}, addrLength : {4},
        header : {30}, host : {0, 9}, hostLength : {4}, hostFits : {TRUE}]
  \cup [type : {"LISTEN"}, protocol : {"UDP"}, port : {7}]
  \cup [type : {"JOIN"}, addr : {"g"}, addrLength : {4}, source : {0}, iface : {"eth"},
        ifaceLength : {3}, port : {0}]
  \cup [type : {"RECV"}, addr : {"b"}, addrLength : {4}, length : {99}]

-------------------------------------------------------------------------------
SampleAddresses ==
  [len : {4, 16}, byte : {9}, port : {5000}] \cup [len : {4, 16}, byte : {200}, port : {6000}]

\* Times of quantized values: the steps of the code's table grow by a tenth.
SampleTable == <<0, 1, 2, 4, 7, 11, 20, 40, 80, 150, 300>>

WindowOf(size, offset, ave, min, max, rate, lost, of) ==
  [size |-> size, offset |-> offset, ave |-> ave, min |-> min, max |-> max, rate |-> rate,
   lost |-> lost, of |-> of]

SampleUpdates ==
  {WindowOf(40, 9, 5, 0, 30, 0, 0, 5), WindowOf(90, 0, 20, 20, 20, 9998, 1, 3),
   WindowOf(40, 300, 33, 2, 299, 10, 99, 100), WindowOf(40, 1, 0, 0, 0, 123456, 1, 200000)}
================================================================================
