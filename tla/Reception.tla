------------------------------ MODULE Reception ------------------------------
(***************************************************************************)
(* Who uses a UDP socket: flows that send from its port, the reception     *)
(* events LISTEN and IGNORE, and the multicast groups of JOIN and LEAVE.   *)
(* A transport (MgenUdpTransport) is found by its place in transport_list, *)
(* its port and its interface, counts its users in reference_count, and    *)
(* is closed by the last of them.                                          *)
(*                                                                         *)
(* A list of ports in an event is that many events here.  A source of SSM  *)
(* is part of the group.  A handler is one step.                           *)
(***************************************************************************)
EXTENDS Integers, SequencesExt, FiniteSetsExt

CONSTANTS Flow, Group,
          Port,          \* ports of events and of SRC: numbers, without NoPort
          Interface,     \* names of INTERFACE, without NoInterface
          NoInterface,
          IP_MAX_MEMBERSHIPS, \* most groups of a socket, at least one
          OpenAnswers,   \* what socket.Open may answer, of TRUE and FALSE
          JoinAnswers,   \* what socket.JoinGroup may answer
          Tidy,          \* each IGNORE takes back one LISTEN, and no other user
          MaxTransports, \* bound of an instance on transport_list
          MaxGroups      \* bound of an instance on drec_group_list

NoPort == 0          \* no PORT, or no SRC; the port of an unbound socket
Ephemeral(t) == -t   \* the port the system gives to a socket of NoPort
NoTransport == 0     \* the NULL pointer

ASSUME ReceptionAssumption ==
  /\ IsFiniteSet(Flow)
  /\ Port \subseteq Nat \ {NoPort}
  /\ OpenAnswers \subseteq BOOLEAN /\ JoinAnswers \subseteq BOOLEAN
  /\ IP_MAX_MEMBERSHIPS \in Nat \ {0}
  /\ Tidy \in BOOLEAN
  /\ MaxTransports \in Nat /\ MaxGroups \in Nat

VARIABLES sockets,       \* the transports; see Sockets
          drecGroups,    \* drec_group_list
          flowTransport, \* MgenFlow::flow_transport
          deferring,     \* offset_pending: the events up to OFFSET are processed
          listens        \* for the properties: the LISTENs of each port

vars == <<sockets, drecGroups, flowTransport, deferring, listens>>

(***************************************************************************)
(* The transports: transport_list, the fields of each, and the group       *)
(* memberships that the system keeps for each socket.                      *)
(***************************************************************************)
NewTransport(port) ==
  [srcPort |-> port, interface |-> NoInterface, references |-> 0, groupCount |-> 0,
   open |-> FALSE, bound |-> FALSE, input |-> FALSE]

NoSockets == [list |-> << >>, of |-> << >>, members |-> {}]

Prepended(s, port) ==
  LET t == Min((1..Len(s.list) + 1) \ DOMAIN s.of)
  IN [s EXCEPT !.list = <<t>> \o @,
               !.of = [u \in DOMAIN s.of \cup {t} |-> IF u = t THEN NewTransport(port) ELSE s.of[u]]]

Deleted(s, t) ==
  [s EXCEPT !.list = RemoveFirst(@, t), !.of = [u \in DOMAIN s.of \ {t} |-> s.of[u]]]

First(s, T) ==
  IF T = {} THEN NoTransport ELSE s.list[Min({i \in DOMAIN s.list : s.list[i] \in T})]

(***************************************************************************)
(* FindMgenTransport, of all transports and of the closed ones, and        *)
(* GetMgenTransport, which makes one where there is none.                  *)
(***************************************************************************)
Matching(s, port, interface) ==
  {t \in DOMAIN s.of :
     /\ port = NoPort \/ s.of[t].srcPort = port
     /\ interface = NoInterface \/ s.of[t].interface = interface}

ClosedOnly(s, T) == {t \in T : ~s.of[t].open}

GetMgenTransport(s, port, T) ==
  IF T # {} THEN [sockets |-> s, transport |-> First(s, T)]
  ELSE LET new == Prepended(s, port)
       IN [sockets |-> new, transport |-> Head(new.list)]

(***************************************************************************)
(* MgenUdpTransport::Open, Listen, Close.                                  *)
(***************************************************************************)
Opened(x, t, bind) ==
  [x EXCEPT !.open = TRUE, !.bound = @ \/ bind, !.references = @ + 1,
            !.srcPort = IF @ = NoPort /\ bind THEN Ephemeral(t) ELSE @]

Open(s, t, bind) == [s EXCEPT !.of[t] = Opened(@, t, bind)]

\* Mutant: a second LISTEN or a flow on the socket is not counted.
ListeningUncounted(x, t) == [(IF x.open THEN x ELSE Opened(x, t, TRUE)) EXCEPT !.input = TRUE]

Listening(x, t) ==
  LET opened == IF ~x.open THEN Opened(x, t, TRUE)
                ELSE IF ~x.bound THEN [x EXCEPT !.bound = TRUE]
                ELSE [x EXCEPT !.references = @ + 1]
  IN [opened EXCEPT !.input = TRUE]

Listen(s, t) == [s EXCEPT !.of[t] = Listening(@, t)]

\* Mutant: the socket is closed by whoever leaves first.
ClosesAnyway(x) == x.references > 0

\* The last reference is given back: the system forgets the groups of a socket that
\* is closed.
Closes(x) == x.references = 1

Released(x) ==
  IF x.references = 0 THEN x
  ELSE IF Closes(x) THEN [x EXCEPT !.references = @ - 1, !.open = FALSE, !.bound = FALSE, !.input = FALSE]
  ELSE [x EXCEPT !.references = @ - 1]

Close(s, t) ==
  [s EXCEPT !.of[t] = Released(@),
            !.members = IF Closes(s.of[t]) THEN {m \in @ : m[1] # t} ELSE @]

(***************************************************************************)
(* FindTransportByInterface.  With a port the first transport that has it  *)
(* decides, and takes the interface if it has no group; if its interface   *)
(* is another one, no other transport is tried.                            *)
(***************************************************************************)
SameInterface(s, t, interface) ==
  IF interface # NoInterface /\ s.of[t].interface # NoInterface
  THEN interface = s.of[t].interface
  ELSE s.of[t].interface = NoInterface

SetInterface(s, t, interface) == [s EXCEPT !.of[t].interface = interface]

TakesInterface(s, t, interface) ==
  s.of[t].groupCount = 0 /\ (interface = NoInterface \/ s.of[t].interface = NoInterface)

FindTransportByInterface(s, interface, port) ==
  LET any   == First(s, {t \in DOMAIN s.of : SameInterface(s, t, interface)})
      first == First(s, {t \in DOMAIN s.of : s.of[t].srcPort = port})
  IN IF port = NoPort THEN [sockets |-> s, transport |-> any]
     ELSE IF first = NoTransport THEN [sockets |-> s, transport |-> NoTransport]
     ELSE IF TakesInterface(s, first, interface)
     THEN [sockets |-> SetInterface(s, first, interface), transport |-> first]
     ELSE [sockets |-> s, transport |-> IF s.of[first].interface = interface THEN first ELSE NoTransport]

(***************************************************************************)
(* Mgen::JoinGroup: the first socket that fits and has space, or a closed  *)
(* or new one.  A socket that is full goes to the end of the list.  A      *)
(* transport that was not open and cannot join is deleted.                 *)
(***************************************************************************)

Full(s, t) == s.of[t].groupCount >= IP_MAX_MEMBERSHIPS

Placed(s, t) ==
  IF Full(s, t) THEN [s EXCEPT !.list = Append(RemoveFirst(@, t), t)] ELSE s

JoinTransport(s, interface, port) ==
  LET found == FindTransportByInterface(s, interface, port)
      f == found.sockets
  IN IF found.transport # NoTransport /\ ~Full(f, found.transport)
     THEN [got |-> found, new |-> FALSE]
     ELSE [got |-> GetMgenTransport(f, port, ClosedOnly(f, Matching(f, port, interface))), new |-> TRUE]

Member(t, e) == <<t, e.group, e.interface>>

WithGroup(s, t, member) ==
  [s EXCEPT !.members = @ \cup {member}, !.of[t].groupCount = @ + 1]

\* MgenUdpTransport::JoinGroup gives its reference back if the system refuses.
Refused(s, t) == Close(s, t)

JoinGroup(s, e, opens, joins) ==
  LET chosen == JoinTransport(s, e.interface, e.port)
      t == chosen.got.transport
      had == chosen.got.sockets
      opened == Open(had, t, had.of[t].srcPort # NoPort)
      member == Member(t, e)
      failed(r) == [sockets |-> IF chosen.new THEN Deleted(r, t) ELSE r, transport |-> NoTransport]
  IN IF ~(opens \/ had.of[t].open) THEN failed(had)
     ELSE IF ~joins \/ member \in s.members THEN failed(Refused(opened, t))
     ELSE [sockets |-> Placed(WithGroup(opened, t, member), t), transport |-> t]

WithoutGroup(s, t, member) ==
  [s EXCEPT !.members = @ \ {member}, !.of[t].groupCount = @ - 1]

\* Mgen::LeaveGroup moves the socket, which has space now, to the front.
Left(s, t) ==
  LET closed == Close(s, t) IN [closed EXCEPT !.list = <<t>> \o RemoveFirst(@, t)]

(***************************************************************************)
(* DrecGroupList.  An entry is active when it has a transport.             *)
(***************************************************************************)
Key(e) == <<e.group, e.interface, e.port>>

Entry(group, interface, port) ==
  [group |-> group, interface |-> interface, port |-> port, transport |-> NoTransport]

Found(e) == SelectInSeq(drecGroups, LAMBDA x : Key(x) = Key(e))

Init ==
  /\ sockets = NoSockets
  /\ drecGroups = << >>
  /\ flowTransport = [f \in Flow |-> NoTransport]
  /\ deferring \in BOOLEAN
  /\ listens = [p \in Port |-> 0]

Bounded == Len(sockets'.list) <= MaxTransports

(***************************************************************************)
(* Events of flows: the ON takes a socket of its port, or any, and may set *)
(* its interface.  If it cannot be opened the flow keeps the transport.    *)
(***************************************************************************)
FlowOn(f, port, interface, opens) ==
  LET got == GetMgenTransport(sockets, port, Matching(sockets, port, interface))
      t == got.transport
      set == IF interface = NoInterface THEN got.sockets
             ELSE SetInterface(got.sockets, t, interface)
  IN /\ flowTransport[f] = NoTransport
     /\ sockets' = IF opens \/ set.of[t].open THEN Open(set, t, TRUE) ELSE set
     /\ flowTransport' = [flowTransport EXCEPT ![f] = t]
     /\ Bounded
     /\ UNCHANGED <<drecGroups, deferring, listens>>

FlowOff(f) ==
  /\ flowTransport[f] # NoTransport
  /\ flowTransport[f] \in DOMAIN sockets.of  \* after that anything may happen
  /\ sockets' = Close(sockets, flowTransport[f])
  /\ flowTransport' = [flowTransport EXCEPT ![f] = NoTransport]
  /\ UNCHANGED <<drecGroups, deferring, listens>>

(***************************************************************************)
(* LISTEN and IGNORE of ProcessDrecEvent.  IGNORE goes over all transports *)
(* of the port; HasListener is true of every transport, since each has a   *)
(* handler, and IsListening of every UDP transport.                        *)
(***************************************************************************)
ListenEvent(port, opens) ==
  LET got == GetMgenTransport(sockets, port, Matching(sockets, port, NoInterface))
      t == got.transport
  IN /\ Tidy => listens[port] = 0
     /\ listens[port] < 2
     /\ sockets' = IF opens \/ got.sockets.of[t].open THEN Listen(got.sockets, t) ELSE got.sockets
     /\ listens' = IF opens \/ got.sockets.of[t].open THEN [listens EXCEPT ![port] = @ + 1] ELSE listens
     /\ Bounded
     /\ UNCHANGED <<drecGroups, flowTransport, deferring>>

Ignored(s, T) ==
  [s EXCEPT !.of = [t \in DOMAIN @ |-> IF t \in T THEN Released([@[t] EXCEPT !.input = FALSE]) ELSE @[t]],
            !.members = {m \in @ : m[1] \in T => ~Closes(s.of[m[1]])}]

IgnoreEvent(port) ==
  LET T == Matching(sockets, port, NoInterface)
  IN /\ Tidy => \A t \in T : sockets.of[t].open => sockets.of[t].input
     /\ sockets' = Ignored(sockets, T)
     /\ listens' = [listens EXCEPT ![port] = 0]
     /\ UNCHANGED <<drecGroups, flowTransport, deferring>>

(***************************************************************************)
(* JOIN: an entry that is not active may be tried again.  While deferring  *)
(* the entry waits.                                                        *)
(***************************************************************************)
JoinEvent(e, opens, joins) ==
  LET i == Found(e)
      entries == IF i = 0 THEN Append(drecGroups, e) ELSE drecGroups
      at == IF i = 0 THEN Len(entries) ELSE i
      result == JoinGroup(sockets, e, opens, joins)
  IN /\ i # 0 => drecGroups[i].transport = NoTransport
     /\ Len(entries) <= MaxGroups
     /\ IF deferring
        THEN /\ drecGroups' = entries
             /\ UNCHANGED sockets
        ELSE /\ sockets' = result.sockets
             /\ drecGroups' = [entries EXCEPT ![at].transport = result.transport]
             /\ Bounded
     /\ UNCHANGED <<flowTransport, deferring, listens>>

LeaveEvent(e) ==
  LET i == Found(e)
      t == drecGroups[i].transport
      member == Member(t, e)
  IN /\ i # 0
     /\ IF t = NoTransport THEN UNCHANGED sockets
        ELSE /\ member \in sockets.members  \* or the system refuses
             /\ sockets' = Left(WithoutGroup(sockets, t, member), t)
     /\ drecGroups' = RemoveAt(drecGroups, i)
     /\ UNCHANGED <<flowTransport, deferring, listens>>

(***************************************************************************)
(* The end of Mgen::Start: JoinDeferredGroups activates the entries in     *)
(* order, whether the system lets one join or not.                         *)
(***************************************************************************)
Activated(answer) ==
  LET after[n \in 0..Len(drecGroups)] ==
        IF n = 0 THEN [sockets |-> sockets, groups |-> drecGroups]
        ELSE LET before == after[n - 1]
                 result == JoinGroup(before.sockets, before.groups[n], answer[n], answer[n])
             IN IF before.groups[n].transport # NoTransport THEN before
                ELSE [sockets |-> result.sockets,
                      groups  |-> [before.groups EXCEPT ![n].transport = result.transport]]
  IN after[Len(drecGroups)]

JoinDeferredGroups(answer) ==
  /\ deferring
  /\ deferring' = FALSE
  /\ sockets' = Activated(answer).sockets
  /\ drecGroups' = Activated(answer).groups
  /\ Bounded
  /\ UNCHANGED <<flowTransport, listens>>

FlowEvent ==
  \/ \E f \in Flow, port \in Port \cup {NoPort}, i \in Interface \cup {NoInterface}, opens \in OpenAnswers :
       FlowOn(f, port, i, opens)
  \/ \E f \in Flow : FlowOff(f)

\* Start executes the events of flows up to the OFFSET before those here.
FlowsFirst == deferring => drecGroups = << >> /\ \A p \in Port : listens[p] = 0

FlowEvents ==
  /\ FlowsFirst
  /\ FlowEvent

DrecEvents ==
  \/ \E port \in Port, opens \in OpenAnswers : ListenEvent(port, opens)
  \/ \E port \in Port : IgnoreEvent(port)
  \/ \E g \in Group, i \in Interface \cup {NoInterface}, port \in Port \cup {NoPort} :
       \/ \E opens \in OpenAnswers, joins \in JoinAnswers : JoinEvent(Entry(g, i, port), opens, joins)
       \/ LeaveEvent(Entry(g, i, port))
  \/ \E answer \in [1..Len(drecGroups) -> JoinAnswers \cap OpenAnswers] : JoinDeferredGroups(answer)

Next == FlowEvents \/ DrecEvents

Spec == Init /\ [][Next]_vars

-------------------------------------------------------------------------------
TypeOK ==
  /\ sockets.of \in [ToSet(sockets.list) ->
       [srcPort : Int, interface : Interface \cup {NoInterface}, references : Nat,
        groupCount : 0..IP_MAX_MEMBERSHIPS, open : BOOLEAN, bound : BOOLEAN, input : BOOLEAN]]
  /\ IsInjective(sockets.list)
  /\ \A m \in sockets.members : m[1] \in DOMAIN sockets.of /\ m[2] \in Group
  /\ \A i \in DOMAIN drecGroups :
       drecGroups[i] \in [group : Group, interface : Interface \cup {NoInterface},
                          port : Port \cup {NoPort}, transport : Nat]
  /\ flowTransport \in [Flow -> Nat]
  /\ deferring \in BOOLEAN
  /\ listens \in [Port -> 0..2]

(***************************************************************************)
(* The references of a socket are those of its flows, its groups and its   *)
(* LISTEN, through every way it can be found and shared, and it is open    *)
(* exactly while there are any (Open, Listen, Close, JoinGroup).           *)
(***************************************************************************)
FlowsOn(t) == {f \in Flow : flowTransport[f] = t}
GroupsOn(t) == {i \in DOMAIN drecGroups : drecGroups[i].transport = t}

ReferencesMatch ==
  \A t \in DOMAIN sockets.of :
    LET s == sockets.of[t]
    IN /\ s.references = Cardinality(FlowsOn(t)) + Cardinality(GroupsOn(t)) + (IF s.input THEN 1 ELSE 0)
       /\ s.open <=> s.references > 0

(***************************************************************************)
(* A group that is joined stays joined, on an open socket, until its       *)
(* LEAVE, whatever others do with the socket (DrecMgenTransport).          *)
(***************************************************************************)
StaysJoined ==
  /\ \A i \in DOMAIN drecGroups :
       LET e == drecGroups[i]
       IN e.transport # NoTransport => Member(e.transport, e) \in sockets.members
  /\ \A t \in DOMAIN sockets.of :
       sockets.of[t].groupCount = Cardinality({m \in sockets.members : m[1] = t})

(***************************************************************************)
(* A port is heard exactly from its LISTEN to its IGNORE.                  *)
(***************************************************************************)
Heard ==
  \A p \in Port :
    listens[p] > 0 <=>
      \E t \in DOMAIN sockets.of : sockets.of[t].srcPort = p /\ sockets.of[t].open /\ sockets.of[t].input

\* What was asked for is heard, whatever others do with the socket: a group from its
\* JOIN to its LEAVE, and a port from its LISTEN to its IGNORE.
StillHeard == StaysJoined /\ Heard
================================================================================
