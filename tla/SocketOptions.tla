----------------------------- MODULE SocketOptions -----------------------------
(***************************************************************************)
(* The options of UDP sockets: events of flows set them on the transport   *)
(* that a flow shares with others, which keeps them over the openings and  *)
(* closings of its socket (MgenSocketTransport::SetEventOptions and Open   *)
(* in mgenTransport.cpp, and how MgenFlow::DoOnEvent and DoModEvent find   *)
(* the transport and when they hand it the options).                       *)
(*                                                                         *)
(* The options do not meddle with each other, so a behaviour is about one  *)
(* of them.  TTL has two fields, for multicast and for unicast.  Value 0   *)
(* is what a socket has that is just opened.  A flow that moves has nothing*)
(* waiting, no open fails (UdpFlows, Reception), and the system takes every*)
(* value.                                                                  *)
(***************************************************************************)
EXTENDS Integers, Sequences, FiniteSets

CONSTANTS Options,         \* of "TOS", "TTL", "DF", "TXBUFFER", "INTERFACE", "BROADCAST"
          Flow,
          Ports,           \* source ports an event may give; 0: none given
          Destinations,    \* of [to : ..., multicast : BOOLEAN]
          Values,          \* values of an option, 0 among them
          Default,         \* the value by the global commands
          MovesWithTtl,    \* a MOD may give TTL without DST
          MaxTransports    \* bound on the transports made

None == -1
Nowhere == [to |-> "nowhere", multicast |-> FALSE]

VARIABLES option,       \* the option this behaviour is about
          transports,   \* the transports, oldest first
          flows,        \* each flow's transport (0: off), and its destination
          told          \* for each transport what events have told it

vars == <<option, transports, flows, told>>


Events(type) ==
  {e \in [src : Ports, dst : Destinations \cup (IF type = "MOD" THEN {Nowhere} ELSE {}),
          connect : BOOLEAN, value : Values \cup {None}] :
     /\ option = "INTERFACE" => e.value # 0
     /\ (option = "TTL" /\ e.value # None /\ e.dst = Nowhere) => MovesWithTtl}

Fields == IF option = "TTL" THEN {"multicast", "unicast"} ELSE {"value"}

-------------------------------------------------------------------------------
\* Transports are named by their age; the list has the newest at its head.
Newest(ts, P(_)) ==
  LET found == {i \in 1..Len(ts) : P(ts[i])}
  IN IF found = {} THEN 0 ELSE CHOOSE i \in found : \A j \in found : j <= i

\* The value of the option as the name of an interface, which only INTERFACE is.
InterfaceOf(e) == IF option = "INTERFACE" THEN e.value ELSE None
Named(t) == IF option = "INTERFACE" /\ t.kept["value"] # 0 THEN t.kept["value"] ELSE None

\* Mgen::FindMgenTransport: no port matches any, open or not.
Find(ts, port, to, interface) ==
  Newest(ts, LAMBDA t : /\ port = 0 \/ t.port = port
                        /\ interface = None \/ Named(t) = interface
                        /\ t.to = to)

\* The constructor: the defaults are kept for the socket that Open will make.
NewTransport(port, to) ==
  [port |-> port, to |-> to, kept |-> [f \in Fields |-> Default], socket |-> [f \in Fields |-> 0],
   open |-> FALSE, references |-> 0]

\* The setters: of a closed socket the value is kept for Open.
Set(t, f, v) == [t EXCEPT !.kept[f] = v, !.socket[f] = IF t.open THEN v ELSE @]

\* SetEventOptions: which TTL it is depends on the destination of the event.
FieldOf(dst) ==
  IF option # "TTL" THEN "value" ELSE IF dst.multicast THEN "multicast" ELSE "unicast"

SetEventOptions(t, e) == IF e.value = None THEN t ELSE Set(t, FieldOf(e.dst), e.value)

\* MgenSocketTransport::Open gives a socket what was kept, also one that was open:
\* TTL in any case, and the others if they are not 0.  BROADCAST is forgotten.
Reapplied(t, f) ==
  /\ option # "BROADCAST"
  /\ option = "TTL" \/ t.kept[f] # 0

\* Mutant: an open socket is taken for one that has its options.
OpenNewOnly(t, number) ==
  [t EXCEPT !.open = TRUE, !.references = @ + 1, !.port = IF @ = 0 THEN 10 + number ELSE @]

Open(t, number) ==
  [t EXCEPT !.open = TRUE,
            !.references = @ + 1,
            !.port = IF @ = 0 THEN 10 + number ELSE @,
            !.socket = [f \in Fields |->
                          IF Reapplied(t, f) THEN t.kept[f] ELSE IF t.open THEN @[f] ELSE 0]]

Close(t) == [t EXCEPT !.references = @ - 1, !.open = t.references > 1]

-------------------------------------------------------------------------------
\* Mgen::GetMgenTransport: the list with the transport in it, and its place.
Connected(e, dst) == IF e.connect THEN dst.to ELSE "any"

With(ts, port, to, interface) ==
  IF Find(ts, port, to, interface) # 0 THEN ts ELSE Append(ts, NewTransport(port, to))

Place(ts, port, to, interface) ==
  IF Find(ts, port, to, interface) # 0 THEN Find(ts, port, to, interface) ELSE Len(ts) + 1

\* What events tell a transport, by the destination of the flow they are for.
Fresh == [f \in Fields |-> Default]

Tell(ts, place, e, dst) ==
  LET before == [i \in 1..Len(ts) |-> IF i <= Len(told) THEN told[i] ELSE Fresh]
  IN IF e.value = None THEN before
     ELSE [before EXCEPT ![place][FieldOf(dst)] = e.value]

\* ON: the options go to the transport before it is opened, and again after.
On(f, e) ==
  LET ts == With(transports, e.src, Connected(e, e.dst), InterfaceOf(e))
      p == Place(transports, e.src, Connected(e, e.dst), InterfaceOf(e))
      opened == [ts EXCEPT ![p] = SetEventOptions(Open(SetEventOptions(ts[p], e), p), e)]
  IN /\ Len(ts) <= MaxTransports
     /\ transports' = opened
     /\ flows' = [flows EXCEPT ![f] = [transport |-> p, dst |-> e.dst]]
     /\ told' = Tell(ts, p, e, e.dst)
     /\ UNCHANGED option

\* IsTransportChanging: CONNECT changes nothing, since IsConnected is true of every
\* transport that was not made for a connection.
Changing(f, e, port, dst) ==
  LET t == transports[flows[f].transport]
  IN \/ e.src # 0 /\ e.src # port
     \/ dst # flows[f].dst
     \/ InterfaceOf(e) # None /\ Named(t) # InterfaceOf(e)

\* MOD: a flow that changes its socket closes the old one first, and then looks for
\* one with its port, which may be the same again; then the options go there.
Mod(f, e) ==
  LET old == flows[f].transport
      dst == IF e.dst = Nowhere THEN flows[f].dst ELSE e.dst
      kept == IF e.connect /\ e.dst # Nowhere THEN 0 ELSE transports[old].port
      port == IF e.src # 0 THEN e.src ELSE kept
      closed == [transports EXCEPT ![old] = Close(@)]
      ts == With(closed, port, Connected(e, dst), InterfaceOf(e))
      p == Place(closed, port, Connected(e, dst), InterfaceOf(e))
      moved == [ts EXCEPT ![p] = SetEventOptions(Open(@, p), e)]
  IN /\ IF Changing(f, e, kept, dst)
        THEN /\ Len(ts) <= MaxTransports
             /\ transports' = moved
             /\ flows' = [flows EXCEPT ![f] = [transport |-> p, dst |-> dst]]
             /\ told' = Tell(ts, p, e, dst)
        ELSE /\ transports' = [transports EXCEPT ![old] = SetEventOptions(@, e)]
             /\ told' = Tell(transports, old, e, dst)
             /\ UNCHANGED flows
     /\ UNCHANGED option

Off(f) ==
  /\ flows[f].transport # 0
  /\ transports' = [transports EXCEPT ![flows[f].transport] = Close(@)]
  /\ flows' = [flows EXCEPT ![f].transport = 0]
  /\ UNCHANGED <<option, told>>

Init ==
  /\ option \in Options
  /\ transports = << >> /\ told = << >>
  /\ flows \in [Flow -> [transport : {0}, dst : {Nowhere}]]

Next ==
  \E f \in Flow :
    \/ flows[f].transport = 0 /\ \E e \in Events("ON") : On(f, e)
    \/ flows[f].transport # 0 /\ \E e \in Events("MOD") : Mod(f, e)
    \/ Off(f)

Spec == Init /\ [][Next]_vars

-------------------------------------------------------------------------------
\* An open socket has the value its transport was told last, by the event of any
\* flow that was on it (TTL for the kind of destination of that flow), or else the
\* default; however often the socket was closed and opened since, for that flow or
\* for another.
ToldApplied ==
  \A i \in DOMAIN transports :
    transports[i].open => transports[i].socket = told[i]
================================================================================
