----------------------------- MODULE MCReception -----------------------------
(***************************************************************************)
(* Sockets that are shared, for TLC: who holds and closes them, for flows, *)
(* LISTEN and JOIN (Reception; no definition names a group), and the       *)
(* options that flows give them (SocketOptions).  Each is explored from    *)
(* initial states of its own.                                              *)
(***************************************************************************)
EXTENDS Reception, TLC

CONSTANTS Options, Sharers, Ports, Destinations, Values, Default, MovesWithTtl, MaxMade

VARIABLES part, option, transports, flows, told

Sharing == INSTANCE SocketOptions WITH Flow <- Sharers, MaxTransports <- MaxMade

ASSUME SharingAssumption ==
  /\ Options \subseteq {"TOS", "TTL", "DF", "TXBUFFER", "INTERFACE", "BROADCAST"}
  /\ Ports \subseteq Nat
  /\ Sharing!Nowhere \notin Destinations
  /\ Values \subseteq Nat
  /\ Default \in Nat
  /\ MovesWithTtl \in BOOLEAN
  /\ MaxMade \in Nat

sharing == <<option, transports, flows, told>>

HostAndGroup == {[to |-> "host", multicast |-> FALSE], [to |-> "group", multicast |-> TRUE]}

\* The option matters to the second part alone.
MCInit ==
  /\ part \in {"references", "options"} /\ Init /\ Sharing!Init
  /\ part = "references" => option = "TOS"

References == part = "references" /\ Next /\ UNCHANGED <<part, sharing>>
Given == part = "options" /\ Sharing!Next /\ UNCHANGED <<part, vars>>

MCSpec == MCInit /\ [][References \/ Given]_<<part, vars, sharing>>

Symmetric == Permutations(Group)

\* MgenSocketTransport::SetEventOptions and Open: an open socket has the options its
\* transport was told last.
ToldApplied == Sharing!ToldApplied
================================================================================
