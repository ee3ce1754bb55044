------------------------------ MODULE MCUdpFlows ------------------------------
(***************************************************************************)
(* Instances of UdpFlows for TLC: two flows a and b.                       *)
(***************************************************************************)
EXTENDS UdpFlows, TLC

CONSTANTS a, b

TwoFlows == {a, b}

\* Both may have one message waiting; nothing else tells them apart.
Limits11 == [f \in TwoFlows |-> 1]
Symmetric == Permutations(TwoFlows)

\* a may have one message waiting, b two.
Limits12 == a :> 1 @@ b :> 2
================================================================================
