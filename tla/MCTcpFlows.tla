------------------------------ MODULE MCTcpFlows ------------------------------
(***************************************************************************)
(* Instances of TcpFlows: two flows a and b.                               *)
(***************************************************************************)
EXTENDS TcpFlows, TLC

CONSTANTS a, b

TwoFlows == {a, b}

\* a may have one message waiting, b has no queue.
Limits10 == a :> 1 @@ b :> 0

CountsMC == {Unlimited, 1}
NoLimit == Unlimited
================================================================================
