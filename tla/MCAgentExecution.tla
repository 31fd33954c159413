-------------------------- MODULE MCAgentExecution --------------------------
(* Instances of AgentExecution for TLC. *)
EXTENDS AgentExecution, TLC

CONSTANTS k1, k2, k3, w1, w2

\* Two commands on dispatcher workers of their own.
TwoCommands == {k1, k2}
PickTwo == (k1 :> w1) @@ (k2 :> w2)

\* Three commands on one worker: the cache is locked, so its users take turns.
ThreeCommands == {k1, k2, k3}
PickThree == (k1 :> w1) @@ (k2 :> w1) @@ (k3 :> w1)
Symmetry == Permutations(ThreeCommands)
=============================================================================
