------------------------------ MODULE MCViews ------------------------------
(* Two calls of a turn, a chain of three agents below a node, a fan-out of *)
(* two branches; a queue of one event and room for one row and block.      *)
EXTENDS ViewsProps, TLC

CONSTANTS a1, a2, a3, n, c1, c2, k1, k2

AgentChain == <<a1, a2, a3>>
Parents == (a1 :> n) @@ (a2 :> a1) @@ (a3 :> a2)
Alike == Permutations({c1, c2}) \cup Permutations({k1, k2})
=============================================================================
