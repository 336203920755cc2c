----------------------------- MODULE MCRunControl -----------------------------
(* Small instances of RunControl: call lists, and the symmetry of subagents. *)
EXTENDS RunControlProps, TLC

CONSTANTS c1, c2

\* Call lists of two calls, by the kinds that interact.
Two(x, y) == [i \in Calls |-> IF i = 1 THEN x ELSE y]
PlansAll == {Two("none", "none"), Two("leaf", "gated"),
             Two("delegate", "delegate")}
PlansLive == {Two("none", "none"), Two("delegate", "gated"), Two("leaf", "delegate")}
SafeKindsDefault == {"leaf", "delegate"}
\* Turns of the main agent and of its subagents.
Turns21 == [a \in Agents |-> IF a = Main THEN 2 ELSE 1]

Subagents == Permutations(Agents \ {Main})
AllCommands == {"start", "pause", "hard", "resume", "interrupt", "mode", "resolve", "cancel"}
=============================================================================
