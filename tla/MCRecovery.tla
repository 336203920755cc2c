----------------------------- MODULE MCRecovery -----------------------------
(* Small instances of Recovery: call lists and turns. *)
EXTENDS RecoveryProps, TLC

CONSTANT c1

OneKid == <<c1>>
\* The main agent has one turn in each process, so that after a crash it has
\* another; a subagent has two in a row.
Turns12 == [a \in Agents |-> IF a = Main THEN 1 ELSE 2]

For(main, kids) == [a \in Agents |-> IF a = Main THEN main ELSE kids]
\* Batches with at most one delegate, the last call of its batch: one that is followed by
\* another call is answered twice after a crash, and of two one may be run again that has
\* finished, without its transcript.
PlansTail == For({<<>>, <<"gated", "gated">>, <<"leaf", "delegate">>}, {<<"leaf">>})

AllCommands == {"interrupt", "send"}
=============================================================================
