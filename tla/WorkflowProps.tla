--------------------------- MODULE WorkflowProps ---------------------------
(***************************************************************************)
(* What the runner and the memo promise of a graph.                        *)
(***************************************************************************)
EXTENDS Workflow

Agrees(r) ==
    \A n \in Nodes : r[n].status = "completed" =>
        \A d \in DOMAIN r[n].from :
            r[d].status = "completed" /\ r[d].body = r[n].from[d]

\* R-W-6: an output that is memoised, in memory or in the file, was computed
\* from the very outputs that are memoised with it, whatever was lost and run
\* again in between.
MemoAgrees == Agrees(rec) /\ Agrees(disk)

\* When a node's turn has come it finds every output its input refers to,
\* unless that is the output of a node inside a container that was not walked
\* by this process because the memo had its output.
InputsReady ==
    \A n \in Nodes : Turn(n) /\ ~Completed(n) =>
        \A d \in Missing(n) : d \notin Roots /\ Completed(Parent(d))

\* A node works from the outputs its graph names, there when its turn comes and the
\* same ones that stay on record.
InputsHold == InputsReady /\ MemoAgrees

\* Without that exception, which FanOutRef does not make for a branch.
BranchesReady == \A n \in Nodes : Turn(n) /\ ~Completed(n) => Missing(n) = {}

\* R-C-3: while the run says PAUSED no node body is at work, but for nodes that
\* were released by a resume and had not run yet when the next pause came.
PausedRunsNothing ==
    run = "paused" => \A n \in Leaves : pc[n] = "work" => n \in slipped

\* R-W-6: a node whose completion reached the file is not entered again, by
\* this process or by any that loads the file.
KeptNotRerun == [][\A n \in kept : entered'[n] = entered[n]]_vars

\* R-C-3: a requested pause lands, or the run ends first, or it is resumed.
PauseLands == run = "pausing" ~> run # "pausing"
============================================================================
