---------------------------- MODULE ChildrenProps ----------------------------
(***************************************************************************)
(* What workflows/context.py, workflows/step.py and Controller.save()      *)
(* promise together.                                                       *)
(***************************************************************************)
EXTENDS Children

\* An interrupt of a subagent ends that subagent and nothing around it: the
\* node is cancelled only if the group or the run is (step.py, should_absorb;
\* context.py, _start's wait for `running`).
OnlyItsChild == body.pc = "cancelled" => group # "open"

\* Once a group is unwinding, no child it cut calls that its own interrupt and
\* goes on as if nothing had happened (step.py: "absorb only after reconciling
\* the cancel count").
UnwindingIsNotAbsorbed == \A k \in struck : kid[k].st # "cut"

\* No child outlives its node, and none that ended is counted: what is left in
\* the quiescence map are the children cut before their loop could enter.
NoneOutlives ==
    body.pc \in {"ending", "left"} =>
        /\ \A k \in Kids : kid[k].st \notin Live
        /\ DOMAIN counted \ {Node} \subseteq lost

\* From its registration to its exit a child at work is counted as running,
\* whatever becomes of the task that registered it (context.py, _start: "there
\* is no instant in which the child is unregistered").
WorkIsCounted ==
    \A k \in Kids : kid[k].st \in {"registered", "created", "entering", "working"} =>
        k \in DOMAIN counted /\ counted[k] = "running"

\* Cancellation under structured concurrency: the four together.
Structured == OnlyItsChild /\ UnwindingIsNotAbsorbed /\ NoneOutlives /\ WorkIsCounted

\* A save() that returned wrote, to its path, a session as of the call or
\* later, unless the call was made while another checkpoint was being written:
\* those bytes release it too.  And a run that is over keeps nobody waiting
\* (Controller.save, _release_pending_saves, _checkpoint_terminal).
SaveKeepsWord ==
    \A s \in Saves :
        /\ sv[s] = "returned" =>
             file[PathOf[s]].there /\ s \in file[PathOf[s]].asked \cup during
        /\ run = "ended" /\ final = {} /\ write = NoWrite => sv[s] # "waiting"

\* An id that a written snapshot of the node counts is never given to another
\* child, in this process or after a reload (context.py: "two resumed spawns
\* collide with a saved sibling").
IdsNotReused == \A k \in Kids : kid[k].st # "none" => k \notin before
=============================================================================
