--------------------------- MODULE RunControlProps ---------------------------
(***************************************************************************)
(* What a controlled run promises (docs/architecture.md, intent/spec.md    *)
(* R-C-1..R-C-8, tests/test_quiescence_property.py), stated over           *)
(* RunControl.                                                             *)
(***************************************************************************)
EXTENDS RunControl

Live(a) == loc[a] \notin {"unborn", "exited"}
Awaits(a, i, c) == /\ loc[a] = "tools" /\ plan[a][i] = "delegate"
                   /\ call[a][i] = "running" /\ child[a][i] = c

\* Every variable of the run and of its agents has its type.
TypeOK ==
  /\ run \in RunStates
  /\ task \in {"none", "created", "running", "done"}
  /\ intr \in [on : BOOLEAN, previous : RunStates]
  /\ requested \in BOOLEAN /\ seen \in BOOLEAN
  /\ mode \in {"manual", "auto"}
  /\ pending \subseteq (0..MaxTurns[Main]) \X Calls
  /\ cancelling \in BOOLEAN /\ failed \in BOOLEAN
  /\ phase \in [Agents -> AgentPhases \cup {"gone"}]
  /\ loc \in [Agents -> Locs]
  /\ gate \in [Agents -> {"no", "parking", "waiting", "open"}]
  /\ cut \in [Agents -> {"no", "step", "agent"}]
  /\ turns \in [Agents -> Nat] /\ \A a \in Agents : turns[a] <= MaxTurns[a]
  /\ plan \in [Agents -> [Calls -> Kinds]]
  /\ call \in [Agents -> [Calls -> CallStates]]
  /\ child \in [Agents -> [Calls -> Agents \cup {NoAgent}]]

\* Nobody sleeps behind an open gate: an agent still waiting there has a pause
\* that holds it, so resume() and cancel() lose no wakeup, not even one given between
\* the agent's look at the pause and its wait (_park, release, wait_open).
NoLostWakeup == \A a \in Agents : gate[a] = "waiting" => requested

\* A run reports PAUSED only while a pause is in force, also when an interrupt or
\* an approval crossed it; cancel() opens the gate on its way out (_settle_pause).
PausedOnRequest == run = "paused" => requested \/ cancelling

\* Structured concurrency: a live agent other than Main is awaited by exactly one
\* delegate call of one live agent, through every interrupt, failure and cancel.
NoOrphan ==
  \A c \in Agents \ {Main} : Live(c) =>
    /\ \E a \in Agents, i \in Calls : Awaits(a, i, c)
    /\ \A a, b \in Agents, i, j \in Calls :
         Awaits(a, i, c) /\ Awaits(b, j, c) => a = b /\ i = j

\* When the run ends nothing of it is left: no coroutine, no request, no parked
\* agent (_run_body, _finish, TaskGroup).
TerminalIsQuiet ==
  Terminal => /\ \A a \in Agents : ~Live(a) /\ gate[a] = "no"
              /\ pending = {}

\* The run is one that RunLifecycle allows: in what it reports, what it spends and when
\* it halts, whatever the commands and however the agents interleave.
Life == INSTANCE RunLifecycle WITH
          held <- requested, ending <- cancelling,
          released <- {a \in Agents : gate[a] = "open"}, before <- intr.previous,
          spending <- {a \in Agents : loc[a] = "model"}
Lifecycle == Life!Spec

-----------------------------------------------------------------------------
\* An agent the tracker counts as busy although it does nothing of its own: it is
\* gone, or it only waits at the gate or for a child.
Miscounted ==
  \E a \in Agents : /\ phase[a] \in {"running", "blocked_io"}
                    /\ \/ loc[a] = "exited"
                       \/ gate[a] = "waiting"
                       \/ \E i \in CallsOf(a) : Awaits(a, i, child[a][i])

\* A pause lands: once requested a started run gets to PAUSED, unless it ends or
\* the pause is withdrawn first (R-C-3, delta 14).  Two delegates of one batch share their
\* parent's phase, so the first to finish leaves the parent counted although it waits for
\* the other: runs with an agent miscounted are left out.
PauseSettlesWhenCounted ==
  (requested /\ task # "none") ~>
    (run = "paused" \/ ~requested \/ task = "done" \/ Miscounted)

\* cancel() ended the body's task without its code: before its first step, or while it
\* waited to report the end.  The run stays in the state it was in.
Dropped == cancelling /\ task = "done" /\ ~Terminal

\* A run that is not held paused for ever ends, however often it is paused and
\* resumed: no agent waits for a wakeup, a lock or an approval that never comes.  But for
\* the one case named: a run Dropped by cancel() reports no end until it is cancelled again.
Terminates == [](task # "none" => ([]<>~requested => <>(Terminal \/ Dropped)))

\* An interrupt lands: the step it cuts ends and the agent goes on (R-C-4).
InterruptLands == \A a \in Agents : cut[a] # "no" ~> cut[a] = "no"
=============================================================================
