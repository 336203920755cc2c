---------------------------- MODULE RunLifecycle ----------------------------
(***************************************************************************)
(* What a controlled run promises whoever watches it, without saying how   *)
(* (contracts.py, docs/architecture.md): its state, whether a pause is in  *)
(* force, which agents are inside a model call, that is, spending, and     *)
(* which the last resume let go although they have not run yet.            *)
(* One step here may stand for several transitions the code makes with no  *)
(* await that waits between them, such as pause() landing at once.         *)
(***************************************************************************)
EXTENDS RunState

CONSTANT Agents

VARIABLES
  run,       \* the state the run reports
  held,      \* a pause is in force
  spending,  \* the agents inside a model call
  released,  \* the agents a resume woke that have not run since
  before,    \* the state the last interrupt found
  ending     \* cancel() was called

lifeVars == <<run, held, spending, released, before, ending>>

\* The state machine's table, of which a step makes at most two entries.
Reaches(r, s) == \E m \in RunStates : IsLegalTransition(r, m) /\ IsLegalTransition(m, s)

Init ==
  /\ run = "created" /\ before = "created"
  /\ held = FALSE /\ ending = FALSE
  /\ spending = {} /\ released = {}

\* An agent begins a model call: never in a run that ended, and while a pause is in force
\* only an agent that the resume before it let go.
Spend(a) ==
  /\ a \notin spending /\ run \notin TerminalStates
  /\ held => a \in released
  /\ spending' = spending \cup {a} /\ released' = released \ {a}
  /\ UNCHANGED <<run, held, before, ending>>

\* What commands and agents may do beside moving the run: calls end, cancel() is not
\* taken back, an interrupt remembers the state it found, and nobody is let go while a
\* pause is in force.
Commanded ==
  /\ held' \in BOOLEAN /\ ending' \in BOOLEAN /\ (ending => ending')
  /\ before' \in RunStates
  /\ run' = "interrupting" => before' = IF run = "interrupting" THEN before ELSE run
  /\ spending' \subseteq spending
  /\ released' \subseteq (IF held' THEN released ELSE Agents)

\* The run moves between states that are not halts.
Move ==
  /\ run' \in RunStates \ ({"paused"} \cup TerminalStates) /\ Reaches(run, run')
  /\ run = "paused" => ~held' \/ run' = "interrupting" \/ ending
  /\ Commanded

\* An interrupt is over that found the run PAUSED.
PutsBack == run = "interrupting" /\ before = "paused"

\* PAUSED is declared: a pause is in force and nothing is being spent, except that an
\* interrupt puts back the PAUSED it found, also one that a cancel overtook.
Land ==
  /\ run # "paused" /\ Reaches(run, "paused") /\ run' = "paused"
  /\ ending \/ (held' /\ (PutsBack \/ spending' = {}))
  /\ Commanded

\* A paused run stays held; cancel() opens the gate for it to end.
Stay ==
  /\ run = "paused" /\ run' = run
  /\ held' # held => ending'
  /\ Commanded

\* The run ends, once, with no call under way and nobody still to wake.
End ==
  /\ run \notin TerminalStates /\ run' \in TerminalStates /\ Reaches(run, run')
  /\ spending' = {} /\ released' = {} /\ Commanded

\* Afterwards commands find nothing to do.
Ended == run \in TerminalStates /\ UNCHANGED <<run, spending, released>> /\ Commanded

Next == (\E a \in Agents : Spend(a)) \/ Move \/ Land \/ Stay \/ End \/ Ended
Spec == Init /\ [][Next]_lifeVars

-----------------------------------------------------------------------------
\* What is reported as PAUSED is held.  A run being cancelled is let through the gate.
PausedIsHeld == run = "paused" /\ ~ending => held

\* When PAUSED is declared nothing is being spent (R-C-3).
LandsFree ==
  run # "paused" /\ run' = "paused" /\ ~ending => PutsBack \/ spending' = {}

\* While a pause is in force an agent begins a model call only if a resume before the
\* pause had let it go, and then once: nobody is let go until the next resume.
HeldSpendsReleased ==
  held /\ held' => /\ spending' \ spending \subseteq released \ released'
                   /\ released' \subseteq released
=============================================================================
