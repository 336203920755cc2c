------------------------------ MODULE RunState ------------------------------
(***************************************************************************)
(* The vocabulary every layer of the harness shares                        *)
(* (azalabscode/runstate.py): the states of a run, the table of legal      *)
(* transitions, and the phases of an agent with the ones that count as     *)
(* quiescent.  Values are the strings of the StrEnums.                     *)
(***************************************************************************)

RunStates == {"created", "running", "pausing", "paused", "waiting_approval",
              "interrupting", "completed", "failed", "cancelled"}

TerminalStates == {"completed", "failed", "cancelled"}

LegalTransitions ==
  [s \in RunStates |->
     CASE s = "created" -> {"running", "cancelled", "failed"}
       [] s = "running" -> {"pausing", "waiting_approval", "interrupting"}
                              \cup TerminalStates
       [] s = "pausing" -> {"paused", "running", "failed", "cancelled"}
       [] s = "paused" -> {"running", "waiting_approval", "interrupting",
                           "failed", "cancelled"}
       [] s = "waiting_approval" -> {"running", "pausing", "paused",
                                     "interrupting", "failed", "cancelled"}
       [] s = "interrupting" -> {"running", "paused", "pausing",
                                 "waiting_approval", "failed", "cancelled"}
       [] OTHER -> {}]

\* A self-transition is legal and does nothing.
IsLegalTransition(old, new) == old = new \/ new \in LegalTransitions[old]

AgentPhases == {"running", "blocked_io", "blocked_on_child", "parked",
                "waiting_approval", "finished"}

QuiescentPhases == {"blocked_on_child", "parked", "waiting_approval", "finished"}

IsQuiescent(p) == p \in QuiescentPhases
=============================================================================
