---------------------------- MODULE RecoveryProps ----------------------------
(***************************************************************************)
(* What a run promises about its transcripts and its session file through  *)
(* interrupts and crashes (docs/architecture.md, intent/spec.md R-C-9 to   *)
(* R-C-13, intent/plan.md "Session and resume"), stated over Recovery.     *)
(***************************************************************************)
EXTENDS Recovery

Active == proc \in {"up", "loaded", "ending", "ended"}

\* The calls a transcript answers with one of the results rs.
AnsweredBy(a, rs) == {m.call : m \in {x \in ToSet(state[a].msgs) :
                                        x.role = "result" /\ x.result \in rs}}
RanIds == {c.id : c \in ran}
\* An agent cancelled before it claimed the state that was restored for it.
Unclaimed(a) == loc[a] = "exited" /\ a \in restored

\* No transcript is ever one a provider would reject, in memory, in the session
\* file or in a session being written: no call asked for or answered twice, the
\* answers in call order, whatever was cut, lost or repaired (assert_transcript_valid).
TranscriptValid ==
  /\ \A a \in Agents : TranscriptOK(state[a].msgs)
  /\ disk # NoSession => \A a \in Agents : TranscriptOK(disk.agents[a].msgs)

\* A request goes out only with every call answered, each turn's answers right
\* behind the message that asked: no injected text, and no partial reply of an
\* interrupted model call, ever falls between them (take_injections, finalize_turn).
RequestWellFormed ==
  \A a \in Agents : loc[a] = "model" =>
    /\ OpenCalls(state[a].msgs) = <<>>
    /\ \A i \in DOMAIN state[a].msgs : state[a].msgs[i].role = "result" =>
         /\ i > 1
         /\ state[a].msgs[i - 1].role # "user"

\* What a model is sent, and could be sent after any crash, is a conversation its
\* provider accepts.
ConversationsHold == TranscriptValid /\ RequestWellFormed

\* What the model is told of a call is what happened to it: "ok" only if its tool
\* was started, "denied" or "refused" only if it was not, in this process or in
\* one that died (gate.check, dispatch, reconcile).
AnswersAgree ==
  \A a \in Agents :
    /\ \A id \in AnsweredBy(a, {"denied", "refused"}) : id \notin RanIds
    /\ \A m \in ToSet(state[a].msgs) : m.role = "result" /\ m.result = "ok" =>
         \/ m.call \in RanIds
         \/ \E c \in ToSet(Requested(state[a].msgs)) : c.id = m.call /\ c.tool = "delegate"

\* A result the session file holds is never replaced by a guess: after a crash as
\* before, the call keeps that result (pending_results, repair_transcript).
SavedResultsKept ==
  Active /\ disk # NoSession =>
    \A a \in Agents : Unclaimed(a) \/ Covered(a) \/
      \A r \in disk.agents[a].results :
        \/ r \in state[a].results
        \/ Result(r.call, r.result) \in ToSet(state[a].msgs)

\* The answers on a transcript are true, and stay what they were through a crash.
AnswersHold == AnswersAgree /\ SavedResultsKept

\* A text the controller accepted is on the transcript or in the queue exactly
\* once, in the order typed, and the task is told exactly once, also to an agent
\* that was resumed (interrupt, take_injections, _enter).  Except, by name: a text
\* accepted for a resumed child before its first step (blank) is lost when the child
\* adopts the state restored for it, and so is all an agent was told that is cancelled
\* before that step (Unclaimed).  It needs batches with one delegate: of two, one that
\* has finished may be run again from nothing.
InjectionKept ==
  Active => \A a \in Agents :
    LET texts == UserTexts(state[a].msgs) \o state[a].inj
    IN  Unclaimed(a) \/
        /\ \A i, j \in DOMAIN texts : i < j => texts[i] < texts[j]
        /\ \A t \in accepted : t[1] = a => t[2] \in ToSet(texts) \cup ToSet(blank[a])

\* Every gated tool that ever started was approved once by a human: an approval
\* answered after a reload is spent on one call (_carried, _restored_ids).
OneApproval == Cardinality({c \in ran : c.tool = "gated"}) <= granted

\* A delegated agent gets an id no agent has that the run knows, from this process or
\* from the session it was loaded from, unless it is that agent's own delegate
\* resumed.  An id no session had counted when the process died is given again.
FreshChild ==
  [][\A c \in Agents : loc[c] # "spawned" /\ loc'[c] = "spawned" =>
       \/ state[c].phase = "unknown"
       \/ \E a \in Agents : \E n \in DOMAIN redo'[a] : redo'[a][n].child = c]_vars

\* The session file never goes back: what an agent had said and been told stays a
\* beginning of what every later session of the run holds.  Left out are writes by
\* the thread of a cancelled safe point, and agents cancelled before they claimed
\* their restored state (safe_point, reconcile).  It needs batches with one
\* delegate, as InjectionKept does.
DiskAdvances ==
  [][disk # NoSession /\ disk' \notin stray =>
       \A a \in Agents : \/ IsPrefix(disk.agents[a].msgs, disk'.agents[a].msgs)
                         \/ Unclaimed(a)]_vars

\* A run that is up ends, or its process dies: no agent waits for ever for the
\* checkpoint lock, a child or an answer.
Finishes == (proc = "up") ~> (proc \in {"ended", "down"})

=============================================================================
