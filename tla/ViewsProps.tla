----------------------------- MODULE ViewsProps -----------------------------
(* What the screen may be relied on for.                                   *)
EXTENDS Views

\* Nothing is on its way: what the widgets show is all they will show until
\* the run does something else.
Quiet == attached /\ list.mounted /\ queue = <<>> /\ \A t \in Tasks : Free(t)

\* The status a call should show; between an answer and what it leads to,
\* and while a cut step is being told of, no event has said yet.
Between == {"approved", "refused", "cut"}

StatusOf(c) ==
  CASE call[c] = "asking" -> IF c \in announced THEN "awaiting approval" ELSE "requested"
    [] call[c] = "malformed" -> "failed"
    [] OTHER -> call[c]

\* A row made anew after it was trimmed shows a call's status from its next
\* event on, and every row its end.
RowTrue(c) ==
  list.record[c] # NoRecord /\ (list.record[c].known \/ call[c] \in Ended)
    => list.record[c].status = StatusOf(c)

BlockTrue(c) ==
  Contains(transcript.blocks, c) => owner[c] = "main" /\ transcript.status[c] = StatusOf(c)

\* The table (tui/widgets/tool_calls.py) and the transcript's block
\* (transcript.py) fold the same events apart from each other, an answer
\* found only through an index, rows trimmed, events kept before the mount:
\* once nothing is on its way both show what became of the call.  Excepted is
\* a call the answer to which waited for room while the call went on.
CallsShown ==
  Quiet => \A c \in Calls : call[c] \notin Between /\ c \notin late => RowTrue(c) /\ BlockTrue(c)

\* An agent's row is under its parent's when that has one, with the phase the
\* controller has; it may be missing from the screen only below a row whose
\* own parent was moved.
AgentTrue(a) ==
  /\ tree.phase[a] = phase[a] \/ a \in late
  /\ tree.under[a] = Place(tree, a)
  /\ tree.parent[a] = ParentOf[a]
  /\ a \in tree.gone => ParentOf[a] \in Agents /\ ParentOf[ParentOf[a]] \in tree.moved

AgentsTrue == \A a \in Agents : phase[a] # "none" => AgentTrue(a)

\* A stage is running, done or failed as the runner has it, failed when a
\* branch of it failed; with no failure the count of its branches is exact.
StageTrue ==
  /\ chevron.state = CASE node[Stage] = "none" -> "pending"
                       [] node[Stage] = "running" -> "running"
                       [] node[Stage] = "failed" -> "failed"
                       [] OTHER -> IF \E k \in Children : node[k] = "failed" THEN "failed" ELSE "ok"
  /\ node[Stage] = "completed" => chevron.ids = Children
  /\ (\A k \in Children : node[k] = "completed") =>
       chevron.done = Cardinality(Children) /\ chevron.failed = 0

\* The agent tree (agent_tree.py) and the stage row (stage_pipeline.py) agree
\* with the controller's record once nothing is on its way, whenever the app
\* attached and in whatever order the tasks' events came.
RunShown == Quiet => CASE scene = "agents" -> AgentsTrue
                       [] scene = "stages" -> StageTrue
                       [] OTHER -> TRUE

=============================================================================
