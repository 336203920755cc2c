------------------------------- MODULE Views -------------------------------
(***************************************************************************)
(* What the terminal shows: the four widgets that fold a run's events into *)
(* a picture of it (tui/widgets: ToolCallList, Transcript's tool blocks,   *)
(* AgentTree, StagePipeline), fed by the app's one subscription.           *)
(*                                                                         *)
(* The run changes first and is told about after: an action of the         *)
(* dispatcher, the gate, the controller or the runner updates its own      *)
(* record and publishes an event, and the task that publishes waits while  *)
(* the subscription's queue is full (events.EventBus.publish).  Events of  *)
(* one task stay in order; those of two tasks may pass each other.         *)
(*                                                                         *)
(* A widget ignores the events of the other widgets before it looks at     *)
(* them, so `scene' restricts a behaviour to the events one of them folds. *)
(***************************************************************************)
EXTENDS Naturals, Sequences, FiniteSets, SequencesExt

CONSTANTS Calls,      \* tool calls of one turn of their agent
          AgentSeq,   \* agents, in the order they are registered
          Node,       \* the workflow node that starts the first of them
          ParentOf,   \* [agent -> the agent or node that starts it]
          Stage,      \* a fan-out node
          Children,   \* its branches
          Room,       \* capacity of the terminal's queue
          MaxMoves,   \* bound: times an agent parks or waits for an approval
          MaxRows,    \* ToolCallList.max_rows
          MaxBlocks   \* Transcript.max_blocks

Agents == ToSet(AgentSeq)
Owners == {"main", "sub"}
Tasks == Calls \cup Owners \cup {"user", Node, Stage} \cup Agents \cup Children
Nothing == [kind |-> "nothing", of |-> "nothing", says |-> "nothing"]
Ended == {"ok", "failed", "denied", "cancelled"}

VARIABLES
  scene,      \* which widget's events this behaviour is about
  call,       \* [Calls -> how far the dispatcher is with it]
  owner,      \* [Calls -> the agent that asked for it]
  pending,    \* requests the gate holds unanswered
  announced,  \* calls whose ApprovalRequested was published
  phase,      \* [Agents \cup {Node} -> Controller's phase of it]
  task,       \* [Agents \cup {Node} -> how far its own task is]
  moves,      \* parks and approvals so far
  answered,   \* agents whose approval was answered, the gate's hook to follow
  node,       \* [Children \cup {Stage} -> the runner's record of it]
  onError,    \* the fan-out's on_child_error
  attached,   \* the app subscribed
  queue,      \* its queue
  held,       \* [Tasks -> the event it waits to put there]
  list,       \* ToolCallList
  transcript, \* the main agent's Transcript
  tree,       \* AgentTree
  chevron,    \* the stage in StagePipeline
  late        \* calls and agents an answer's event of which had to wait

callVars == <<call, owner, pending, announced>>
agentVars == <<phase, task, moves, answered>>
nodeVars == <<node, onError>>
widgets == <<list, transcript, tree, chevron>>
vars == <<scene, callVars, agentVars, nodeVars, attached, queue, held, widgets, late>>

NoRecord == [status |-> "none", known |-> FALSE]

NewList(mounted) ==
  [mounted |-> mounted, buffer |-> <<>>, rows |-> <<>>,
   record |-> [c \in Calls |-> NoRecord], byRequest |-> {}]

NewTranscript == [blocks |-> <<>>, status |-> [c \in Calls |-> "none"], byRequest |-> {}]

NewTree ==
  LET none == [a \in Agents \cup {Node} |-> "none"]
  IN [parent |-> none, phase |-> none, under |-> none, gone |-> {}, moved |-> {}]

NewStage == [state |-> "pending", ids |-> {}, done |-> 0, failed |-> 0]

Init ==
  /\ scene \in {"calls", "agents", "stages"}
  /\ call = [c \in Calls |-> "none"]
  /\ \E mounted \in BOOLEAN :
       /\ scene # "calls" => mounted
       /\ owner \in IF scene = "calls" /\ mounted THEN [Calls -> Owners] ELSE {[c \in Calls |-> "main"]}
       /\ list = NewList(mounted)
  /\ pending = {} /\ announced = {} /\ answered = {} /\ moves = 0 /\ late = {}
  /\ phase = [a \in Agents \cup {Node} |-> IF a = Node THEN "running" ELSE "none"]
  /\ task = [a \in Agents \cup {Node} |-> IF a = Node THEN "runs" ELSE "none"]
  /\ node = [x \in Children \cup {Stage} |-> "none"]
  /\ onError \in IF scene = "stages" THEN {"fail", "continue"} ELSE {"fail"}
  /\ attached \in IF scene = "agents" THEN BOOLEAN ELSE {TRUE}
  /\ queue = <<>>
  /\ held = [t \in Tasks |-> Nothing]
  /\ transcript = NewTranscript /\ tree = NewTree /\ chevron = NewStage

-----------------------------------------------------------------------------
(* Publishing.  An event nobody is subscribed for is not kept.             *)

Event(kind, of, says) == [kind |-> kind, of |-> of, says |-> says]

Free(t) == held[t] = Nothing

Emit(t, e) ==
  /\ Free(t)
  /\ IF attached /\ Len(queue) < Room THEN queue' = Append(queue, e) ELSE queue' = queue
  /\ IF attached /\ Len(queue) >= Room THEN held' = [held EXCEPT ![t] = e] ELSE held' = held

Enqueue(t) ==
  /\ ~Free(t) /\ Len(queue) < Room
  /\ queue' = Append(queue, held[t])
  /\ held' = [held EXCEPT ![t] = Nothing]
  /\ UNCHANGED <<scene, callVars, agentVars, nodeVars, attached, widgets, late>>

-----------------------------------------------------------------------------
(* A tool call, from ToolDispatcher.call.  `call' is set where the event   *)
(* is published.                                                           *)

Tells(c, status, kind, says) ==
  /\ call' = [call EXCEPT ![c] = status]
  /\ Emit(c, Event(kind, c, says))

OnlyCalls == UNCHANGED <<scene, owner, agentVars, nodeVars, attached, widgets>>

Request(c) ==
  /\ scene = "calls" /\ call[c] = "none"
  /\ \E parsed \in BOOLEAN :
       IF parsed THEN Tells(c, "requested", "requested", "requested")
                 ELSE Tells(c, "malformed", "requested", "failed")
  /\ OnlyCalls /\ UNCHANGED <<pending, announced, late>>

\* Malformed arguments, an unknown tool, or the check before the prompt.
Reject(c) ==
  /\ call[c] \in {"malformed", "requested"}
  /\ Tells(c, "failed", "ended", "fault")
  /\ OnlyCalls /\ UNCHANGED <<pending, announced, late>>

\* The gate registers the request; its hooks run before it is published.
Register(c) ==
  /\ call[c] = "requested" /\ Free(c)
  /\ call' = [call EXCEPT ![c] = "asking"]
  /\ pending' = pending \cup {c}
  /\ OnlyCalls /\ UNCHANGED <<announced, queue, held, late>>

Announce(c) ==
  /\ call[c] \in {"asking", "approved", "refused"} /\ c \notin announced
  /\ Emit(c, Event("asked", c, "asked"))
  /\ announced' = announced \cup {c}
  /\ OnlyCalls /\ UNCHANGED <<call, pending, late>>

\* RuntimePermissionGate.resolve, in the task of whoever answers.
Answer(c) ==
  /\ c \in pending
  /\ pending' = pending \ {c}
  /\ \E verdict \in {"approved", "refused"} :
       /\ call' = [call EXCEPT ![c] = IF @ = "asking" THEN verdict ELSE @]
       /\ Emit("user", Event("resolved", c, verdict))
  /\ late' = IF held' = held THEN late ELSE late \cup {c}
  /\ OnlyCalls /\ UNCHANGED announced

Begin(c) ==
  /\ call[c] = "requested" \/ (call[c] = "approved" /\ c \in announced)
  /\ Tells(c, "running", "started", "running")
  /\ OnlyCalls /\ UNCHANGED <<pending, announced, late>>

Progress(c) ==
  /\ call[c] = "running"
  /\ Tells(c, "running", "progress", "text")
  /\ OnlyCalls /\ UNCHANGED <<pending, announced, late>>

End(c) ==
  /\ \/ call[c] = "running" /\ Tells(c, "ok", "ended", "ok")
     \/ call[c] = "running" /\ Tells(c, "failed", "ended", "fault")
     \/ call[c] = "refused" /\ c \in announced /\ Tells(c, "denied", "ended", "denied")
  /\ OnlyCalls /\ UNCHANGED <<pending, announced, late>>

\* A step of agent o is interrupted: its calls are cancelled where they stand,
\* in the middle of publishing too; a request already published is withdrawn.
Unrecorded(o) == {c \in Calls : owner[c] = o /\ (call[c] \notin Ended \/ ~Free(c))}

Cut(o) ==
  /\ scene = "calls" /\ Free(o)
  /\ \E c \in Unrecorded(o) : call[c] # "none"
  /\ \A c \in Calls : call[c] # "cut"
  /\ call' = [c \in Calls |-> IF c \in Unrecorded(o) THEN "cut" ELSE call[c]]
  /\ held' = [t \in Tasks |-> IF t \in Unrecorded(o) THEN Nothing ELSE held[t]]
  /\ pending' = pending \ {c \in Unrecorded(o) : c \in announced /\ held[c].kind # "asked"}
  /\ OnlyCalls /\ UNCHANGED <<announced, queue, late>>

\* AgentLoop tells of every call the step left without a result.
TellCut(c) ==
  /\ call[c] = "cut"
  /\ call' = [call EXCEPT ![c] = "cancelled"]
  /\ Emit(owner[c], Event("cancelled", c, "cancelled"))
  /\ OnlyCalls /\ UNCHANGED <<pending, announced, late>>

-----------------------------------------------------------------------------
(* Agents: Controller.enter_agent, phase and exit_agent.                   *)

OnlyAgents == UNCHANGED <<scene, callVars, nodeVars, attached, widgets>>

Runs(a) == task[a] = "runs"

Awaited(p) == {k \in Agents : ParentOf[k] = p /\ task[k] \in {"made", "runs"}}

\* The parent registers the child and tells of it before the child's task exists.
Spawn(k) ==
  /\ scene = "agents" /\ task[k] = "none"
  /\ Runs(ParentOf[k]) /\ phase[ParentOf[k]] = "running"
  /\ task' = [task EXCEPT ![k] = "made"]
  /\ phase' = [phase EXCEPT ![k] = "running"]
  /\ Emit(ParentOf[k], Event("spawned", k, ParentOf[k]))
  /\ OnlyAgents /\ UNCHANGED <<moves, answered, late>>

\* The child's loop registers it again.  An agent that delegates is blocked
\* by then; a node that spawns goes on.
Enter(k) ==
  /\ task[k] = "made"
  /\ Free(ParentOf[k])
  /\ ParentOf[k] = Node \/ phase[ParentOf[k]] = "blocked_on_child"
  /\ task' = [task EXCEPT ![k] = "runs"]
  /\ Emit(k, Event("spawned", k, ParentOf[k]))
  /\ OnlyAgents /\ UNCHANGED <<phase, moves, answered, late>>

NextPhases(a) ==
  CASE phase[a] = "running" /\ Awaited(a) # {} ->
         {"blocked_on_child"} \cup IF a = Node THEN {"parked"} ELSE {}
    [] phase[a] = "running" -> {"parked"} \cup IF a = Node THEN {} ELSE {"waiting_approval"}
    [] phase[a] = "parked" -> {"running"}
    [] phase[a] = "waiting_approval" -> IF a \in answered THEN {"running"} ELSE {}
    [] OTHER -> IF Awaited(a) = {} THEN {"running"} ELSE {}

Optional == {"parked", "waiting_approval"}

SetPhase(a, new) == phase' = [phase EXCEPT ![a] = new]

MovePhase(a) ==
  /\ scene = "agents" /\ Runs(a)
  /\ \E new \in NextPhases(a) :
       /\ SetPhase(a, new) /\ Emit(a, Event("phase", a, new))
       /\ moves' = IF new \in Optional THEN moves + 1 ELSE moves
       /\ moves' <= MaxMoves
  /\ OnlyAgents /\ UNCHANGED <<task, answered, late>>

\* An answer wakes the agent; the gate's hook sets its phase afterwards, in
\* the answering task, wherever the agent is by then.
Approve(a) ==
  /\ phase[a] = "waiting_approval" /\ a \notin answered
  /\ answered' = answered \cup {a}
  /\ OnlyAgents /\ UNCHANGED <<phase, task, moves, queue, held, late>>

ApprovalHook(a) ==
  /\ a \in answered
  /\ answered' = answered \ {a}
  /\ SetPhase(a, "blocked_io")
  /\ Emit("user", Event("phase", a, "blocked_io"))
  /\ late' = IF held' # held \/ ~Free(a) THEN late \cup {a} ELSE late
  /\ OnlyAgents /\ UNCHANGED <<task, moves>>

Exit(a) ==
  /\ Runs(a) /\ phase[a] \in {"running", "blocked_io"} /\ Awaited(a) = {}
  /\ SetPhase(a, "finished")
  /\ task' = [task EXCEPT ![a] = "over"]
  /\ Emit(a, Event("finished", a, "finished"))
  /\ OnlyAgents /\ UNCHANGED <<moves, answered, late>>

-----------------------------------------------------------------------------
(* Nodes: the runner and a fan-out, from Runner.execute.  A branch that    *)
(* fails under "continue" is told of three times.                          *)

OnlyNodes == UNCHANGED <<scene, callVars, agentVars, onError, attached, widgets, late>>

Records(x, status, kind) ==
  /\ node' = [node EXCEPT ![x] = status]
  /\ Emit(x, Event(kind, x, kind))

Done == {"completed", "failed"}

NodeStart(x) ==
  /\ scene = "stages" /\ node[x] = "none"
  /\ x \in Children => node[Stage] = "running" /\ Free(Stage)
  /\ Records(x, "running", "node_started") /\ OnlyNodes

NodeFinish(x) ==
  /\ node[x] = "running"
  /\ x = Stage => \A k \in Children : node[k] \in Done /\ Free(k)
  /\ Records(x, "completed", "node_completed") /\ OnlyNodes

ChildFails(x) ==
  /\ x \in Children /\ node[x] = "running"
  /\ Records(x, IF onError = "fail" THEN "raised" ELSE "absorbing", "node_failed")
  /\ OnlyNodes

\* Under "continue" execute records the failure again, then its stand-in output.
FailAgain(x) ==
  /\ node[x] = "absorbing" /\ Records(x, "failing", "node_failed") /\ OnlyNodes

StandIn(x) ==
  /\ node[x] = "failing" /\ Records(x, "failed", "node_completed") /\ OnlyNodes

\* Under "fail" the task group cancels the other branches, and the stage fails.
StageFails ==
  /\ \E k \in Children : node[k] = "raised" /\ Free(k)
  /\ node[Stage] = "running" /\ Free(Stage)
  /\ node' = [x \in DOMAIN node |-> IF x = Stage THEN "failed"
                                    ELSE IF node[x] \in Done /\ Free(x) THEN node[x] ELSE "over"]
  /\ queue' = IF Len(queue) < Room THEN Append(queue, Event("node_failed", Stage, "node_failed")) ELSE queue
  /\ held' = [t \in Tasks |->
                IF t \in Children THEN Nothing
                ELSE IF t = Stage /\ Len(queue) >= Room THEN Event("node_failed", Stage, "node_failed")
                ELSE held[t]]
  /\ OnlyNodes

-----------------------------------------------------------------------------
(* A tool call on the screen, twice: the table's record and the            *)
(* transcript's block each fold the events by code of their own.           *)

\* Mutation of FailureStatus: read off the event's class alone.
FailureStatusPlain(kind) == "failed"

\* A denied call ends as a failure of a kind of its own.
FailureStatus(kind) == IF kind = "denied" THEN "denied" ELSE "failed"

Outcome(says) == IF says = "ok" THEN "ok" ELSE FailureStatus(says)

Applied(status, e) ==
  CASE e.kind = "requested" -> IF e.says = "failed" THEN "failed" ELSE status
    [] e.kind = "asked"     -> "awaiting approval"
    [] e.kind = "resolved"  -> IF e.says = "approved" THEN "running" ELSE "denied"
    [] e.kind = "started"   -> "running"
    [] e.kind = "ended"     -> Outcome(e.says)
    [] e.kind = "cancelled" -> "cancelled"
    [] OTHER                -> status

Marked(status, e) ==
  CASE e.kind = "asked" -> "awaiting approval"
    [] e.kind = "resolved" /\ e.says # "approved" -> "denied"
    [] e.kind \in {"started", "resolved"} -> "running"
    [] e.kind = "requested" /\ e.says = "failed" -> "failed"
    [] e.kind = "ended" -> Outcome(e.says)
    [] e.kind = "cancelled" -> "cancelled"
    [] OTHER -> status

Names(e) == e.kind \in {"requested", "asked", "started"}

Trimmed(l) ==
  IF Len(l.rows) <= MaxRows THEN l
  ELSE [l EXCEPT !.rows = Tail(@), !.record[Head(l.rows)] = NoRecord]

\* A resolution names its request only: the row is found through the index.
Concerned(l, e) == e.kind = "resolved" => e.of \in l.byRequest

FoldRow(l, e) ==
  LET c == e.of
      old == IF l.record[c] = NoRecord THEN "requested" ELSE l.record[c].status
  IN IF ~Concerned(l, e) THEN l
     ELSE Trimmed([l EXCEPT
       !.byRequest = IF e.kind = "asked" THEN @ \cup {c} ELSE @,
       !.rows = IF l.record[c] = NoRecord THEN Append(@, c) ELSE @,
       !.record[c] = [status |-> Applied(old, e), known |-> @.known \/ Names(e)]])

\* Before the table is mounted it keeps the newest events only.
FoldList(l, e) ==
  IF l.mounted THEN FoldRow(l, e)
  ELSE [l EXCEPT !.buffer = IF Len(@) < 4 * MaxRows THEN Append(@, e)
                            ELSE Append(Tail(@), e)]

MountList ==
  /\ ~list.mounted
  /\ list' = FoldLeft(FoldRow, [list EXCEPT !.mounted = TRUE, !.buffer = <<>>], list.buffer)
  /\ UNCHANGED <<scene, callVars, agentVars, nodeVars, attached, queue, held,
                 transcript, tree, chevron, late>>

WithBlock(t, c) ==
  IF Contains(t.blocks, c) THEN t
  ELSE LET grown == [t EXCEPT !.blocks = Append(@, c), !.status[c] = "requested"]
       IN IF Len(grown.blocks) <= MaxBlocks THEN grown
          ELSE [grown EXCEPT !.blocks = Tail(@), !.status[Head(grown.blocks)] = "none",
                             !.byRequest = @ \ {Head(grown.blocks)}]

FoldBlock(t, e) ==
  LET c == e.of
      shown == IF e.kind \in {"requested", "asked"} THEN WithBlock(t, c) ELSE t
      found == IF e.kind = "resolved" THEN c \in shown.byRequest ELSE Contains(shown.blocks, c)
  IN IF ~found THEN shown
     ELSE [shown EXCEPT
       !.status[c] = Marked(@, e),
       !.byRequest = CASE e.kind = "asked" -> @ \cup {c}
                       [] e.kind = "resolved" -> @ \ {c}
                       [] OTHER -> @]

-----------------------------------------------------------------------------
(* The agent tree.  `under' is the row's parent in the tree, `gone' the    *)
(* rows whose parent's node object was replaced under them: the widget has *)
(* them still, the screen does not.                                        *)

HasRow(t, a) == t.under[a] # "none"

Place(t, a) == IF t.parent[a] # "none" /\ HasRow(t, t.parent[a]) THEN t.parent[a] ELSE "root"

Below(t, S) == {k \in DOMAIN t.under : t.under[k] \in S /\ k \notin t.gone}

\* Mutation of Reparented: a move that leaves the children with the old row.
ReparentedAlone(t, S, p) ==
  [t EXCEPT !.under = [a \in DOMAIN @ |-> IF a \in S THEN p ELSE @[a]],
            !.gone = (@ \ S) \cup Below(t, S),
            !.moved = @ \cup S]

\* Textual cannot move a node: the agent's row is made again, and its children's.
Reparented(t, S, p) ==
  [t EXCEPT !.under = [a \in DOMAIN @ |-> IF a \in S THEN p ELSE @[a]],
            !.gone = (@ \ (S \cup Below(t, S))) \cup Below(t, Below(t, S)),
            !.moved = @ \cup S]

AdoptOrphans(t, p) ==
  LET orphans == {a \in DOMAIN t.under : t.parent[a] = p /\ t.under[a] = "root"}
  IN IF orphans = {} THEN t ELSE Reparented(t, orphans, p)

Synced(t, a) ==
  IF ~HasRow(t, a) THEN AdoptOrphans([t EXCEPT !.under[a] = Place(t, a)], a)
  ELSE IF t.under[a] # Place(t, a) \/ a \in t.gone THEN Reparented(t, {a}, Place(t, a))
  ELSE t

FoldAgent(t, e) ==
  Synced([t EXCEPT !.parent[e.of] = IF e.kind = "spawned" THEN e.says ELSE @,
                   !.phase[e.of] = IF e.kind = "spawned" THEN "running" ELSE e.says], e.of)

\* App.attach: subscribe, then draw what the run's record already has.
Registered == SelectSeq(AgentSeq, LAMBDA a : phase[a] # "none")

Seeded(t, a) == Synced([t EXCEPT !.parent[a] = ParentOf[a], !.phase[a] = phase[a]], a)

Attach ==
  /\ ~attached
  /\ attached' = TRUE
  /\ tree' = FoldLeft(Seeded, tree, Registered)
  /\ UNCHANGED <<scene, callVars, agentVars, nodeVars, queue, held,
                 list, transcript, chevron, late>>

-----------------------------------------------------------------------------
(* The stage pipeline: one chevron for a node and its branches.            *)

FoldStage(s, e) ==
  CASE e.kind = "node_started"   -> [s EXCEPT !.state = "running"]
    [] e.kind = "node_completed" -> [s EXCEPT !.state = IF s.failed > 0 THEN "failed" ELSE "ok"]
    [] e.kind = "node_failed"    -> [s EXCEPT !.state = "failed"]

FoldChild(s, e) ==
  LET seen == [s EXCEPT !.ids = @ \cup {e.of}]
  IN CASE e.kind = "node_started"   -> [seen EXCEPT !.state = IF @ = "pending" THEN "running" ELSE @]
       [] e.kind = "node_completed" -> [seen EXCEPT !.done = @ + 1]
       [] e.kind = "node_failed"    -> [seen EXCEPT !.failed = @ + 1]

FoldNode(s, e) == IF e.of = Stage THEN FoldStage(s, e) ELSE FoldChild(s, e)

-----------------------------------------------------------------------------
(* The pump: App._drain takes one event, EventRouter.dispatch gives it to  *)
(* every widget whose filter it passes.                                    *)

\* The transcript is the main agent's.
Matches(e) == owner[e.of] = "main"

Dispatch ==
  /\ queue # <<>>
  /\ queue' = Tail(queue)
  /\ LET e == Head(queue)
     IN CASE scene = "calls" ->
               /\ list' = FoldList(list, e)
               /\ transcript' = IF Matches(e) THEN FoldBlock(transcript, e) ELSE transcript
               /\ UNCHANGED <<tree, chevron>>
          [] scene = "agents" ->
               tree' = FoldAgent(tree, e) /\ UNCHANGED <<list, transcript, chevron>>
          [] scene = "stages" ->
               /\ chevron' = FoldNode(chevron, e)
               /\ UNCHANGED <<list, transcript, tree>>
  /\ UNCHANGED <<scene, callVars, agentVars, nodeVars, attached, held, late>>

CallStep(c) ==
  \/ Request(c) \/ Reject(c) \/ Register(c) \/ Announce(c) \/ Answer(c)
  \/ Begin(c) \/ Progress(c) \/ End(c) \/ TellCut(c)

AgentStep(a) == Spawn(a) \/ Enter(a) \/ Approve(a) \/ ApprovalHook(a) \/ Exit(a)

NodeStep(x) ==
  NodeStart(x) \/ NodeFinish(x) \/ ChildFails(x) \/ FailAgain(x) \/ StandIn(x)

Next ==
  \/ \E c \in Calls : CallStep(c)
  \/ \E o \in Owners : Cut(o)
  \/ \E a \in Agents : AgentStep(a)
  \/ \E a \in Agents \cup {Node} : MovePhase(a)
  \/ \E x \in Children \cup {Stage} : NodeStep(x)
  \/ StageFails
  \/ \E t \in Tasks : Enqueue(t)
  \/ MountList \/ Attach \/ Dispatch

Spec == Init /\ [][Next]_vars
=============================================================================
