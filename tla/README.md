# A TLA+ model of azalabscode

azalabscode (`src/azalabscode/`) is an asyncio harness for coding agents: an
agent loop asks a model, runs the tools the model asks for, and goes round; a
controller around it can pause, interrupt, approve, cancel, save and reload the
run. This directory holds TLA+ modules of its core, TLC configurations that
check them on small instances, and proofs for TLAPS.

    tlc -workers 2 -config rc_safety.cfg MCRunControl     model-check a run
    tlapm RunControlProofs.tla                            check the proofs (all *Proofs.tla)

Every cfg belongs to one MC module, listed in section 2; sizes, times and
results are in section 4, what the code does that its documents do not say in
section 5, the proofs in section 6.

## 1. Inventory

| component | state | operations | hard behaviour |
|---|---|---|---|
| run state (`runstate.py`, `control/state.py`) | the coarse state | `transition`, subscribers | the table is enforced by an exception: an unforeseen order of commands raises |
| quiescence (`control/quiescence.py`) | a phase per agent, the pause request, the gate | `enter`, `exit`, `set_phase`, `request`, `release`, `wait_open` | one counter decides PAUSED while every agent moves |
| controller (`control/controller.py`) | agents, in-flight steps, node records, pending saves, locks | commands of the user; callbacks of the loop (`safe_point`, `phase`, `enter_agent`, ...) | commands hold one lock, safe points another, callbacks none |
| permission gate (`control/gate.py`) | mode, pending requests, carried decisions | `check`, `resolve`, `set_mode`, `cancel_all`, `restore_pending` | a human's answer races interrupts, mode switches, crashes |
| agent loop (`workflows/agent_loop.py`, `state.py`) | transcript, results, injections, child numbers | turns, model step, tool step, `delegate`, `_resume_delegates` | cancellation at every await; parents and children |
| steps (`workflows/step.py`) | a handle per step | `run_step`, `request_cancel` | whose CancelledError is it? |
| transcript (`workflows/transcript.py`, `messages.py`) | - | `finalize_turn`, `repair_transcript`, `assert_transcript_valid` | holes after interrupts and crashes |
| checkpoints (`control/checkpoint.py`, `session.py`, `atomic.py`) | the session file | serialize, write in a thread, replace | process death between any two steps; cancelled writes |
| resume (`control/resume.py`) | - | `reconcile`, drift check | what a call in flight at death had done |
| dispatcher (`tools/dispatcher.py`) | cleanup tasks | `prepare`, `dispatch`, retries, timeouts | concurrent runs, detached cleanup |
| read-before-write, budget, shell (`tools/`) | records of reads, budget decisions, process trees | read, write, spill, kill | staleness, races with other writers |
| workflow graph (`workflows/graph.py`, `builder.py`, `runner.py`, `nodes/`) | node records, outputs | `execute`, containers, `spawn` | fan-out, error policy, memo across a crash |
| event bus (`events.py`) | a bounded queue per subscriber | `publish`, `get`, coalesce, drop | backpressure, shared event objects |
| providers (`providers/`) | a stream accumulator | `stream`, `feed`, retries | partial streams |
| terminal UI (`tui/`) | widgets, stream panes | render, route events | batching at 33 ms |

How they interact: the UI calls the controller's commands; the agent loop calls
the controller's `RunControl` callbacks and the dispatcher; the dispatcher calls
the permission gate, which calls the controller's hooks and waits for the
handler; the controller cancels steps through their handles and reads every
`AgentState` when it writes a checkpoint (controller and loop share the object);
everything emits on the event bus. `PROJECT.json` lists the components with
their status and 40 hazards with the line where each bites.

What makes each correct, in one line: *control* - PAUSED is declared exactly
when nothing works, and nothing waits for ever; *gate* - one human decision, one
call; *loop and transcript* - every request is one a provider accepts and tells
the model what really happened; *checkpoint and resume* - a crash loses no
recorded result, repeats no effect, and never produces an invalid transcript;
*tools* - no effect is repeated, no unseen content is overwritten, nothing
outlives its step; *workflow* - a completed node runs once, from outputs that
stay on record; *children* - a node's scope waits for what it started; *stream
and bus* - what a subscriber saw is the message, short of what it is told;
*screen* - once nothing is on its way it shows what happened.

## 2. Modules

| module | models | properties | instances |
|---|---|---|---|
| `RunState` | the states, the transition table, the phases | | |
| `RunLifecycle` | the abstract run: what an observer may see of it | (a property of `rc_safety`) | |
| `RunControl` | one run under control: controller, quiescence, gate, loop, steps | `RunControlProps` | `MCRunControl`, `rc_*.cfg` |
| `Transcript` | transcripts and the operators that write and repair them | | |
| `Recovery` | transcripts, checkpoints, crashes, `load()` | `RecoveryProps` | `MCRecovery`, `recovery.cfg` |
| `Children` | a node, its task group, its delegated and spawned agents, `save()` | `ChildrenProps` | `MCChildren`, `children.cfg` |
| `Workflow` | graphs: compile, walk, containers, memo, pauses, crashes | `WorkflowProps` | `MCWorkflow`, `workflow*.cfg` |
| `Tools` | the tool step: dispatcher, budget, cancellation, process trees | `ToolsProps` | `MCTools`, `tools.cfg` |
| `Files` | reading before writing | `FilesProps` | `MCFiles`, `files.cfg` |
| `EventBus` | the bus: bounded queues, coalescing, drops, backpressure | `EventBusProps` | `MCEventBus`, `bus.cfg` |
| `Approvals` | gate, handlers, the application's modal and its queue | `ApprovalsProps` | `MCApprovals`, `approvals.cfg` |
| `Stream` | one model call: provider, accumulator, retries, panes | `StreamProps` | `MCStream`, `stream.cfg` |
| `Views` | the widgets that fold events into a picture of the run | `ViewsProps` | `MCViews`, `views.cfg` |
| `RunControlProofs`, `WorkflowProofs`, `ToolsProofs`, `ChildrenProofs`, `FilesProofs`, `EventBusProofs`, `ApprovalsProofs`, `RecoveryProofs` | theorems | | |

`RunControl` refines `RunLifecycle`; `Recovery` is built on `Transcript`. The
others are joined at interfaces: what one guarantees is what the next assumes.
`Stream` and `Views` read events in the order `EventBus.PublisherOrder` gives
them (one publisher in order, two in any); the approval that comes or never
comes in `Tools` and `RunControl` is `Approvals`; a leaf of `Workflow` that is an
agent is the node of `Children`, whose agents run the loop of `RunControl`, whose
model step is `Stream` and whose tool step is `Tools`. Composing them all is out
of TLC's reach.

Definitions named `Mutation of ...` are plausible bugs put beside the definition
they would replace. Each property is known to fail on one, listed in
`PROJECT.json`; where a property is a conjunction of named parts the others
(`GetForgets`, `DrainedEarly`, `FitsAlways`, `RepairWithoutPending`) break its
other parts.

## 3. State and actions, and the code

### RunControl

A step of the model is the code between two awaits that *really wait*: the
checkpoint write of a safe point, the pause gate, an approval, the model's
stream, a tool, a child. An `emit` waits only when a bounded subscriber queue is
full; the model takes it as waiting where something is held or remembered across
it: in `interrupt()`, split into `InterruptBegin` and `InterruptApply` with the
command lock held between, and in `_park`, split into `SafePoint`, which finds the
pause pending and counts the agent as parked, and `ParkOn`, which waits at the gate
unless the pause was withdrawn while PARKED was being reported.

`run`, `intr`, `mode`, `pending`, `requested`, `cancelling` are the fields of
controller, machine, tracker and gate. `phase` is the tracker's; the counter of
non-quiescent agents is `Quiet(phase)`. `loc` is where an agent's coroutine is
suspended, `gate` its place at the pause gate (reporting, asleep, woken), `cut` a
cancellation on its way to the step or the whole agent, `call` and `child` its
batch, forgotten when the batch is over. `task` is the
controller's task for the body.

One agent is the root, as in the terminal interface and the test harness; the
others are delegated to. A delegate when all subagents of the instance are used
is answered at once, as the tool answers a bad request. The dispatcher's limit
on parallel calls is in `Tools`: no batch here is that large.

### RunLifecycle, the abstract specification

The reported state, whether a pause is in force, who is inside a model call, whom
the last resume let go without their having run since, the state the last interrupt
found, and whether the run is being cancelled. A run moves along the table of
`runstate.py`, two entries at most in a step (a command that lands at once); while a
pause is in force only an agent already let go begins a model call, once; PAUSED is
declared only with nobody spending, unless an interrupt puts back the PAUSED it
found; a run ends once, with no call under way. `PausedIsHeld`, `LandsFree` and
`HeldSpendsReleased` say the consequences. The refinement mapping
(`RunControlProps.Life`) sends `held` to `requested`, `ending` to `cancelling`,
`spending` to the agents whose coroutine is at `model`, `released` to those woken at
the gate and `before` to what the interrupt remembers; every action of RunControl is a
step or a stutter of it, which `rc_safety` checks.

### Recovery

The same loop with the data a crash is about: `state` holds each `AgentState`
(messages, results, injections, delegates to resume, child number); `cp` is the
safe point that holds the checkpoint lock with the session it serialized; `disk`
the session file; `stray` the sessions whose writer thread outlived its
cancelled safe point. `Fold` serializes, `Written` replaces the file and goes
on, `Crash` keeps only `disk`, `Load` reconciles it. `ran`, `granted`,
`accepted`, `minted`, `blank` are history: which tools were started, how many
approvals were given, which texts were accepted, how many messages each agent got (a
call id is never reused), and which texts went to the empty state a resumed child is
registered with. A text is a number, a result is what kind of answer it is.
Pausing, `cancel()` and auto mode are left to RunControl.

### Children

`body` is the node's body, `group` the task group the runner opens around it,
`kid` each child's task, cancel count and reason. The steps of `_start` are
separate (`Start` registers, `CreateTask`, `Entered`): a cancellation can fall
between any two. `Absorbs` is `should_absorb`, which decides by the count of
cancellations, not by the reason, whether a step keeps a CancelledError.
`sv`, `write`, `final`, `file` are the callers of `save()`, the checkpoint being
written and what each path holds; `Release` is `_release_pending_saves`.

### Workflow

`order` is the result of `compile()`; `pc` says where the walk is in each node,
`env` which outputs references can read, `rec` the records in the session.
`Recall` is the memo branch of `execute`, `Open`/`Close` a container, `Abort`
and `FailUp` the task group of a fan-out under `on_child_error="fail"`,
`Continues` the stand-in
for a failed branch. An output is the number of the body
run that produced it with the outputs it was computed from, so that outputs that
do not belong together can be told apart.

### Tools and Files

`calls` holds how far each call is; `tree` the process tree of a shell call and
how far `kill_tree` is with it; `cleanups` and `waits` are the detached tasks and
what `drain_cleanups` waits for. The result that goes to the transcript (`kept`,
`message`) and the events that tell the screen (`heard`) are separate variables,
because they are separate in the code. A result, good or not, is of no size or of the
size its call declares, since a command that fails or is killed returns its output;
`Tell` charges it to the turn's budget. Tools that change the world are not retried,
except `risky`, which declares `unsafe_allow_retry`; the command declares it too, in
vain. In `Files` a version is the time of a
write; a tool's `run()` never awaits, so agents do not interleave inside it
(`held`), but other programs do.

### EventBus, Approvals, Stream, Views

An event is one object in several queues: `EventBus.body` holds its text, which
a merge into one queue changes for all. `post` is the `publish()` each task is
in. `Approvals` has the three places a request lives in (the gate's `pending`,
the handler's `known`, the screen's `modal`, `line` and `screens`) and the event
queue and workers between them; after ctrl+o the calls in the gate of the run it left
(`left`) stay there, known to the handler, which is shared. `Stream` goes from the chunks of a response to
the accumulator and to the panes bound to a call or to an agent. `Views` keeps a
record of what the dispatcher, the gate, the controller and the runner did and
of what each widget folded; `scene` restricts a behaviour to the events of one
widget, which is sound because a widget looks at an event's kind before anything
else.

## 4. Checks

| run | distinct states | what it shows |
|---|---|---|
| `rc_safety` | 711,810 | types; no lost wakeup; PAUSED only on request; structured agents; nothing outlives the run; the run implements `RunLifecycle` |
| `rc_live` | 26,237 | pauses land, interrupts land, runs end |
| `recovery` | 541,462 | conversations stay valid in memory and on disk, requests are well formed; answers agree with what ran, recorded results and accepted texts survive (but those exempt below); one approval, one call; fresh ids; the file advances; every run that is up ends or dies |
| `children` | 3,651,753 | an interrupt ends one child and nothing around it, an unwinding group is not absorbed, no child outlives its node; a `save()` that returned has written; ids are not reused |
| `workflow` | 159,327 | outputs on record agree with each other; inputs are there when a node's turn comes; a paused graph computes nothing; a recorded node is not run again; pauses land |
| `tools` | 822,957 | screen and transcript tell the same; results and failures fit the budget; effects in turn and as often as allowed; a step ends with its commands killed as far as a killing reaches; turns end |
| `files` | 1,419,316 | nobody replaces a version it has not seen, nor another than the one approved |
| `bus` | 254,135 | lifecycle events delivered; losses counted and reported, order kept; every publisher gets on |
| `approvals` | 794,578 | an answer goes to its request; a carried decision is spent once; requests settle |
| `stream` | 839,730 | the message kept is what the last attempt was sent; the pane shows it; one paid response per attempt |
| `views` | 1,647,282 | table, transcript block, agent tree and stage row show what happened, once nothing is on its way |
| `workflow_branch` | violation | after a crash a node that reads a branch of a completed fan-out fails |

Each run takes from a quarter of a minute to three and a half minutes with two workers. Symmetry
is used in `rc_safety`, `files` and `views`, which have no liveness property.
Deadlock is checked except in `children`, `views` and `workflow_branch`, whose
systems end without a step of their own for having ended.

### Bounds

* *RunControl*: a main agent with two turns and two subagents with one, batches
  of two calls. Two children are what a shared parent phase needs; two turns
  give every safe point a successor; two calls give both a concurrent and a
  sequential pair. All commands are enabled at all times and unbounded in
  number. The liveness run has one subagent.
* *Recovery*: one turn for the main agent in each process (after a crash it has
  another), two in a row for the subagent, one text or interrupt anywhere, one
  crash anywhere. A second crash starts from a session file of the same shape.
  Batches have at most one delegate, last: see section 5, and `OneDelegate` in
  section 6.
* *Children*: two children, one pause, one cut, one crash, one `save()` to a
  path of its own beside the automatic one: a second pause is RunControl's, and
  two children are what one sibling can do to another.
* *Workflow*: five graphs of six nodes, with a fan-out inside a subgraph, a
  reader of either, both error policies, a limit of one, and two cycles; one
  failure, two pauses, one crash.
* *Tools*: one agent and turns of three or four calls that put every kind next
  to every other; two parallel calls, a budget of two large results, one retry.
  *Files*: two agents, two paths, room for one record, three writes: the second
  path exists to push the first out of the record.
* *EventBus*: two publishers, two subscribers, queues of one and two, three
  events, one field of text: a full queue, a merge and a drop each need at most
  three. *Approvals*: two calls and one saved request with the parameters of both,
  one switch of mode. *Stream*: agents that keep what was interrupted and agents that
  do not, two attempts, two
  openings, two call slots, three chunks, a pane that keeps two fragments.
* *Views*: two calls, a chain of three agents below a node, a fan-out of two, a
  queue of one event, one row and one block, two parks or approvals: moving a
  row with something below it needs three agents, trimming needs two rows.

### Environment assumptions

* `PauseSettlesWhenCounted` leaves out runs in which an agent is `Miscounted`, `Terminates` runs `Dropped`,
  `PausedRunsNothing` the nodes in `slipped`, `DiskAdvances` writes by the
  thread of a cancelled safe point, `InjectionKept` texts in `blank` (both also agents
  that are `Unclaimed`), `RequestsSettle` the requests in `early` and those of a run
  left with ctrl+o (`left`), `SaveKeepsWord` the saves in `during`, `NoBlindWrite` and `ApprovedIsDone` a write by another program
  inside the call (`raced`), `CallsShown` and `RunShown` what is in `late`. Each
  exemption is a real behaviour, described in section 5.
* `StepEndsClean` (`KilledWhole`) demands of a step that is over that the commands it
  killed are gone with all their processes. It leaves out a killing that was itself cut
  short; descendants of a command that was gone before the killing or ended by itself;
  and a descendant that ignores SIGTERM when the command itself went with that signal.
* `Tools` and `Files` are checked with a dispatcher and a record of reads for each
  agent (`Shared = FALSE`); `Shared = TRUE` violates two properties, see section 5.
* Nobody loads the session of a run that has ended; `load()` does not check.

### Fairness

The event loop runs every ready task, so the steps of agents, nodes, publishers,
readers, workers and the body are weakly fair, and a writer thread finishes.
`_finish()` waits for a lock that interrupts keep taking: `asyncio.Lock` is
first come, first served, hence strong fairness for `BodyDone`. A human answers
requests in the end and whoever loads a session resumes it (Recovery,
Approvals); `Tools.TurnEnds` allows a person never to answer. A tool's body and
the grace time of a kill end (`Tools`); a command need not die of its first
signal. No fairness is assumed of pause, resume, interrupt, cancel, texts,
subscriptions or crashes: `Terminates` speaks of runs in which the pause is
withdrawn again and again, `PauseLands` of a pause that is not.

## 5. What the code does and its documents do not say

`workflow_branch` is kept as a run. The others were seen while modelling, with
TLC or in a trace of an exploratory instance; the properties exempt exactly
them, and nothing else.

*Control.*
An approval answered while the run is PAUSED starts the tool under a run that
still reports PAUSED (`_on_approval_resolved`; `docs/architecture.md` and
`tests/test_quiescence_property.py` define PAUSED as nothing in flight). No
model call follows until the pause is over, which is what `Lifecycle` states.
With two delegates in a batch the first to return sets the shared parent
RUNNING, and a pause does not land while the other child is parked
(`_run_delegate`'s `finally`). An interrupt that lands while a request's
checkpoint is being written leaves the request in the gate, and a later
`resume()` out of PAUSING asks for an illegal transition. An interrupt between
registering a subagent and its task's first step leaves it counted for ever.
`cancel()` right behind `start()` cancels the body's task before its first step, so
that no code of `_run_body` runs and the run stays RUNNING with its task done, until a
second `cancel()`; the same happens to a body that waits for an interrupt's lock to
report its end (`Dropped`).
`resume()` directly followed by `pause()` lets the agents woken by the first
call the model while the run is PAUSED again: `request_pause` closes the gate behind
them, but nothing makes them look again. `Lifecycle` bounds it: each of them begins
one model call, and its next safe point parks it.

*Children and saves.*
A child cut by its group between its registration and its first step stays in
the quiescence map (`Children.lost`), although `context.py` says nothing can
cancel it in between; under `on_child_error="continue"` no later pause lands.
A `save()` made while another checkpoint is being written is released by bytes
older than the call; to another path it may miss the last safe point before a
park and time out although the run is PAUSED, which `save()`'s docstring says is
written at once. An id counted only in memory at a crash is given out again.

*Recovery.*
A delegate in flight at a crash that is not the last call of its batch is
answered twice after the reload (once by `_trailing_subset`, once by its resumed
child) and the run fails. A call approved and running at the crash is reported
as never started, since no safe point lies between the answer and the tool. The
writer thread of a safe point cancelled with its subagent may replace the
terminal session file by an older one. A text sent to a resumed child between
its registration and its first step is lost when the child adopts its restored
state: `_inject` finds the empty `AgentState` of `enter_agent`, queues the text there
and returns its id as for any other. So is all that was sent to a child cancelled
before that step. `blank` and `Unclaimed` name those cases.
With two delegates in a batch the second one's safe point may record the first child
as FINISHED while its delegate is still in flight. After the reload `_restore` leaves
it out of `_restored`, `_resume_delegates` runs it all the same, and `enter_agent`
replaces its state by an empty one: its transcript and the texts accepted for it are
gone. In an exploratory instance with two subagents TLC finds `InjectionKept` and
`DiskAdvances` violated in this way. Both deferred children are also tied to the same
call, the last delegate still open (`_resumable_delegate`).

*Workflow.*
After a reload a completed fan-out is recalled from the memo as a whole: its
branches are not walked and their outputs are not set, so a later node that
reads one of them fails (`workflow_branch`). Under `"continue"` a result that
cannot be serialized becomes a NodeFailure, and a failed branch is recorded
failed twice, then completed.

*Tools and files.*
AgentNodes of one graph use the graph's dispatcher, hence one set of cleanups
and one record of reads: one agent's drain takes the other's cleanups, whose
step then ends with its process alive, and a file one of them read may be
overwritten by the other without having seen it (`Shared = TRUE` violates
`StepEndsClean` and `NoBlindWrite`). `kill_tree` sends SIGKILL only if the direct
child survives the first signal: a descendant that ignores SIGTERM outlives a command
that does not, although its docstring says every process the command started is
terminated. A result whose last event is being emitted when
its step is cut is lost to the transcript. The time of a file is taken after its
content is read, so a write in between is never noticed.

*Bus, approvals, stream, screen.*
A delta merged into the tail of one full queue changes the event object the
other queues hold, a recorder's too, although `ModelDelta`'s docstring says a
recorder sees the true stream; no text is lost unseen (`StreamHolds`). An event
whose publisher waited can be queued behind later ones of other publishers.
Requests restored by ctrl+o while a modal is up are popped from the queue and
dropped, because the queue is drained of what the handler does not know; a
withdrawal can overtake a queued request and leave a dead modal.
A request of which the application hears before the handler has noted it, while
another subscriber holds up the publisher, is dropped in the same way (`early`).
ctrl+o attaches to another run without ending the first: the calls that wait in the
first one's gate wait for ever, their modals stay, and what is answered there goes to
the new controller, which does not know the request (`left`).
A pane bound to an agent keeps the text of a failed attempt. In the agent tree a
descendant two levels below a moved row is missing until its own next event; a
late answer can show a finished agent as blocked and an ended call as running; a
branch that failed under `"continue"` counts three times in its stage's row.

## 6. Proofs

`RunControlProofs` proves for any agents, turns, plans and commands:

* `TypeCorrect`: `Spec => []TypeOK`. `TypeOK` is inductive; one lemma per
  operator several actions share (`MoveToType`, `LeaveType`, `AnswerType`, ...).
* `WakeupsAreNotLost`: `Spec => []NoLostWakeup`, over the window in `_park` too.
* `PausedIsRequested`: `Spec => []PausedOnRequest`.

The last two share the invariant `PauseInv`. `PausedOnRequest` is not inductive:
`interrupt()` remembers the state it found and restores it later, so the proof
adds `RestoresOnRequest`, that a remembered PAUSED is still on request. An
action preserves it because `resume()` needs the lock the interrupt holds, and
`release()` on `cancel()` is covered by `cancelling`.

Its second part is about the tree of waiting agents:

* `AgentsAreAwaited`: `Spec => []NoOrphan`;
* `EndsQuiet`: `Spec => []TerminalIsQuiet`;
* `ImplementsLifecycle`: `Spec => Lifecycle`, the refinement of `RunLifecycle`, step
  by step and without fairness.

`TreeInv` is their invariant. That each live agent has a call that waits for it is
not enough: when a run ends its root has returned, and nothing local says that
the agents further down are gone. `Rooted` says it without induction over the
depth: a set of live agents each awaited from within the set is empty.
`BatchesKept` ties a delegate call that runs to a child that was born, and
`GateAtSafePoint` says where an agent can be parked. `ModelPhase` adds for the
refinement that an agent inside a model call is accounted `blocked_io`, so that
PAUSED, declared with nobody counted, is declared with nobody spending; the rest
comes from `PauseInv` and `TreeInv`.

Its last part draws the consequences, which are shown of the abstract run and so
hold, by `ImplementsLifecycle`, of every run of `RunControl`: `EndsOnce` (a run that
ended keeps its state) and `PausedIsFree`, which is as much as the code keeps of
"PAUSED means nothing in flight": PAUSED is reported only while a pause is in force
(`PausedIsHeld`), it is declared with nobody spending, but for the PAUSED an
interrupt puts back (`LandsFree`), and while a pause is in force only agents a resume
had let go begin a model call, each once (`HeldSpendsReleased`). A run being
cancelled is let through the gate.

`WorkflowProofs` proves, for any tree of nodes, any graph that compiles and any
number of failures, pauses and crashes:

* `PausedIsQuiet`: `Spec => []PausedRunsNothing`;
* `InputsAreHeld`: `Spec => []InputsHold`;
* `KeptIsFinal`: `Spec => KeptNotRerun`.

The assumptions say what the builder makes: every node is a root or is in one place
of one container, containers are nested without a cycle (a node's id is the path
to it), what `fan_out()` and `map()` put below a node has nothing below itself and
refers to its container's input only, and the nodes of a subgraph, which was
compiled by itself, refer to what comes before them in it. `Inward` and `Outward`
are induction over such a tree, stated with sets; `BelowIs`, `TopFacts` and
`Compiled` show that the recursive definitions of the model have the values
their equations give (for `Compiled`: if no pass over the roots is empty, the order
has every root once, after what it refers to).

`WalkInv` is where the runner is; the lemma `Kinds` lists what one step does to the
places of the walk, and most of the steps below go by it. `HaltInv` relates the
quiescence map to the places: a body at work is accounted for, so a settled pause
leaves only what a resume released. `RecordsInv` is about every document, those on
their way to the file included: what a record was computed from is on record with it
(`Sound`), and whatever is under way was read by nobody (`Free`), so that its next
output replaces none that was used. `TreeInv`, proved as `TreeHolds`, says that
whatever is under way has everything that contains it waiting. `KeptNotRerun` needs
all of them: when a branch is cut while its checkpoint is being written, the write
still lands (`LateWrite`), after writes that came later. That would undo a completion,
were anything to complete in between; `Stuck` says that nothing can: the only
nodes that are not at rest are those above the fan-out, and each of them fails.
(If a fan-out could stand inside another one's branch, which the builder excludes,
the branches beside it would go on and a completion could be lost.)

`ToolsProofs` proves, for any finite set of agents and any turns of which one is
longest:

* `EffectsAreInTurn`: `Spec => []EffectsInTurn`;
* `StepsEndClean`: `~Shared => (Spec => []StepEndsClean)`;
* `ScreenAndTranscriptAgree`: `Spec => []ScreenAgrees`;
* `ResultsAreWhole`: `Spec => []ResultsHold`, the former and the budget.

A tool that overrides the ban on retries is retried as often as it declares; the
command is not. `StepsEndClean` claims of descendants what `KilledWhole` says (section
4, environment).

`EffectsInv` carries the first. `CallsHold` says per call what its phase tells of
the runs so far and of its command (a gated call never rests before a retry, a
refused one never ran, a command is alive only while its call runs, is being
stopped or was cut); `BehindOver` that a call which has begun has only parallel
ones or calls that are over before it; `InParallel` is kept because the one step
that lets a call in asks for room, and the crowd after it is the crowd before it
and one more. `CleanupsHold` says of a command that outlives its cut call that a
cleanup is killing it and that the step's drain has that cleanup still before it
(`~Shared`: with one dispatcher for several agents another agent's drain may take
the cleanup over, and the step it belongs to ends without it). `ToldHold` says
for each call how far it is, what was heard of it, and what is kept; the
transcript is written from what is kept. `BudgetHolds` is about two sums: what the
calls of a turn were charged is at most what the budget has given out, and what the
model is sent is at most what was charged, since a result that is kept was charged
and a call cut after its charge is charged without being kept. (That the sums
`SumTo` computes grow with their terms is `SumGrows` and its neighbours, by
induction over an interval as a set.)

`ChildrenProofs` proves, for any number of subagents, cuts and crashes, any paths
and any finite set of saves, each writer having a name of its own:

* `GroupIsStructured`: `Spec => []Structured`;
* `SavesAreWritten`: `Spec => []SaveKeepsWord`;
* `IdsAreFresh`: `Spec => []IdsNotReused`.

`GroupInv` carries the first. That a child absorbs its own interrupt and nothing
else depends on how often it was cut and in which order, so `KidHolds` counts:
as long as nothing unwinds the group a child is cut only by its own interrupt,
once (`CutByItself`); a child that the group cut has a cut more than its own
interrupt accounts for, and does not absorb (`CutTwice`). `GroupHolds` ties the
group to the body: it is closed exactly from the body's end to the node's, and
then no task of it is alive. `CountHolds` adds the other direction of
`WorkIsCounted`: who is in the quiescence map is at work, or was cut before its
loop could enter. `SavesInv` says of the checkpoint in writing that it is of
every save asked before it, and of a run that ended that one checkpoint more is
coming for whoever waits. `IdsInv` is a chain of four counters: what a reload may
count from (the file) is at most what the record says, which is at most what the
node has given out; ids that a written snapshot counts lie below the file's. A
child's checkpoint serialises the node's record as it is, so the file never runs
ahead of it.

`EventBusProofs` proves, for any publishers, subscribers, capacity and events, each
early subscription made once:

* `LifecycleIsNotDropped`: `Spec => []LifecycleDelivered`;
* `StreamIsWhole`: `Spec => []StreamHolds`.

The invariant of the first adds only types and `StoppedForAll`, that `close()` leaves
nobody open whom an event was for. The work is in the steps: an event stays `Due` to
a subscriber wherever it passes on, from the publisher's list to the queue to what
was read, and the room a full queue makes by dropping is made of deltas.

`StreamInv` carries the second. What a subscriber read and what it has queued is one
line, whose places `get()` keeps; `OrderHolds` says that each publisher's events are
in order along it, and that the event a publisher waits with comes after all of its
own that are there: without that a publisher woken late could overtake itself.
`WaitersHold`, that a publisher waits with a lifecycle event of its own and reaches
each subscriber once, is why no event enters a queue twice. `TextsHold` says that a
merge joins text of one stream, in a queue and where the text has been read;
`BalanceHolds` that markers read, markers queued and losses not yet reported add up
to the losses, and that a loss nobody was told of has something in the queue for its
marker to follow. The sums are recursive functions; `Induction` and `Recursion`
show that such a function has the values its equations give.

`RecoveryProofs` proves, for any agents, any lists of calls and any number of
crashes:

* `ApprovalsAreSpentOnce`: `Spec => []OneApproval`;
* `NumbersAreFresh`: `Spec => FreshChild`;
* `TextsAreKept`: `OneDelegate` implies `Spec => []InjectionKept`;
* `FileAdvances`: `OneDelegate` implies `Spec => DiskAdvances`.

`TextsAreKept` is about every text `_inject` accepted, those in `blank` and of agents
that are `Unclaimed` exempt by name (section 5); `NumbersAreFresh` about ids the
running process knows. `OneDelegate` says that no batch of the main agent has two
delegates. The last two are false without it, see section 5; the first two do not
need it.

`ApprovalsHold` counts, across processes, the gated calls that ran and the approval
that waits for a call: together they are at most the approvals given. A crash can only
lose the one that waits.

`TypesHold` is the type invariant of Recovery, with what ties a turn to its batch: the
calls in progress are those of the last message, and a delegate that runs has its
child. `Steps` and `Docs` sort what a step may do to the agents and to the session
documents, in memory and on their way to the file, and the proofs that follow go by
them. `NumbersHold` is the invariant of the second theorem: an agent whose number the
main agent has not given out yet is unknown, is at no place, and is named neither by
a batch, nor by a delegate to be resumed, nor by any session. The documents have to be
in it because an agent that only a session names comes back with `load()`.

`TreeHolds` is where `OneDelegate` is used. Agents under way are live and the main
agent waits for them; subagents have no agents of their own; at most one delegate is
left to be resumed, and its agent is live and has not claimed its state; a session
that can be loaded has at most one delegate in flight, of a live agent. The last part
holds because an agent that has finished is in a session as finished only when
another safe point is folded while its delegate is still in flight, and there is
none: the main agent waits, no other subagent is at work, and the gated calls of a
batch, whose checkpoints are written while they wait, run before the delegate starts
or after it is over (`BatchHolds`, `FoldAlone`).

`TextsHold` says of memory and of every session document that the texts of an agent
are in order, none is later than the last one sent and an agent nobody knows has
none, and of memory that what was accepted is there. `DocsHold` says that every
document holds a beginning of what the agents' transcripts hold now, and of what the
document being written holds; `SilentHolds`, that an agent nobody knows has said
nothing.

`ApprovalsProofs` proves, for any requests and any finite session of them:

* `AnswersAreForTheirRequest`: `Spec => []AnsweredForItself`. `ToldInv` follows a
  decision from the key press: the screens, the workers behind them and the
  futures hold nothing but what somebody said of that request;
* `CarriedIsSpentOnce`: `Spec => []CarriedOnce`. `Counted` adds up, for each key,
  the calls that used a carried decision, the decision that waits to be used and
  the restored requests still open: together never more than the session had.

`FilesProofs` proves, for any agents, any paths and any bound on the record of
reads, each agent having a record of its own (`~Shared`):

* `SeenBeforeReplaced`: `Spec => NoBlindWrite`;
* `DoneAsShown`: `Spec => ApprovedIsDone`.

Both say of a step what the check before it said of an earlier moment, so the
invariant `WriteInv` carries it there. `EntriesKnown`: an entry that names the
version the file has is knowledge of that version; since versions only grow, an
entry that became stale never becomes current again, and forgetting entries
(`LastOf`) only loses knowledge. `QuestionsHold`: while a question is open, an
entry that is still current is of the version the diff was shown for.
`CallsHold`: what the second check found holds to the end of the call, because
the event loop is held or another program's write is on record in `raced`. The
assumption is needed: with `Shared = TRUE` TLC finds both violated, see
section 5.

All rest on the named assumptions on constants, which TLC evaluates in each run.
Only model-checked: `ConversationsHold` and `AnswersHold` of Recovery, which need the
calls and answers of a transcript followed through the recursive functions that
gather them, and the properties of Stream and Views; these could be proved and are
not yet. Liveness (`rc_live`, and the leads-to properties of the other runs) and
`ENABLED` are out of the prover's reach.

## 7. Not modelled, and the plan

Left out, with the reason:

* search, web and listing tools, the model catalogue cache, the status bar, the
  diff view, the prompt and the key bindings: input, output and layout, with no
  state that two actors share;
* HTTP and SSE syntax, message translation, JSON schemas, templates, usage and
  cost totals: data the properties do not tell apart;
* the Windows branches (job objects, the retry loop of `os.replace`), values
  spilled to files, the graph's hash and the drift check, `ctx.custom`, `rng()`;
* `StdinApprovalHandler`'s reader thread, which may outlive its prompt, and the
  calls a run left with ctrl+o makes after that;
* an interrupt or a cancel of a whole graph run: `Children` has it for a node.

What would come next:

1. proofs: the conversations and answers of Recovery, then Stream and Views;
2. auto mode and two delegates in a batch in Recovery, with the failing
   combination left out;
3. Workflow with agents as leaves, their own safe points and a cancelled run.
