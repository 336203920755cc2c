----------------------------- MODULE RunControl -----------------------------
(***************************************************************************)
(* One run under control: the Controller with its state machine, its       *)
(* quiescence tracker and its approval gate (azalabscode/control), and the *)
(* agent loops it drives (azalabscode/workflows/agent_loop.py), with the   *)
(* user's commands arriving at any moment.                                 *)
(*                                                                         *)
(* The program is one asyncio event loop.  A step of this module is the    *)
(* code between two awaits that really wait: the checkpoint write of a     *)
(* safe point, the pause gate, an approval, a model stream, a tool, a      *)
(* child agent.  Emitting an event waits only while a subscriber's queue   *)
(* is full; that wait is modelled where state is held across it: in        *)
(* interrupt(), with a transient state and the command lock, and in an     *)
(* agent that parks, between its look at the pause and its wait.           *)
(*                                                                         *)
(* Messages, prompts and results are left out: what a model turn decides   *)
(* here is only which calls it asks for.                                   *)
(***************************************************************************)
EXTENDS RunState, Naturals, FiniteSets

CONSTANTS Agents,       \* agent ids that can come to exist
          Main,         \* the agent the run body runs
          NoAgent,      \* "no child": a call that has not delegated
          MaxTurns,     \* AgentSpec.max_turns of each agent
          MaxCalls,     \* bound: tool calls in one assistant message
          Plans,        \* the call lists a model turn may answer with
          SafeKinds,    \* kinds of call whose tool is concurrency-safe
          InitialMode,  \* permission mode the run starts in
          Commands      \* the commands the user may issue

Calls == 1..MaxCalls

\* "leaf": no approval needed.  "gated": needs approval.  "none": no such call.
Kinds == {"leaf", "gated", "delegate", "none"}

ASSUME AgentsAssumption == Main \in Agents /\ NoAgent \notin Agents
ASSUME BoundsAssumption == MaxTurns \in [Agents -> Nat \ {0}] /\ MaxCalls \in Nat
ASSUME PlansAssumption == Plans \subseteq [Calls -> Kinds] /\ SafeKinds \subseteq Kinds
ASSUME CommandsAssumption ==
  /\ Commands \subseteq {"start", "pause", "hard", "resume", "interrupt", "mode",
                         "resolve", "cancel"}
  /\ InitialMode \in {"manual", "auto"}

VARIABLES
  run,         \* RunStateMachine.state
  task,        \* the body's asyncio task: "none", "created", "running", "done"
  intr,        \* an interrupt() in progress, holding the command lock, or NoIntr
  requested,   \* QuiescenceTracker.pause_requested; the gate is open iff it is FALSE
  seen,        \* Controller._agents_seen
  mode,        \* RuntimePermissionGate.mode
  pending,     \* RuntimePermissionGate._pending: <<turn, call>> of Main
  cancelling,  \* Controller._cancelling
  failed,      \* the run body raised
  phase,       \* QuiescenceTracker.phases; "gone" when the agent is not registered
  loc,         \* where the agent's coroutine is suspended
  gate,        \* "no", "parking": PARKED is being reported, "waiting" at the pause gate,
               \* "open": woken, not yet run
  cut,         \* "no", "step": its step is being cancelled, "agent": it is
  turns,       \* turns started
  plan,        \* the calls of the current turn
  call,        \* how far each call is
  child        \* the child agent each delegate call waits for

runVars == <<run, task, intr, requested, seen, mode, pending, cancelling, failed>>
agentVars == <<phase, loc, gate, cut, turns, plan, call, child>>
vars == <<runVars, agentVars>>

NoIntr == [on |-> FALSE, previous |-> "created"]
LockFree == intr = NoIntr
Terminal == run \in TerminalStates

Locs == {"unborn", "spawned", "turn", "model", "post", "tools", "after", "exited"}
SafeLocs == {"turn", "post", "after"}     \* turn_start, after_model_call, after_tool_batch
CallStates == {"queued", "requesting", "asking", "running", "done"}

CallsOf(a) == {i \in Calls : plan[a][i] # "none"}
\* Mutation of AllDone: a batch does not wait for its children.
AllDoneButChildren(a) ==
  \A i \in CallsOf(a) : call[a][i] = "done" \/ plan[a][i] = "delegate"
AllDone(a) == \A i \in CallsOf(a) : call[a][i] = "done"

-----------------------------------------------------------------------------
(* Quiescence and the state machine *)

\* Mutation of Quiet: an agent doing I/O does not hold a pause up.
QuietDespiteIO(ph) ==
  \A a \in Agents : ph[a] \in {"gone", "blocked_io"} \/ IsQuiescent(ph[a])

\* Mutation of Quiet: an agent that waits for a child holds a pause up.
QuietButParents(ph) ==
  \A a \in Agents : ph[a] = "gone" \/ (IsQuiescent(ph[a]) /\ ph[a] # "blocked_on_child")

\* nonquiescent = 0: an agent that is not registered does not count.
Quiet(ph) == \A a \in Agents : ph[a] = "gone" \/ IsQuiescent(ph[a])

\* Mutation of Settled: PAUSED is declared whether or not a pause was requested.
SettledUnrequested(r, ph, req) ==
  IF Quiet(ph) /\ r \in {"pausing", "waiting_approval", "interrupting"}
  THEN "paused" ELSE r

\* _settle_pause(): the state the run is in after it ran.
Settled(r, ph, req) ==
  IF /\ req /\ Quiet(ph)
     /\ seen \/ task \notin {"created", "running"}
     /\ r \in {"pausing", "waiting_approval", "interrupting"}
  THEN "paused" ELSE r

\* phase(a, p), with the coroutine of a now suspended at l.
MoveTo(a, l, p) ==
  /\ loc' = [loc EXCEPT ![a] = l]
  /\ phase' = [phase EXCEPT ![a] = p]
  /\ run' = Settled(run, phase', requested)

\* exit_agent(): out of the count.
Leave(a) == MoveTo(a, "exited", "gone")

\* The transition both approval hooks make once nothing is pending.
AfterApproval(r, pend) ==
  IF r = "waiting_approval" /\ pend = {} /\ ~requested THEN "running" ELSE r

NoCalls == [i \in Calls |-> "none"]

\* The calls of a's turn are over, and nothing of them is read again.
ForgetCalls(a) ==
  /\ plan' = [plan EXCEPT ![a] = NoCalls]
  /\ call' = [call EXCEPT ![a] = [i \in Calls |-> "done"]]
  /\ child' = [child EXCEPT ![a] = [i \in Calls |-> NoAgent]]

-----------------------------------------------------------------------------
Init ==
  /\ run = "created" /\ task = "none" /\ intr = NoIntr
  /\ requested = FALSE /\ seen = FALSE
  /\ mode = InitialMode /\ pending = {}
  /\ cancelling = FALSE /\ failed = FALSE
  /\ phase = [a \in Agents |-> "gone"]
  /\ loc = [a \in Agents |-> "unborn"]
  /\ gate = [a \in Agents |-> "no"]
  /\ cut = [a \in Agents |-> "no"]
  /\ turns = [a \in Agents |-> 0]
  /\ plan = [a \in Agents |-> NoCalls]
  /\ call = [a \in Agents |-> [i \in Calls |-> "done"]]
  /\ child = [a \in Agents |-> [i \in Calls |-> NoAgent]]

-----------------------------------------------------------------------------
(* The body and the agent loop *)

\* The task's first step: the body runs the main agent, which registers.
BodyStart ==
  /\ task = "created"
  /\ task' = "running" /\ seen' = TRUE
  /\ phase' = [phase EXCEPT ![Main] = "running"]
  /\ loc' = [loc EXCEPT ![Main] = "turn"]
  /\ turns' = [turns EXCEPT ![Main] = 1]
  /\ UNCHANGED <<run, intr, requested, mode, pending, cancelling, failed,
                 gate, cut, plan, call, child>>

\* A delegated agent's own task takes its first step and registers again.
ChildStart(a) ==
  /\ loc[a] = "spawned" /\ cut[a] = "no"
  /\ phase' = [phase EXCEPT ![a] = "running"]
  /\ loc' = [loc EXCEPT ![a] = "turn"]
  /\ turns' = [turns EXCEPT ![a] = 1]
  /\ UNCHANGED <<runVars, gate, cut, plan, call, child>>

\* Mutation of NextTurn: one turn more than max_turns.
NextTurnOffByOne(a) ==
  IF turns[a] <= MaxTurns[a]
  THEN MoveTo(a, "turn", "running") /\ turns' = [turns EXCEPT ![a] = @ + 1]
  ELSE Leave(a) /\ UNCHANGED turns

\* The next iteration of the loop, or the end of the agent after max_turns.
NextTurn(a) ==
  IF turns[a] < MaxTurns[a]
  THEN MoveTo(a, "turn", "running") /\ turns' = [turns EXCEPT ![a] = @ + 1]
  ELSE Leave(a) /\ UNCHANGED turns

\* What follows a safe point: the model call, the tool batch, the next turn.
PassSafePoint(a) ==
  \/ loc[a] = "turn" /\ MoveTo(a, "model", "blocked_io") /\ UNCHANGED turns
  \/ loc[a] = "post" /\ CallsOf(a) # {}
       /\ MoveTo(a, "tools", "blocked_io") /\ UNCHANGED turns
  \/ loc[a] = "post" /\ CallsOf(a) = {} /\ Leave(a) /\ UNCHANGED turns
  \/ loc[a] = "post" /\ CallsOf(a) = {} /\ NextTurn(a)    \* a text waits for the agent
  \/ loc[a] = "after" /\ NextTurn(a)

\* The safe point's write is over: if a pause is pending the agent is counted as
\* parked and reports it, else it goes on.
SafePoint(a) ==
  /\ loc[a] \in SafeLocs /\ gate[a] = "no" /\ cut[a] = "no"
  /\ IF requested
     THEN /\ phase' = [phase EXCEPT ![a] = "parked"]
          /\ gate' = [gate EXCEPT ![a] = "parking"]
          /\ UNCHANGED <<run, loc, turns>>
     ELSE PassSafePoint(a) /\ UNCHANGED gate
  /\ UNCHANGED <<task, intr, requested, seen, mode, pending, cancelling, failed,
                 cut, plan, call, child>>

\* Mutation of ParkOn: it sleeps although the gate was opened meanwhile.
ParkOnBlindly(a) ==
  /\ gate[a] = "parking" /\ cut[a] = "no"
  /\ gate' = [gate EXCEPT ![a] = "waiting"]
  /\ run' = Settled(run, phase, requested)
  /\ UNCHANGED <<task, intr, requested, seen, mode, pending, cancelling, failed,
                 phase, loc, cut, turns, plan, call, child>>

\* PARKED is reported: the pause settles, and the agent waits at the gate, unless the
\* pause was withdrawn meanwhile.
ParkOn(a) ==
  /\ gate[a] = "parking" /\ cut[a] = "no"
  /\ IF requested
     THEN /\ gate' = [gate EXCEPT ![a] = "waiting"]
          /\ run' = Settled(run, phase, requested)
          /\ UNCHANGED <<phase, loc, turns>>
     ELSE gate' = [gate EXCEPT ![a] = "no"] /\ PassSafePoint(a)
  /\ UNCHANGED <<task, intr, requested, seen, mode, pending, cancelling, failed,
                 cut, plan, call, child>>

\* Event.wait() returns in the woken agent, which does not look at the gate again.
Wake(a) ==
  /\ gate[a] = "open" /\ cut[a] = "no"
  /\ gate' = [gate EXCEPT ![a] = "no"]
  /\ PassSafePoint(a)
  /\ UNCHANGED <<task, intr, requested, seen, mode, pending, cancelling, failed,
                 cut, plan, call, child>>

\* The stream ended; the assistant message asks for the calls p.
ModelDone(a) ==
  /\ loc[a] = "model" /\ cut[a] # "agent"
  /\ \E p \in Plans : plan' = [plan EXCEPT ![a] = p]
  /\ call' = [call EXCEPT ![a] = [i \in Calls |-> "queued"]]
  /\ child' = [child EXCEPT ![a] = [i \in Calls |-> NoAgent]]
  /\ cut' = [cut EXCEPT ![a] = "no"]
  /\ MoveTo(a, "post", "running")
  /\ UNCHANGED <<task, intr, requested, seen, mode, pending, cancelling, failed,
                 gate, turns>>

\* The provider failed for good.  In a child the delegate tool turns the error
\* into a result; in the main agent it fails the run.
ModelFail(a) ==
  /\ loc[a] = "model" /\ cut[a] # "agent"
  /\ failed' = (failed \/ a = Main)
  /\ cut' = [cut EXCEPT ![a] = "no"]
  /\ Leave(a)
  /\ UNCHANGED <<task, intr, requested, seen, mode, pending, cancelling,
                 gate, turns, plan, call, child>>

\* An interrupted model call: the partial answer keeps no calls, next turn.
ModelCut(a) ==
  /\ loc[a] = "model" /\ cut[a] = "step"
  /\ cut' = [cut EXCEPT ![a] = "no"]
  /\ NextTurn(a)
  /\ UNCHANGED <<task, intr, requested, seen, mode, pending, cancelling, failed,
                 gate, plan, call, child>>

-----------------------------------------------------------------------------
(* The tool batch *)

\* partition_runs(): a call runs with those of its own unbroken stretch of
\* concurrency-safe calls and after every call before it.
CanStart(a, i) ==
  \A j \in CallsOf(a) : j < i =>
    \/ call[a][j] = "done"
    \/ \A k \in CallsOf(a) : j <= k /\ k <= i => plan[a][k] \in SafeKinds

StartCall(a, i) ==
  /\ loc[a] = "tools" /\ cut[a] = "no"
  /\ i \in CallsOf(a) /\ call[a][i] = "queued" /\ CanStart(a, i)

SetCall(a, i, s) == call' = [call EXCEPT ![a][i] = s]

\* A call that needs no human: it runs, or it is refused at once (a gated tool
\* asked for by a subagent in manual mode, a delegate with nobody to delegate to).
RunCall(a, i) ==
  /\ StartCall(a, i)
  /\ \/ plan[a][i] = "leaf" /\ SetCall(a, i, "running")
     \/ plan[a][i] = "gated" /\ mode = "auto" /\ SetCall(a, i, "running")
     \/ plan[a][i] = "gated" /\ mode = "manual" /\ a # Main /\ SetCall(a, i, "done")
     \/ plan[a][i] = "delegate" /\ (\A c \in Agents : loc[c] # "unborn")
          /\ SetCall(a, i, "done")
  /\ UNCHANGED <<runVars, phase, loc, gate, cut, turns, plan, child>>

\* _run_delegate(): the child is registered and the parent goes
\* blocked_on_child before the child's task exists.
Delegate(a, i) ==
  /\ StartCall(a, i) /\ plan[a][i] = "delegate"
  /\ \E c \in Agents \ {Main} :
       /\ loc[c] = "unborn"
       /\ child' = [child EXCEPT ![a][i] = c]
       /\ loc' = [loc EXCEPT ![c] = "spawned"]
       /\ phase' = [phase EXCEPT ![c] = "running", ![a] = "blocked_on_child"]
  /\ SetCall(a, i, "running")
  /\ run' = Settled(run, phase', requested)
  /\ UNCHANGED <<task, intr, requested, seen, mode, pending, cancelling, failed,
                 gate, cut, turns, plan>>

\* gate.check() for Main in manual mode: the request is pending, the agent
\* waiting_approval, the run WAITING_APPROVAL; its checkpoint is being written.
Ask(i) ==
  /\ StartCall(Main, i) /\ plan[Main][i] = "gated" /\ mode = "manual"
  /\ pending' = pending \cup {<<turns[Main], i>>}
  /\ SetCall(Main, i, "requesting")
  /\ phase' = [phase EXCEPT ![Main] = "waiting_approval"]
  /\ LET r == Settled(run, phase', requested)
     IN  run' = IF r = "running" THEN "waiting_approval" ELSE r
  /\ UNCHANGED <<task, intr, requested, seen, mode, cancelling, failed,
                 loc, gate, cut, turns, plan, child>>

\* The approval's checkpoint is on disk; the handler shows the request.
AskHandler(i) ==
  /\ loc[Main] = "tools" /\ cut[Main] = "no" /\ call[Main][i] = "requesting"
  /\ SetCall(Main, i, "asking")
  /\ UNCHANGED <<runVars, phase, loc, gate, cut, turns, plan, child>>

\* A tool returns.
FinishCall(a, i) ==
  /\ loc[a] = "tools" /\ i \in CallsOf(a)
  /\ call[a][i] = "running" /\ plan[a][i] # "delegate"
  /\ SetCall(a, i, "done")
  /\ UNCHANGED <<runVars, phase, loc, gate, cut, turns, plan, child>>

\* The parent's call task sees that the child's task is over.
CollectChild(a, i) ==
  /\ loc[a] = "tools" /\ i \in CallsOf(a)
  /\ call[a][i] = "running" /\ plan[a][i] = "delegate"
  /\ loc[child[a][i]] = "exited"
  /\ SetCall(a, i, "done")
  /\ MoveTo(a, "tools", "running")
  /\ UNCHANGED <<task, intr, requested, seen, mode, pending, cancelling, failed,
                 gate, cut, turns, plan, child>>

\* _tool_step() ends, its step completed or cut: the turn's results are written.
FinishBatch(a) ==
  /\ loc[a] = "tools" /\ cut[a] # "agent" /\ AllDone(a)
  /\ cut' = [cut EXCEPT ![a] = "no"]
  /\ ForgetCalls(a)
  /\ MoveTo(a, "after", "running")
  /\ UNCHANGED <<task, intr, requested, seen, mode, pending, cancelling, failed,
                 gate, turns>>

-----------------------------------------------------------------------------
(* Cancellation unwinding through the tree of tasks *)

\* Mutation of ChildrenOf: a cut does not reach the children.
ChildrenSpared(a) == {}
\* The agents the calls of a still wait for.
ChildrenOf(a) == {child[a][i] : i \in {j \in CallsOf(a) : call[a][j] = "running"}}

LiveDelegate(a, i) == /\ plan[a][i] = "delegate" /\ call[a][i] = "running"
                      /\ loc[child[a][i]] # "exited"

\* CancelledError reaches the calls of a batch: tools end, a request whose handler
\* was called is withdrawn, a child still running is cancelled in its turn.
Propagate(a) ==
  /\ loc[a] = "tools" /\ cut[a] # "no"
  /\ \E i \in CallsOf(a) : /\ call[a][i] # "done"
                           /\ plan[a][i] = "delegate" /\ call[a][i] = "running"
                                => LiveDelegate(a, i) /\ cut[child[a][i]] # "agent"
  /\ call' = [call EXCEPT ![a] = [i \in Calls |->
                IF plan[a][i] = "delegate" /\ call[a][i] = "running"
                THEN "running" ELSE "done"]]
  /\ cut' = [c \in Agents |-> IF c \in ChildrenOf(a) /\ loc[c] # "exited"
                              THEN "agent" ELSE cut[c]]
  /\ pending' = pending \ {<<turns[a], i>> : i \in {j \in Calls : call[a][j] = "asking"}}
  /\ UNCHANGED <<run, task, intr, requested, seen, mode, cancelling, failed,
                 phase, loc, gate, turns, plan, child>>

\* The cancelled agent's coroutine ends, once its own batch has.  A child cancelled
\* before its task's first step never runs a line: nothing deregisters it.
Unwind(a) ==
  /\ cut[a] = "agent" /\ loc[a] \notin {"unborn", "exited"}
  /\ loc[a] = "tools" => AllDone(a)
  /\ cut' = [cut EXCEPT ![a] = "no"]
  /\ gate' = [gate EXCEPT ![a] = "no"]
  /\ IF loc[a] = "spawned"
     THEN loc' = [loc EXCEPT ![a] = "exited"] /\ UNCHANGED <<run, phase>>
     ELSE Leave(a)
  /\ ForgetCalls(a)
  /\ UNCHANGED <<task, intr, requested, seen, mode, pending, cancelling, failed,
                 turns>>

\* Mutation of BodyDone: the gate keeps its requests when the run ends.
BodyDoneKeepsRequests ==
  /\ task = "running" /\ loc[Main] = "exited" /\ LockFree
  /\ task' = "done"
  /\ run' = CASE cancelling -> "cancelled"
              [] failed -> "failed"
              [] OTHER -> "completed"
  /\ UNCHANGED <<intr, requested, seen, mode, pending, cancelling, failed, agentVars>>

\* _run_body() ends: _finish() takes the command lock and moves to the terminal
\* state, through RUNNING when the table asks for it; the gate drops its requests.
BodyDone ==
  /\ task = "running" /\ loc[Main] = "exited" /\ LockFree
  /\ task' = "done"
  /\ run' = CASE cancelling -> "cancelled"
              [] failed -> "failed"
              [] OTHER -> "completed"
  /\ pending' = {}
  /\ UNCHANGED <<intr, requested, seen, mode, cancelling, failed, agentVars>>

-----------------------------------------------------------------------------
(* The user's commands *)

May(c) == c \in Commands

\* request_cancel() on every in-flight step of the agents in A.
CutSteps(A) ==
  [a \in Agents |-> IF a \in A /\ loc[a] \in {"model", "tools"} /\ cut[a] = "no"
                    THEN "step" ELSE cut[a]]

\* Mutation of OpenGate: the gate opens and nobody is woken.
OpenGateUnheard == gate
\* release(): every agent asleep at the gate is woken.
OpenGate == [a \in Agents |-> IF gate[a] = "waiting" THEN "open" ELSE gate[a]]

Start ==
  /\ May("start") /\ task = "none" /\ ~Terminal
  /\ task' = "created"
  /\ run' = IF run = "created" THEN (IF requested THEN "pausing" ELSE "running")
                               ELSE run
  /\ UNCHANGED <<intr, requested, seen, mode, pending, cancelling, failed, agentVars>>

Pause(hard) ==
  /\ LockFree /\ ~Terminal
  /\ requested' = TRUE
  /\ run' = Settled(IF run \in {"running", "waiting_approval"} THEN "pausing" ELSE run,
                    phase, TRUE)
  /\ cut' = IF hard THEN CutSteps({a \in Agents : phase[a] = "blocked_io"}) ELSE cut
  /\ UNCHANGED <<task, intr, seen, mode, pending, cancelling, failed,
                 phase, loc, gate, turns, plan, call, child>>

SoftPause == May("pause") /\ Pause(FALSE)
HardPause == May("hard") /\ Pause(TRUE)

\* Where resume() goes, and whether the table lets it.
ResumeTarget == CASE run \notin {"paused", "pausing"} -> run
                  [] pending # {} -> "waiting_approval"
                  [] OTHER -> "running"

\* resume() also starts a run nobody started.  When the transition is illegal it
\* raises IllegalTransition before the gate is opened and changes nothing.
Resume ==
  /\ May("resume") /\ LockFree /\ ~Terminal
  /\ IsLegalTransition(run, ResumeTarget)
  /\ requested' = FALSE
  /\ gate' = OpenGate
  /\ run' = IF run = "created" THEN "running" ELSE ResumeTarget
  /\ task' = IF task = "none" THEN "created" ELSE task
  /\ UNCHANGED <<intr, seen, mode, pending, cancelling, failed,
                 phase, loc, cut, turns, plan, call, child>>

\* interrupt() up to the RunStateChanged it emits: the lock is held, the state
\* is INTERRUPTING.
InterruptBegin ==
  /\ May("interrupt") /\ LockFree /\ ~Terminal
  /\ "interrupting" \in LegalTransitions[run]
  /\ intr' = [on |-> TRUE, previous |-> run]
  /\ run' = "interrupting"
  /\ UNCHANGED <<task, requested, seen, mode, pending, cancelling, failed, agentVars>>

\* The rest: the target's steps are cancelled, the run goes back, a pause settles.
\* The target came with the call; nothing reads it before here, so here it is chosen.
InterruptApply ==
  /\ ~LockFree
  /\ \E t \in Agents : cut' = CutSteps({t})
  /\ intr' = NoIntr
  /\ run' = Settled(IF run = "interrupting" THEN intr.previous ELSE run, phase, requested)
  /\ UNCHANGED <<task, requested, seen, mode, pending, cancelling, failed,
                 phase, loc, gate, turns, plan, call, child>>

\* interrupt(t) of a run that cannot go INTERRUPTING: only the steps are cancelled.
InterruptQuietly(t) ==
  /\ May("interrupt") /\ LockFree /\ ~Terminal
  /\ ~IsLegalTransition(run, "interrupting")
  /\ cut' = CutSteps({t})
  /\ run' = Settled(run, phase, requested)
  /\ UNCHANGED <<task, intr, requested, seen, mode, pending, cancelling, failed,
                 phase, loc, gate, turns, plan, call, child>>

\* gate.resolve() of the requests R, and the hook that follows each: the agent is
\* counted as doing I/O again, whether or not a call still waits for the answer.
Answer(R, approved) ==
  /\ pending' = pending \ R
  /\ phase' = IF R = {} THEN phase ELSE [phase EXCEPT ![Main] = "blocked_io"]
  /\ call' = [call EXCEPT ![Main] = [i \in Calls |->
                IF <<turns[Main], i>> \in R /\ call[Main][i] \in {"requesting", "asking"}
                THEN (IF approved THEN "running" ELSE "done") ELSE call[Main][i]]]
  /\ run' = AfterApproval(run, pending')

\* approve() and deny(): neither takes the command lock.
Resolve(q, approved) ==
  /\ May("resolve") /\ q \in pending
  /\ Answer({q}, approved)
  /\ UNCHANGED <<task, intr, requested, seen, mode, cancelling, failed,
                 loc, gate, cut, turns, plan, child>>

\* set_permission_mode(): switching to auto approves whatever is pending.
SetMode(m) ==
  /\ May("mode") /\ LockFree
  /\ mode' = m
  /\ IF m = "auto" /\ mode # m
     THEN Answer(pending, TRUE)
     ELSE run' = AfterApproval(run, pending) /\ UNCHANGED <<pending, phase, call>>
  /\ UNCHANGED <<task, intr, requested, seen, cancelling, failed,
                 loc, gate, cut, turns, plan, child>>

\* cancel(): every in-flight step, the requests, the gate, then the body's task.
\* No command lock.  A task that has not taken its first step ends without running
\* a line of _run_body(), and one waiting for the lock in _finish() leaves it: in
\* both cases nobody moves the run to a terminal state.
Cancel ==
  /\ May("cancel") /\ ~Terminal
  /\ cancelling' = TRUE /\ requested' = FALSE
  /\ pending' = {}
  /\ gate' = OpenGate
  /\ cut' = [a \in Agents |->
               IF loc[a] \in {"model", "tools"} \/ (a = Main /\ loc[a] \in SafeLocs)
               THEN "agent" ELSE cut[a]]
  /\ \/ /\ task \in {"none", "done"} /\ LockFree
        /\ run' = "cancelled" /\ UNCHANGED task
     \/ /\ task = "created" \/ (task = "running" /\ loc[Main] = "exited" /\ ~LockFree)
        /\ task' = "done" /\ UNCHANGED run
     \/ /\ task = "running" /\ ~(loc[Main] = "exited" /\ ~LockFree)
        /\ UNCHANGED <<run, task>>
  /\ UNCHANGED <<intr, seen, mode, failed, phase, loc, turns, plan, call, child>>

-----------------------------------------------------------------------------
Turn(a) == ChildStart(a) \/ SafePoint(a) \/ ParkOn(a) \/ Wake(a)
Model(a) == ModelDone(a) \/ ModelFail(a) \/ ModelCut(a)
Tools(a) == \/ \E i \in Calls : \/ RunCall(a, i) \/ Delegate(a, i)
                                \/ FinishCall(a, i) \/ CollectChild(a, i)
            \/ a = Main /\ \E i \in Calls : Ask(i) \/ AskHandler(i)
            \/ FinishBatch(a)
Unwinding(a) == Propagate(a) \/ Unwind(a)
AgentStep(a) == Turn(a) \/ Model(a) \/ Tools(a) \/ Unwinding(a)

Answering == \E q \in pending, approved \in BOOLEAN : Resolve(q, approved)

Command == \/ Start \/ SoftPause \/ HardPause \/ Resume \/ Cancel
           \/ InterruptBegin \/ \E t \in Agents : InterruptQuietly(t)
           \/ Answering
           \/ \E m \in {"manual", "auto"} : SetMode(m)

\* The run is over, or was abandoned; nothing more has to happen.
Finished == task = "done" /\ UNCHANGED vars

Next == \/ BodyStart \/ BodyDone \/ InterruptApply \/ Command
        \/ \E a \in Agents : AgentStep(a)
        \/ Finished

Spec == Init /\ [][Next]_vars

(***************************************************************************)
(* The event loop runs every ready task: weak fairness for the steps of    *)
(* each agent, of the body and of a command in progress.  asyncio.Lock is  *)
(* first-come first-served, so _finish() gets it although further          *)
(* interrupts keep arriving: strong fairness.  A human answers in the end. *)
(***************************************************************************)
FairSpec ==
  /\ Spec
  /\ \A a \in Agents : /\ WF_vars(Turn(a)) /\ WF_vars(Model(a))
                       /\ WF_vars(Tools(a)) /\ WF_vars(Unwinding(a))
  /\ WF_vars(BodyStart) /\ WF_vars(InterruptApply) /\ SF_vars(BodyDone)
  /\ WF_vars(Answering)
=============================================================================
