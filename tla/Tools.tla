-------------------------------- MODULE Tools --------------------------------
(***************************************************************************)
(* A turn's tool calls.  AgentLoop._tool_step runs ToolDispatcher.dispatch *)
(* as a step: calls are validated, approved, run under a timeout, retried, *)
(* capped and charged to the turn's budget (tools/dispatcher.py,           *)
(* tools/budget.py).  The shell tool starts a tree of processes and kills  *)
(* it when its time is over or its call is cut (tools/builtin/shell.py,    *)
(* tools/platform.py, the POSIX branch).                                   *)
(*                                                                         *)
(* The tools are told apart by what the dispatcher asks of them: "read"    *)
(* and "web" may run together, "web" may be retried; "edit", "risky" and   *)
(* "shell" change the world and are asked about; "risky" declares          *)
(* RetryPolicy.unsafe_allow_retry, as somebody may have set it on "shell"; *)
(* "bad" is a call prepare() rejects.                                      *)
(* The gate's answer is the module Approvals; here it comes or never does. *)
(***************************************************************************)
EXTENDS Naturals, Sequences, FiniteSets

CONSTANTS
  Agents,       \* the agents of a run
  Turns,        \* the turns an agent may be given: sequences of calls
  MaxParallel,  \* ToolDispatcher.max_parallel
  Limit,        \* AgentSpec.max_tool_results_chars, in units of a large result
  Retries,      \* RetryPolicy.attempts of the tools that declare any
  Shared        \* the agents are AgentNodes of one graph: one dispatcher for all

Tools == {"read", "web", "edit", "risky", "shell", "bad"}
ASSUME ToolsAssumption ==
  /\ Turns \subseteq Seq([tool : Tools, size : Nat])
  /\ \E longest \in Turns : \A t \in Turns : Len(t) <= Len(longest)
  /\ MaxParallel \in Nat \ {0} /\ Limit \in Nat /\ Retries \in Nat /\ Shared \in BOOLEAN
  /\ IsFiniteSet(Agents)

VARIABLES
  turn,      \* the calls of each agent's turn
  at,        \* "ready", "dispatching", "unwound", "draining"; "over", "gone"
  why,       \* StepHandle.cancel_reason: "none", "interrupt", "cancel"
  calls,     \* per call: how far it is, how it ended, how often its tool ran, and
             \* what of its result TurnBudget.charge() has counted
  spent,     \* TurnBudget.spent
  kept,      \* AgentState.pending_results: index -> outcome
  message,   \* the results finalize_turn() wrote, in call order
  heard,     \* history: the events that said how a call ended
  tree,      \* the processes of a shell call, and how far killing them is
  cleanups,  \* ToolDispatcher._cleanups: detached tasks, named by their call
  waits      \* the cleanups drain_cleanups() is waiting for

vars == <<turn, at, why, calls, spent, kept, message, heard, tree, cleanups, waits>>

MaxCalls == CHOOSE n \in {Len(t) : t \in Turns} : \A t \in Turns : Len(t) <= n
Index(a) == DOMAIN turn[a]
Tool(a, i) == turn[a][i].tool
Keys == Agents \X (1..MaxCalls)
NewCall == [phase |-> "waiting", outcome |-> "none", runs |-> 0, size |-> 0]
\* How kill_tree() ended: the command was gone before it, went with SIGTERM, or was killed.
Ended == {"late", "eased", "killed"}
NoTree == [root |-> "none", leaf |-> "none", stubborn |-> {}, live |-> FALSE, kill |-> "none"]
\* Who shares a dispatcher, its semaphore and its set of cleanups: _child_dispatcher()
\* gives a subagent its own, AgentNode.build_loop() takes the graph's.
Dispatcher(a) == IF Shared THEN Agents ELSE {a}

Init ==
  /\ turn \in [Agents -> Turns]
  /\ at = [a \in Agents |-> "ready"] /\ why = [a \in Agents |-> "none"]
  /\ calls = [a \in Agents |-> [i \in 1..Len(turn[a]) |-> NewCall]]
  /\ spent = [a \in Agents |-> 0]
  /\ kept = [a \in Agents |-> <<>>] /\ message = [a \in Agents |-> <<>>]
  /\ heard = [k \in Keys |-> <<>>] /\ tree = [k \in Keys |-> NoTree]
  /\ cleanups = [a \in Agents |-> {}] /\ waits = [a \in Agents |-> {}]

-----------------------------------------------------------------------------
(* Which calls may run *)

Safe(t) == t \in {"read", "web"}
Gated(t) == t \in {"edit", "risky", "shell"}
InCall == {"asking", "running", "ran", "stopping", "resting", "telling"}

\* partition_runs(): the maximal runs of neighbours that may run together.
SameRun(a, i, j) ==
  \A k \in Index(a) : (i <= k /\ k <= j) \/ (j <= k /\ k <= i) => Safe(Tool(a, k))
Batched(a, i) == \E j \in Index(a) \ {i} : SameRun(a, i, j)

\* dispatch(): runs in order, each entirely done before the next begins.
Ready(a, i) == \A j \in 1..(i - 1) : SameRun(a, j, i) \/ calls[a][j].phase = "done"

\* Mutation of Room: the semaphore is never given back.
RoomLeaks(a, i) ==
  Batched(a, i) =>
    Cardinality({j \in Index(a) : Batched(a, j) /\ calls[a][j].phase # "waiting"}) < MaxParallel
\* _call_limited(): only the calls of a run of several take the semaphore.
Room(a, i) ==
  Batched(a, i) =>
    Cardinality({k \in Keys : /\ k[1] \in Dispatcher(a) /\ k[2] \in Index(k[1])
                              /\ Batched(k[1], k[2]) /\ calls[k[1]][k[2]].phase \in InCall})
      < MaxParallel

Declared(t) == IF t = "web" \/ Gated(t) THEN Retries ELSE 0
Overridden(t) == t \in {"risky", "shell"}
\* Mutation of Allowed: the declaration is taken at its word.
AllowedDeclared(t) == Declared(t)
\* _allowed_attempts(): what is asked about is retried only if it overrides that by name,
\* a command not even then.
Allowed(t) == IF t = "shell" \/ (Gated(t) /\ ~Overridden(t)) THEN 0 ELSE Declared(t)

-----------------------------------------------------------------------------
(* A call *)

SetCall(a, i, c) == calls' = [calls EXCEPT ![a][i] = c]
Heard(a, i, event) == heard' = [heard EXCEPT ![<<a, i>>] = Append(@, event)]
\* result_text_size(): a result, good or not, is a line, or what the call puts out: a
\* command that fails or is killed returns its whole output too.
Sizes(a, i) == {0, turn[a][i].size}

\* Mutation of Fits: only what was spent before counts.
FitsAlways(a, n) == spent[a] <= Limit
\* TurnBudget.charge(), whatever the outcome.
Fits(a, n) == n <= Limit - spent[a]

\* _finish(): charge the budget, say how the call ended.  The note that stands for an
\* elided result is not charged.
Tell(a, i, outcome, runs) ==
  \E n \in Sizes(a, i) :
    LET charged == IF Fits(a, n) THEN n ELSE 0
        ended == IF Fits(a, n) THEN outcome ELSE "budget"
    IN  /\ SetCall(a, i, [phase |-> "telling", outcome |-> ended, runs |-> runs, size |-> charged])
        /\ spent' = [spent EXCEPT ![a] = @ + charged]
        /\ Heard(a, i, IF ended = "ok" THEN "completed" ELSE "failed")

Run(a, i) ==
  /\ SetCall(a, i, [calls[a][i] EXCEPT !.phase = "running", !.runs = @ + 1])
  /\ UNCHANGED <<spent, heard>>

\* _tool_step(), up to the first call.
Dispatch(a) ==
  /\ at[a] = "ready" /\ at' = [at EXCEPT ![a] = "dispatching"]
  /\ UNCHANGED <<turn, why, calls, spent, kept, message, heard, tree, cleanups, waits>>

\* call(), up to the gate: nothing that fails before it is asked about.
Enter(a, i) ==
  /\ at[a] = "dispatching" /\ calls[a][i].phase = "waiting" /\ Ready(a, i) /\ Room(a, i)
  /\ \/ Tell(a, i, "invalid", 0)
     \/ Gated(Tool(a, i)) /\ SetCall(a, i, [calls[a][i] EXCEPT !.phase = "asking"])
        /\ UNCHANGED <<spent, heard>>
     \/ Safe(Tool(a, i)) /\ Run(a, i)
  /\ UNCHANGED <<turn, at, why, kept, message, tree, cleanups, waits>>

\* call(), when gate.check() returns.
Decided(a, i) ==
  /\ calls[a][i].phase = "asking"
  /\ Run(a, i) \/ Tell(a, i, "denied", 0)
  /\ UNCHANGED <<turn, at, why, kept, message, tree, cleanups, waits>>

\* Tool.run() of a tool without processes returns, or raises: "error" is of a kind in
\* RetryPolicy.retry_on.
Ran(a, i) ==
  /\ calls[a][i].phase = "running" /\ Tool(a, i) # "shell"
  /\ \E o \in {"ok", "error", "failure"} :
       SetCall(a, i, [calls[a][i] EXCEPT !.phase = "ran", !.outcome = o])
  /\ UNCHANGED <<turn, at, why, spent, kept, message, heard, tree, cleanups, waits>>

\* _run_once(): wait_for() gives up on such a tool.  Its on_cancel() does nothing.
TimedOut(a, i) ==
  /\ calls[a][i].phase = "running" /\ Tool(a, i) # "shell"
  /\ SetCall(a, i, [calls[a][i] EXCEPT !.phase = "ran", !.outcome = "timeout"])
  /\ UNCHANGED <<turn, at, why, spent, kept, message, heard, tree, cleanups, waits>>

\* _run_with_retries(): the result is good, or final, or worth another run.
Collect(a, i) ==
  LET c == calls[a][i] IN
  /\ c.phase = "ran"
  /\ IF c.outcome \in {"error", "timeout"} /\ c.runs <= Allowed(Tool(a, i))
     THEN SetCall(a, i, [c EXCEPT !.phase = "resting"]) /\ UNCHANGED <<spent, heard>>
     ELSE Tell(a, i, c.outcome, c.runs)
  /\ UNCHANGED <<turn, at, why, kept, message, tree, cleanups, waits>>
Retry(a, i) ==
  /\ calls[a][i].phase = "resting" /\ Run(a, i)
  /\ UNCHANGED <<turn, at, why, kept, message, tree, cleanups, waits>>

\* Mutation of Told: the result is left for dispatch() to return.
ToldLater(a, i) ==
  /\ calls[a][i].phase = "telling" /\ SetCall(a, i, [calls[a][i] EXCEPT !.phase = "done"])
  /\ kept' = IF \A j \in Index(a) \ {i} : calls[a][j].phase = "done"
             THEN [kept EXCEPT ![a] = [j \in Index(a) |-> calls[a][j].outcome]] ELSE kept
  /\ UNCHANGED <<turn, at, why, spent, message, heard, tree, cleanups, waits>>
WithResult(q, i, o) == [j \in DOMAIN q \cup {i} |-> IF j = i THEN o ELSE q[j]]
\* call() returns; record() keeps the result with no await between.
Told(a, i) ==
  /\ calls[a][i].phase = "telling" /\ SetCall(a, i, [calls[a][i] EXCEPT !.phase = "done"])
  /\ kept' = [kept EXCEPT ![a] = WithResult(@, i, calls[a][i].outcome)]
  /\ UNCHANGED <<turn, at, why, spent, message, heard, tree, cleanups, waits>>

-----------------------------------------------------------------------------
(* The processes of a shell call *)

SetTree(k, t) == tree' = [tree EXCEPT ![k] = t]
Signalled(t, who) ==
  [t EXCEPT !.root = IF @ = "alive" /\ "root" \in who THEN "dead" ELSE @,
            !.leaf = IF @ = "alive" /\ "leaf" \in who THEN "dead" ELSE @]
Processes == {"root", "leaf"}
\* _kill_tree_posix(), up to its first wait: a process already gone is left alone, the
\* group of another one gets SIGTERM, which a process may ignore.
Killing(t) ==
  IF t.root # "alive" THEN [t EXCEPT !.kill = "late"]
  ELSE [Signalled(t, Processes \ t.stubborn) EXCEPT !.kill = "term"]

\* ShellTool.run(): spawn() and _live.
Spawn(a, i) ==
  /\ calls[a][i].phase = "running" /\ Tool(a, i) = "shell" /\ tree[<<a, i>>].root = "none"
  /\ \E s \in SUBSET Processes :
       SetTree(<<a, i>>, [root |-> "alive", leaf |-> "alive", stubborn |-> s,
                          live |-> TRUE, kill |-> "none"])
  /\ UNCHANGED <<turn, at, why, calls, spent, kept, message, heard, cleanups, waits>>

\* A process ends by itself.
Exits(k) ==
  /\ \E p \in Processes : tree[k][p] = "alive" /\ SetTree(k, [tree[k] EXCEPT ![p] = "dead"])
  /\ UNCHANGED <<turn, at, why, calls, spent, kept, message, heard, cleanups, waits>>

\* ShellTool.run(): the command's own time is over.
TooLong(a, i) ==
  LET t == tree[<<a, i>>] IN
  /\ calls[a][i].phase = "running" /\ t.root = "alive" /\ t.kill = "none"
  /\ SetTree(<<a, i>>, Killing(t))
  /\ UNCHANGED <<turn, at, why, calls, spent, kept, message, heard, cleanups, waits>>

\* _kill_tree_posix(), after its wait: SIGKILL for the group, if the process itself is
\* still there.
Grace(k) ==
  /\ tree[k].kill = "term"
  /\ SetTree(k, IF tree[k].root = "alive"
                THEN [Signalled(tree[k], Processes) EXCEPT !.kill = "killed"]
                ELSE [tree[k] EXCEPT !.kill = "eased"])
  /\ UNCHANGED <<turn, at, why, calls, spent, kept, message, heard, cleanups, waits>>

\* ShellTool.run() returns: with the process gone, by itself or killed.
ShellReturns(a, i) ==
  LET t == tree[<<a, i>>] IN
  /\ calls[a][i].phase = "running" /\ t.root = "dead" /\ t.kill \in {"none"} \cup Ended
  /\ \E o \in IF t.kill = "none" THEN {"ok", "failure"} ELSE {"timeout"} :
       SetCall(a, i, [calls[a][i] EXCEPT !.phase = "ran", !.outcome = o])
  /\ SetTree(<<a, i>>, [t EXCEPT !.live = FALSE])
  /\ UNCHANGED <<turn, at, why, spent, kept, message, heard, cleanups, waits>>

\* _run_once(): the dispatcher's own timeout, the backstop.  on_cancel() is awaited.
Backstop(a, i) ==
  LET t == tree[<<a, i>>] IN
  /\ calls[a][i].phase = "running" /\ t.live
  /\ SetCall(a, i, [calls[a][i] EXCEPT !.phase = "stopping"])
  /\ SetTree(<<a, i>>, [Killing(t) EXCEPT !.live = FALSE])
  /\ UNCHANGED <<turn, at, why, spent, kept, message, heard, cleanups, waits>>
Stopped(a, i) ==
  /\ calls[a][i].phase = "stopping" /\ tree[<<a, i>>].kill \in Ended
  /\ SetCall(a, i, [calls[a][i] EXCEPT !.phase = "ran", !.outcome = "timeout"])
  /\ UNCHANGED <<turn, at, why, spent, kept, message, heard, tree, cleanups, waits>>

-----------------------------------------------------------------------------
(* Cutting a step *)

\* _run_once(): the calls whose tool is running get a cleanup task of their own.
Detached(a) == {i \in Index(a) : calls[a][i].phase \in {"running", "ran"}}

\* Mutation of Cut: the cleanup is awaited by the task that is being cancelled.
CutAwaiting(a, reason) ==
  /\ at[a] = "dispatching" /\ why[a] = "none"
  /\ at' = [at EXCEPT ![a] = "unwound"] /\ why' = [why EXCEPT ![a] = reason]
  /\ calls' = [calls EXCEPT ![a] = [i \in Index(a) |->
                 IF @[i].phase \in InCall THEN [@[i] EXCEPT !.phase = "cut"] ELSE @[i]]]
  /\ tree' = [k \in Keys |-> IF k[1] = a /\ k[2] \in Index(a) /\ calls[a][k[2]].phase \in InCall
                             THEN [tree[k] EXCEPT !.live = FALSE] ELSE tree[k]]
  /\ UNCHANGED <<turn, spent, kept, message, heard, cleanups, waits>>
\* StepHandle.request_cancel(), as it reaches the calls: every one under way is cut, the
\* rest never begin.  An awaited cleanup is cut with the call that was waiting for it.
Cut(a, reason) ==
  /\ at[a] = "dispatching" /\ why[a] = "none"
  /\ at' = [at EXCEPT ![a] = "unwound"] /\ why' = [why EXCEPT ![a] = reason]
  /\ calls' = [calls EXCEPT ![a] = [i \in Index(a) |->
                 IF @[i].phase \in InCall THEN [@[i] EXCEPT !.phase = "cut"] ELSE @[i]]]
  /\ tree' = [k \in Keys |->
       IF k[1] # a \/ k[2] \notin Index(a) THEN tree[k]
       ELSE IF k[2] \in Detached(a) /\ tree[k].live THEN [tree[k] EXCEPT !.kill = "called"]
       ELSE IF calls[a][k[2]].phase = "stopping" /\ tree[k].kill = "term"
       THEN [tree[k] EXCEPT !.kill = "aborted"]
       ELSE tree[k]]
  /\ cleanups' = [cleanups EXCEPT ![a] = @ \cup {<<a, i>> : i \in Detached(a)}]
  /\ UNCHANGED <<turn, spent, kept, message, heard, waits>>

Interrupt(a) == Cut(a, "interrupt")  \* Controller.interrupt(), pause(hard=True)
CancelStep(a) == Cut(a, "cancel")    \* Controller.cancel(): first the steps

\* ShellTool.on_cancel(), in a task of its own: popped first, then killed.
CleanUp(k) ==
  /\ tree[k].kill = "called"
  /\ SetTree(k, [Killing(tree[k]) EXCEPT !.live = FALSE])
  /\ UNCHANGED <<turn, at, why, calls, spent, kept, message, heard, cleanups, waits>>

AllDone(a) == at[a] = "dispatching" /\ \A i \in Index(a) : calls[a][i].phase = "done"

\* drain_cleanups(): takes the dispatcher's cleanups, whosoever they are, and waits.
Drain(a) ==
  /\ at[a] = "unwound" \/ AllDone(a)
  /\ at' = [at EXCEPT ![a] = "draining"]
  /\ waits' = [waits EXCEPT ![a] = UNION {cleanups[b] : b \in Dispatcher(a)}]
  /\ cleanups' = [b \in Agents |-> IF b \in Dispatcher(a) THEN {} ELSE cleanups[b]]
  /\ UNCHANGED <<turn, why, calls, spent, kept, message, heard, tree>>

Finished(k) == tree[k].kill \in {"none", "aborted"} \cup Ended

\* Controller.cancel(), then the body: the gather() an agent waits in is cancelled with
\* every cleanup in it.
CancelBody(a) ==
  /\ at[a] = "draining" /\ \E k \in waits[a] : ~Finished(k)
  /\ at' = [at EXCEPT ![a] = "gone"]
  /\ tree' = [k \in Keys |-> IF k \in waits[a] /\ ~Finished(k)
                             THEN [tree[k] EXCEPT !.kill = "aborted"] ELSE tree[k]]
  /\ waits' = [waits EXCEPT ![a] = {}]
  /\ UNCHANGED <<turn, why, calls, spent, kept, message, heard, cleanups>>

\* The rest of _tool_step(): a cancelled run unwinds; otherwise what is missing is said
\* to be cancelled and finalize_turn() writes every result.
EndStep(a) ==
  /\ at[a] = "draining" /\ \A k \in waits[a] : Finished(k)
  /\ waits' = [waits EXCEPT ![a] = {}]
  /\ IF why[a] = "cancel"
     THEN at' = [at EXCEPT ![a] = "gone"] /\ UNCHANGED <<message, heard>>
     ELSE /\ at' = [at EXCEPT ![a] = "over"]
          /\ message' = [message EXCEPT ![a] = [i \in Index(a) |->
                           IF i \in DOMAIN kept[a] THEN kept[a][i] ELSE "cancelled"]]
          /\ heard' = [k \in Keys |-> IF k[1] = a /\ k[2] \in Index(a) \ DOMAIN kept[a]
                                      THEN Append(heard[k], "cancelled") ELSE heard[k]]
  /\ UNCHANGED <<turn, why, calls, spent, kept, tree, cleanups>>

-----------------------------------------------------------------------------
Over == \A a \in Agents : at[a] \in {"over", "gone"}
Idle == Over /\ UNCHANGED vars

OfCall(a, i) ==
  \/ Enter(a, i) \/ Ran(a, i) \/ TimedOut(a, i) \/ Collect(a, i) \/ Retry(a, i) \/ Told(a, i)
  \/ TooLong(a, i) \/ ShellReturns(a, i) \/ Stopped(a, i)
Machine ==
  \/ \E a \in Agents : \/ Dispatch(a) \/ Drain(a) \/ EndStep(a)
                       \/ \E i \in Index(a) : OfCall(a, i) \/ Spawn(a, i)
  \/ \E k \in Keys : Grace(k) \/ CleanUp(k)
Others ==
  \/ \E a \in Agents : \/ Interrupt(a) \/ CancelStep(a) \/ CancelBody(a)
                       \/ \E i \in Index(a) : Decided(a, i) \/ Backstop(a, i)
  \/ \E k \in Keys : Exits(k)
Next == Machine \/ Others \/ Idle

Spec == Init /\ [][Next]_vars
\* The event loop runs every ready task, and the timers it armed go off.
FairSpec ==
  /\ Spec
  /\ \A a \in Agents : WF_vars(Dispatch(a)) /\ WF_vars(Drain(a)) /\ WF_vars(EndStep(a))
  /\ \A a \in Agents : \A i \in 1..MaxCalls :
       WF_vars(i \in Index(a) /\ (OfCall(a, i) \/ Spawn(a, i)))
  /\ \A k \in Keys : WF_vars(Grace(k)) /\ WF_vars(CleanUp(k))
=============================================================================
