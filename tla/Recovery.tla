------------------------------ MODULE Recovery ------------------------------
(***************************************************************************)
(* What survives a process: the transcripts of the agents of one run, the  *)
(* checkpoints written at their safe points, and the run that load()       *)
(* rebuilds from the last one (azalabscode/control/controller.py,          *)
(* resume.py, checkpoint.py, azalabscode/workflows/agent_loop.py,          *)
(* transcript.py, state.py).                                               *)
(*                                                                         *)
(* As in RunControl a step is the code between two awaits that really      *)
(* wait.  Here the checkpoint write is one of them: the session is         *)
(* serialized under the checkpoint lock and a worker thread replaces the   *)
(* file later, while the other agents run.  The process may die at any     *)
(* step.  Pausing is left out (RunControl); the run is in manual mode.     *)
(***************************************************************************)
EXTENDS Transcript

CONSTANTS Agents, Main,
          Kids,        \* the ids <main>/0, <main>/1 ... of delegated agents, in order
          MaxTurns,    \* AgentSpec.max_turns of each agent
          Plans,       \* per agent, the call lists a model turn may answer with
          Commands,    \* what the user may do: "interrupt", "send"
          MaxInputs,   \* bound: messages the user types and interrupts
          MaxCrashes   \* bound: times the process dies

ASSUME AgentsAssumption ==
  /\ Main \in Agents /\ Kids \in Seq(Agents \ {Main})
  /\ \A i, j \in DOMAIN Kids : Kids[i] = Kids[j] => i = j
  /\ {"run", "nobody"} \cap Agents = {}    \* owners of the checkpoint lock that are no agents
ASSUME PlansAssumption ==
  Plans \in [Agents -> SUBSET Seq({"leaf", "gated", "delegate"})]
ASSUME BoundsAssumption ==
  MaxTurns \in [Agents -> Nat \ {0}] /\ MaxInputs \in Nat /\ MaxCrashes \in Nat

VARIABLES
  proc,      \* "new", "up", "ending": terminal state reached, "ended", "down", "loaded"
  state,     \* Controller.agents: the AgentState of each agent
  restored,  \* Controller._restored: agents whose loaded state nobody has claimed
  pending,   \* RuntimePermissionGate._pending, as the ids of the calls asked about
  revived,   \* RuntimePermissionGate._restored_ids
  carried,   \* RuntimePermissionGate._carried: the decision for the one set of
             \* parameters gated calls share here, or "none"
  cp,        \* the safe point holding the checkpoint lock: [owner, session], or Free
  stray,     \* sessions a cancelled safe point left with its writer thread
  disk,      \* the session file, or NoSession
  loc,       \* where the agent's coroutine is suspended
  turns,     \* the turn number of the loop; it restarts with the process
  cut,       \* "no", "step": its step is being cancelled, "agent": it is
  call,      \* how far each call of the batch is
  child,     \* the agent a delegate call of the batch waits for
  redo,      \* _resume_delegates(): entries still to be re-run
  redone,    \* _resume_delegates(): TurnResults of the entries re-run
  fate,      \* how the agent's coroutine ended
  minted,    \* per agent, assistant messages ever received: call ids are fresh
  ran,       \* the calls whose tool was started, in any process
  granted,   \* approvals the human gave, in any process
  accepted,  \* <<agent, message>> the controller said it queued
  blank,     \* texts queued on the empty state a resumed child is registered with: no
             \* longer read once it adopts the restored one
  sent, crashes

procVars == <<proc, restored, pending, revived, carried>>
cpVars == <<cp, stray, disk>>
loopVars == <<loc, turns, cut, call, child, redo, redone, fate>>
ghostVars == <<minted, ran, granted, accepted, blank, sent, crashes>>
vars == <<procVars, state, cpVars, loopVars, ghostVars>>

Free == [owner |-> "nobody"]
NoSession == [agents |-> "none"]
Task == 0     \* the text the run starts with; the messages sent later are 1, 2, ...

NewState == [msgs |-> <<>>, results |-> {}, inj |-> <<>>, resume |-> <<>>,
             kids |-> 0, phase |-> "unknown"]

SafeLocs == {"turn", "post", "after"}
Live(a) == loc[a] \notin {"unborn", "exited"}
\* The calls of the turn in progress: a batch runs those of the last message.
Batch(a) == Last(state[a].msgs).calls
AllOver(a) == \A i \in DOMAIN call[a] : call[a][i] \in {"done", "gone"}

\* Mutation of Drained: the texts are put before what was said last.
DrainedEarly(s) ==
  [s EXCEPT !.msgs = Front(s.msgs) \o [i \in DOMAIN s.inj |-> UserText(s.inj[i])]
                       \o <<Last(s.msgs)>>,
            !.inj = <<>>]
\* take_injections()
Drained(s) ==
  [s EXCEPT !.msgs = @ \o [i \in DOMAIN s.inj |-> UserText(s.inj[i])], !.inj = <<>>]
\* _exit() and exit_agent()
Finished(s) == [Drained(s) EXCEPT !.phase = "finished"]

-----------------------------------------------------------------------------
(* The session document *)

\* A restored agent that its parent has registered again, with an empty state,
\* and whose own task has not adopted the restored one yet.
Covered(a) == loc[a] = "spawned" /\ a \in restored
Placeholder(a) == [NewState EXCEPT !.phase = "live", !.inj = blank[a]]

\* The children of the delegate steps in flight, as a checkpoint records them.
InflightKids(a) ==
  CASE loc[a] = "tools" ->
         LET waits == Picked([i \in DOMAIN call[a] |-> i],
               {i \in DOMAIN call[a] : Batch(a)[i].tool = "delegate" /\ call[a][i] = "running"})
         IN  [n \in DOMAIN waits |-> child[a][waits[n]]]
    [] loc[a] = "resuming" -> <<Head(redo[a]).child>>
    [] OTHER -> <<>>

\* session(): a projection of the live controller.
Session ==
  [agents |-> [a \in Agents |-> IF Covered(a) THEN Placeholder(a) ELSE state[a]],
   kids |-> [a \in Agents |-> InflightKids(a)],
   pending |-> pending,
   over |-> proc = "ending"]

\* reconcile() for one agent of a session.
Reconciled(s, a) ==
  LET st == s.agents[a]
      entries == IF ResumableCall(st.msgs) = <<>> THEN <<>>
                 ELSE [n \in DOMAIN s.kids[a] |->
                         [call |-> ResumableCall(st.msgs)[1], child |-> s.kids[a][n]]]
      blocked == {[call |-> id, result |-> "not_run"] :
                    id \in {q \in s.pending : q[1] = a /\ ~Has(st.results, q)}}
  IN  [st EXCEPT !.msgs = RepairTranscript(@, st.results \cup blocked,
                                           {entries[n].call.id : n \in DOMAIN entries}),
                 !.results = {},
                 !.resume = @ \o entries]

-----------------------------------------------------------------------------
Init ==
  /\ proc = "new" /\ restored = {} /\ pending = {} /\ revived = {} /\ carried = "none"
  /\ state = [a \in Agents |-> NewState]
  /\ cp = Free /\ stray = {} /\ disk = NoSession
  /\ loc = [a \in Agents |-> "unborn"] /\ turns = [a \in Agents |-> 0]
  /\ cut = [a \in Agents |-> "no"] /\ fate = [a \in Agents |-> "ok"]
  /\ call = [a \in Agents |-> <<>>] /\ child = [a \in Agents |-> <<>>]
  /\ redo = [a \in Agents |-> <<>>] /\ redone = [a \in Agents |-> <<>>]
  /\ minted = [a \in Agents |-> 0] /\ ran = {} /\ granted = 0
  /\ accepted = {} /\ blank = [a \in Agents |-> <<>>] /\ sent = 0 /\ crashes = 0

-----------------------------------------------------------------------------
(* Entering, leaving and going round the loop *)

\* Mutation of Seeded: a resumed agent is told its task again.
SeededAgain(s) == [s EXCEPT !.msgs = Append(@, UserText(Task)), !.phase = "live"]
\* _enter(): an agent that has no transcript starts with its task.
Seeded(s) == [s EXCEPT !.msgs = IF @ = <<>> THEN <<UserText(Task)>> ELSE @,
                       !.phase = "live"]

\* A child registered for a delegate: the restored state waits for its first step.
Registered(st, c) == IF c \in restored THEN st
                     ELSE [st EXCEPT ![c] = [NewState EXCEPT !.phase = "live"]]

\* An agent's first step: claim the restored state or start afresh, then re-run
\* the delegates load() left open, else go to the first turn.
Enter(a) ==
  LET s == Seeded(state[a])
  IN  /\ restored' = restored \ {a}
      /\ redo' = [redo EXCEPT ![a] = s.resume]
      /\ redone' = [redone EXCEPT ![a] = <<>>]
      /\ IF s.resume = <<>>
         THEN /\ state' = [state EXCEPT ![a] = s]
              /\ loc' = [loc EXCEPT ![a] = "turn"]
              /\ turns' = [turns EXCEPT ![a] = 1]
         ELSE /\ state' = Registered([state EXCEPT ![a] = [s EXCEPT !.resume = <<>>]],
                                     Head(s.resume).child)
              /\ loc' = [loc EXCEPT ![a] = "resuming", ![Head(s.resume).child] = "spawned"]
              /\ UNCHANGED turns

\* start() of a new run, or resume() of a loaded one: the body runs Main.
Begin ==
  /\ proc \in {"new", "loaded"}
  /\ proc' = "up"
  /\ Enter(Main)
  /\ UNCHANGED <<pending, revived, carried, cpVars, cut, call, child, fate, ghostVars>>

ChildStart(a) ==
  /\ loc[a] = "spawned" /\ cut[a] = "no"
  /\ Enter(a)
  /\ UNCHANGED <<proc, pending, revived, carried, cpVars, cut, call, child, fate, ghostVars>>

\* The agent's coroutine ends with the state s.
Ends(a, s, f) ==
  /\ state' = [state EXCEPT ![a] = Finished(s)]
  /\ loc' = [loc EXCEPT ![a] = "exited"]
  /\ fate' = [fate EXCEPT ![a] = f]
  /\ proc' = IF a = Main THEN "ending" ELSE proc

\* The next iteration of the loop with the state s, or the end after max_turns.
Onward(a, s) ==
  \/ /\ turns[a] < MaxTurns[a]
     /\ state' = [state EXCEPT ![a] = s]
     /\ loc' = [loc EXCEPT ![a] = "turn"]
     /\ turns' = [turns EXCEPT ![a] = @ + 1]
     /\ UNCHANGED <<proc, fate>>
  \/ /\ turns[a] = MaxTurns[a]
     /\ Ends(a, s, "ok")
     /\ UNCHANGED turns

-----------------------------------------------------------------------------
(* Safe points *)

Requesting(a) == loc[a] = "tools" /\ \E i \in DOMAIN call[a] : call[a][i] = "requesting"

\* safe_point(), first half: fold and serialize under the checkpoint lock.
Fold(a) ==
  /\ loc[a] \in SafeLocs \/ Requesting(a)
  /\ cut[a] = "no" /\ cp = Free
  /\ cp' = [owner |-> a, session |-> Session]
  /\ UNCHANGED <<procVars, state, stray, disk, loopVars, ghostVars>>

\* What the loop does once its safe point is on disk.
PassSafePoint(a) ==
  \/ /\ loc[a] = "turn"
     /\ state' = [state EXCEPT ![a] = Drained(@)]
     /\ loc' = [loc EXCEPT ![a] = "model"]
     /\ UNCHANGED <<proc, turns, call, fate>>
  \/ /\ loc[a] = "post" /\ Batch(a) # <<>>
     /\ loc' = [loc EXCEPT ![a] = "tools"]
     /\ call' = [call EXCEPT ![a] = [i \in DOMAIN Batch(a) |-> "queued"]]
     /\ UNCHANGED <<proc, state, turns, fate>>
  \/ /\ loc[a] = "post" /\ Batch(a) = <<>> /\ state[a].inj # <<>>
     /\ Onward(a, Drained(state[a]))
     /\ UNCHANGED call
  \/ /\ loc[a] = "post" /\ Batch(a) = <<>> /\ state[a].inj = <<>>
     /\ Ends(a, state[a], "ok")
     /\ UNCHANGED <<turns, call>>
  \/ /\ loc[a] = "after"
     /\ Onward(a, state[a])
     /\ UNCHANGED call
  \/ /\ Requesting(a)
     /\ call' = [call EXCEPT ![a] = [i \in DOMAIN @ |->
                   IF @[i] = "requesting" THEN "asking" ELSE @[i]]]
     /\ UNCHANGED <<proc, state, loc, turns, fate>>

\* safe_point(), second half: the file is replaced, the lock released, the agent
\* goes on.
Written(a) ==
  /\ cp.owner = a /\ cut[a] = "no"
  /\ disk' = cp.session /\ cp' = Free
  /\ PassSafePoint(a)
  /\ UNCHANGED <<restored, pending, revived, carried, stray, cut, child, redo, redone,
                 ghostVars>>

\* The thread of a cancelled safe point replaces the file all the same.
StrayWrite ==
  /\ \E s \in stray : disk' = s /\ stray' = stray \ {s}
  /\ UNCHANGED <<procVars, state, cp, loopVars, ghostVars>>

\* Mutation of Abandon: the lock stays with the cancelled agent.
AbandonLocked(a) == UNCHANGED <<cp, stray>>
\* Cancelling an agent inside a safe point releases its lock, not its thread.
Abandon(a) ==
  IF cp.owner = a THEN cp' = Free /\ stray' = stray \cup {cp.session}
                  ELSE UNCHANGED <<cp, stray>>

\* _checkpoint_terminal(), after the gate has dropped its requests.
LastFold ==
  /\ proc = "ending" /\ cp = Free
  /\ pending' = {} /\ revived' = {}
  /\ cp' = [owner |-> "run", session |-> [Session EXCEPT !.pending = {}]]
  /\ UNCHANGED <<proc, restored, carried, state, stray, disk, loopVars, ghostVars>>

LastWrite ==
  /\ cp.owner = "run"
  /\ disk' = cp.session /\ cp' = Free /\ proc' = "ended"
  /\ UNCHANGED <<restored, pending, revived, carried, state, stray, loopVars, ghostVars>>

-----------------------------------------------------------------------------
(* The model *)

\* The stream ended: the message goes on the transcript, its calls have new ids.
ModelDone(a) ==
  /\ loc[a] = "model" /\ cut[a] # "agent"
  /\ \E p \in Plans[a] :
       state' = [state EXCEPT ![a].msgs = Append(@, Assistant(
                   [i \in DOMAIN p |-> [id |-> <<a, minted[a] + 1, i>>, tool |-> p[i]]]))]
  /\ minted' = [minted EXCEPT ![a] = @ + 1]
  /\ loc' = [loc EXCEPT ![a] = "post"]
  /\ cut' = [cut EXCEPT ![a] = "no"]
  /\ UNCHANGED <<procVars, cpVars, turns, call, child, redo, redone, fate,
                 ran, granted, accepted, blank, sent, crashes>>

\* The provider failed for good.
ModelFail(a) ==
  /\ loc[a] = "model" /\ cut[a] # "agent"
  /\ Ends(a, state[a], "failed")
  /\ cut' = [cut EXCEPT ![a] = "no"]
  /\ UNCHANGED <<restored, pending, revived, carried, cpVars, turns, call, child,
                 redo, redone, ghostVars>>

\* An interrupted model call: what it said may be kept, its calls are not.
ModelCut(a) ==
  /\ loc[a] = "model" /\ cut[a] = "step"
  /\ \E kept \in {<<>>, <<Assistant(<<>>)>>} :
       Onward(a, Drained([state[a] EXCEPT !.msgs = @ \o kept]))
  /\ cut' = [cut EXCEPT ![a] = "no"]
  /\ UNCHANGED <<restored, pending, revived, carried, cpVars, call, child, redo, redone,
                 ghostVars>>

-----------------------------------------------------------------------------
(* The tool batch *)

\* A gated tool is not concurrency-safe, the others are (partition_runs).
Safe(c) == c.tool # "gated"
StartCall(a, i) ==
  /\ loc[a] = "tools" /\ cut[a] = "no"
  /\ i \in DOMAIN call[a] /\ call[a][i] = "queued"
  /\ \A j \in 1..(i - 1) : \/ call[a][j] = "done"
                           \/ \A k \in j..i : Safe(Batch(a)[k])

Stored(a, i, r) ==
  state' = [state EXCEPT ![a].results = Record(@, Batch(a)[i].id, r)]
SetCall(a, i, s) == call' = [call EXCEPT ![a][i] = s]

\* A leaf tool starts.
RunCall(a, i) ==
  /\ StartCall(a, i) /\ Batch(a)[i].tool = "leaf"
  /\ SetCall(a, i, "running")
  /\ ran' = ran \cup {Batch(a)[i]}
  /\ UNCHANGED <<procVars, state, cpVars, loc, turns, cut, child, redo, redone, fate,
                 minted, granted, accepted, blank, sent, crashes>>

\* A call that is answered at once: a gated tool asked for by a subagent, a
\* delegate with no id left (a bound of the model).
RefuseCall(a, i) ==
  /\ StartCall(a, i)
  /\ \/ Batch(a)[i].tool = "gated" /\ a # Main
     \/ Batch(a)[i].tool = "delegate" /\ (a # Main \/ state[a].kids = Len(Kids))
  /\ SetCall(a, i, "done") /\ Stored(a, i, "refused")
  /\ UNCHANGED <<procVars, cpVars, loc, turns, cut, child, redo, redone, fate, ghostVars>>

\* gate.check() of a call the human has to decide.
Ask(i) ==
  /\ StartCall(Main, i) /\ Batch(Main)[i].tool = "gated"
  /\ SetCall(Main, i, "requesting")
  /\ pending' = pending \cup {Batch(Main)[i].id}
  /\ UNCHANGED <<proc, restored, revived, carried, state, cpVars, loc, turns, cut, child,
                 redo, redone, fate, ghostVars>>

\* Mutation of UseCarried: the decision stays for the next call.
UseCarriedAgain(a, i) ==
  /\ StartCall(a, i) /\ Batch(a)[i].tool = "gated" /\ carried = "approve"
  /\ SetCall(a, i, "running") /\ ran' = ran \cup {Batch(a)[i]}
  /\ UNCHANGED <<procVars, state, cpVars, loc, turns, cut, child, redo, redone, fate,
                 minted, granted, accepted, blank, sent, crashes>>

\* Mutation of UseCarried: a denied call goes on to run.
UseCarriedFallsThrough(a, i) ==
  /\ StartCall(a, i) /\ Batch(a)[i].tool = "gated" /\ carried = "deny"
  /\ carried' = "none" /\ SetCall(a, i, "running") /\ Stored(a, i, "denied")
  /\ ran' = ran \cup {Batch(a)[i]}
  /\ UNCHANGED <<proc, restored, pending, revived, cpVars, loc, turns, cut, child, redo,
                 redone, fate, minted, granted, accepted, blank, sent, crashes>>

\* gate.check() of a call with the parameters of a request decided after a
\* load(), whoever makes it: the decision is taken out and applied.
UseCarried(a, i) ==
  /\ StartCall(a, i) /\ Batch(a)[i].tool = "gated" /\ carried # "none"
  /\ carried' = "none"
  /\ \/ /\ carried = "approve" /\ SetCall(a, i, "running")
        /\ ran' = ran \cup {Batch(a)[i]} /\ UNCHANGED state
     \/ /\ carried = "deny" /\ SetCall(a, i, "done")
        /\ Stored(a, i, "denied") /\ UNCHANGED ran
  /\ UNCHANGED <<proc, restored, pending, revived, cpVars, loc, turns, cut, child, redo,
                 redone, fate, minted, granted, accepted, blank, sent, crashes>>

\* Mutation of Delegate: the child's number is not taken.
DelegateSameId(i) ==
  /\ StartCall(Main, i) /\ Batch(Main)[i].tool = "delegate" /\ state[Main].kids < Len(Kids)
  /\ LET c == Kids[state[Main].kids + 1]
     IN  /\ state' = [state EXCEPT ![c] = [NewState EXCEPT !.phase = "live"]]
         /\ loc' = [loc EXCEPT ![c] = "spawned"]
         /\ child' = [child EXCEPT ![Main] = [j \in DOMAIN Batch(Main) |->
                        IF j = i THEN c ELSE IF j \in DOMAIN @ THEN @[j] ELSE Main]]
  /\ SetCall(Main, i, "running")
  /\ UNCHANGED <<procVars, cpVars, turns, cut, redo, redone, fate, ghostVars>>

\* _run_delegate(): the child gets the next number and is registered.
Delegate(i) ==
  /\ StartCall(Main, i) /\ Batch(Main)[i].tool = "delegate" /\ state[Main].kids < Len(Kids)
  /\ LET c == Kids[state[Main].kids + 1]
     IN  /\ state' = [state EXCEPT ![c] = [NewState EXCEPT !.phase = "live"],
                                   ![Main].kids = @ + 1]
         /\ loc' = [loc EXCEPT ![c] = "spawned"]
         /\ child' = [child EXCEPT ![Main] = [j \in DOMAIN Batch(Main) |->
                        IF j = i THEN c ELSE IF j \in DOMAIN @ THEN @[j] ELSE Main]]
  /\ SetCall(Main, i, "running")
  /\ UNCHANGED <<procVars, cpVars, turns, cut, redo, redone, fate, ghostVars>>

\* A tool returns and its result is recorded.
FinishCall(a, i) ==
  /\ loc[a] = "tools" /\ i \in DOMAIN call[a]
  /\ call[a][i] = "running" /\ Batch(a)[i].tool # "delegate"
  /\ SetCall(a, i, "done") /\ Stored(a, i, "ok")
  /\ UNCHANGED <<procVars, cpVars, loc, turns, cut, child, redo, redone, fate, ghostVars>>

\* The child's task is over: its outcome is the result of the delegate call,
\* unless the call was cancelled meanwhile.
CollectChild(a, i) ==
  /\ loc[a] = "tools" /\ i \in DOMAIN call[a]
  /\ call[a][i] = "running" /\ Batch(a)[i].tool = "delegate"
  /\ loc[child[a][i]] = "exited"
  /\ \/ /\ SetCall(a, i, "done")
        /\ Stored(a, i, IF fate[child[a][i]] = "ok" THEN "ok" ELSE "failed")
     \/ cut[a] # "no" /\ SetCall(a, i, "gone") /\ UNCHANGED state
  /\ UNCHANGED <<procVars, cpVars, loc, turns, cut, child, redo, redone, fate, ghostVars>>

\* _tool_step() ends: the turn is written to the transcript in one go.
FinishBatch(a) ==
  /\ loc[a] = "tools" /\ cut[a] # "agent" /\ AllOver(a)
  /\ state' = [state EXCEPT ![a].msgs = FinalizeTurn(@, Batch(a), state[a].results),
                            ![a].results = {}]
  /\ loc' = [loc EXCEPT ![a] = "after"]
  /\ cut' = [cut EXCEPT ![a] = "no"]
  /\ call' = [call EXCEPT ![a] = <<>>] /\ child' = [child EXCEPT ![a] = <<>>]
  /\ UNCHANGED <<procVars, cpVars, turns, redo, redone, fate, ghostVars>>

\* One entry of _resume_delegates() is done.  After the last one the turn is
\* written to the transcript; a child that failed, or a transcript that is not
\* valid any more, ends the agent.
CollectRevived(a) ==
  LET c == Head(redo[a]).child
      outcome == [call |-> Head(redo[a]).call.id,
                  result |-> IF fate[c] = "ok" THEN "ok" ELSE "failed"]
      done == Append(redone[a], outcome)
      firsts == {done[n] : n \in {k \in DOMAIN done :
                                    \A j \in 1..(k - 1) : done[j].call # done[k].call}}
      s == [state[a] EXCEPT !.msgs =
              FinalizeTurn(@, [n \in DOMAIN done |-> [id |-> done[n].call]], firsts)]
  IN  /\ loc[a] = "resuming" /\ loc[c] = "exited" /\ cut[a] # "agent"
      /\ redone' = [redone EXCEPT ![a] = done]
      /\ redo' = [redo EXCEPT ![a] = Tail(@)]
      /\ cut' = [cut EXCEPT ![a] = "no"]
      /\ \/ /\ fate[c] = "failed"
            /\ Ends(a, state[a], "failed")
            /\ UNCHANGED turns
         \/ /\ fate[c] # "failed" /\ Len(redo[a]) > 1
            /\ loc' = [loc EXCEPT ![redo[a][2].child] = "spawned"]
            /\ state' = Registered(state, redo[a][2].child)
            /\ UNCHANGED <<proc, turns, fate>>
         \/ /\ fate[c] # "failed" /\ Len(redo[a]) = 1 /\ TranscriptOK(s.msgs)
            /\ state' = [state EXCEPT ![a] = s]
            /\ loc' = [loc EXCEPT ![a] = "turn"]
            /\ turns' = [turns EXCEPT ![a] = 1]
            /\ UNCHANGED <<proc, fate>>
         \/ /\ fate[c] # "failed" /\ Len(redo[a]) = 1 /\ ~TranscriptOK(s.msgs)
            /\ Ends(a, s, "failed")
            /\ UNCHANGED turns
      /\ UNCHANGED <<restored, pending, revived, carried, cpVars, call, child, ghostVars>>

-----------------------------------------------------------------------------
(* Interrupts *)

\* The agents whose end the agent a waits for.
Awaited(a) ==
  IF loc[a] = "resuming" THEN {Head(redo[a]).child}
  ELSE {child[a][i] : i \in {j \in DOMAIN call[a] :
                               call[a][j] = "running" /\ Batch(a)[j].tool = "delegate"}}

\* CancelledError reaches the batch of a, or the delegate it re-runs.
Propagate(a) ==
  /\ loc[a] \in {"tools", "resuming"} /\ cut[a] # "no"
  /\ \/ \E c \in Awaited(a) : loc[c] # "exited" /\ cut[c] # "agent"
     \/ \E i \in DOMAIN call[a] : call[a][i] \in {"queued", "requesting", "asking"}
     \/ \E i \in DOMAIN call[a] : call[a][i] = "running" /\ Batch(a)[i].tool # "delegate"
  /\ cut' = [c \in Agents |-> IF c \in Awaited(a) /\ loc[c] # "exited" THEN "agent" ELSE cut[c]]
  /\ call' = [call EXCEPT ![a] = [i \in DOMAIN @ |->
                IF @[i] = "done" \/ (@[i] = "running" /\ Batch(a)[i].tool = "delegate")
                THEN @[i] ELSE "gone"]]
  /\ pending' = pending \ {Batch(a)[i].id : i \in {j \in DOMAIN call[a] : call[a][j] = "asking"}}
  /\ Abandon(a)
  /\ UNCHANGED <<proc, restored, revived, carried, state, disk, loc, turns, child, redo,
                 redone, fate, ghostVars>>

\* A cancelled agent's coroutine ends.  One cancelled before its first step never
\* claims the state that was restored for it.
Unwind(a) ==
  /\ cut[a] = "agent" /\ Live(a)
  /\ loc[a] \in {"tools", "resuming"} => \A c \in Awaited(a) : loc[c] = "exited"
  /\ loc[a] = "tools" => \A i \in DOMAIN call[a] : call[a][i] \in {"done", "gone", "running"}
                           /\ (call[a][i] = "running" => Batch(a)[i].tool = "delegate")
  /\ state' = [state EXCEPT ![a] = CASE loc[a] # "spawned" -> Finished(@)
                                     [] Covered(a) -> Placeholder(a)
                                     [] OTHER -> @]
  /\ loc' = [loc EXCEPT ![a] = "exited"]
  /\ fate' = [fate EXCEPT ![a] = "cancelled"]
  /\ cut' = [cut EXCEPT ![a] = "no"]
  /\ Abandon(a)
  /\ UNCHANGED <<procVars, disk, turns, call, child, redo, redone, ghostVars>>

-----------------------------------------------------------------------------
(* The user *)

\* _inject(): a text for an agent the controller knows is queued, on the state the
\* controller has for it.
Inject(a) ==
  /\ state[a].phase # "unknown"
  /\ accepted' = accepted \cup {<<a, sent + 1>>}
  /\ \/ Covered(a) /\ blank' = [blank EXCEPT ![a] = Append(@, sent + 1)] /\ UNCHANGED state
     \/ /\ ~Covered(a) /\ UNCHANGED blank
        /\ state' = [state EXCEPT ![a].inj = Append(@, sent + 1)]

Input(command) ==
  /\ command \in Commands /\ proc \in {"up", "loaded"}
  /\ sent < MaxInputs /\ sent' = sent + 1

Send(a) ==
  /\ Input("send")
  /\ Inject(a)
  /\ UNCHANGED <<procVars, cpVars, loopVars, minted, ran, granted, crashes>>

\* interrupt(), with or without a text.
Interrupt(a) ==
  /\ Input("interrupt")
  /\ Inject(a) \/ UNCHANGED <<state, accepted, blank>>
  /\ cut' = IF loc[a] \in {"model", "tools", "resuming"} /\ cut[a] = "no"
            THEN [cut EXCEPT ![a] = "step"] ELSE cut
  /\ UNCHANGED <<procVars, cpVars, loc, turns, call, child, redo, redone, fate,
                 minted, ran, granted, crashes>>

Asking(q) ==
  /\ loc[Main] = "tools"
  /\ \E i \in DOMAIN call[Main] : Batch(Main)[i].id = q /\ call[Main][i] = "asking"

\* resolve() of a request the handler has shown, or of one load() restored: then
\* nobody waits for the answer and it is carried to the call the model repeats.
Resolve(q, approved) ==
  /\ proc \in {"up", "loaded"} /\ q \in pending
  /\ pending' = pending \ {q} /\ revived' = revived \ {q}
  /\ \/ /\ q \in revived
        /\ carried' = IF approved THEN "approve" ELSE "deny"
        /\ granted' = IF approved THEN granted + 1 ELSE granted
        /\ UNCHANGED <<call, ran, state>>
     \/ /\ Asking(q) /\ approved
        /\ call' = [call EXCEPT ![Main] = [i \in DOMAIN @ |->
                      IF Batch(Main)[i].id = q THEN "running" ELSE @[i]]]
        /\ ran' = ran \cup {[id |-> q, tool |-> "gated"]}
        /\ granted' = granted + 1
        /\ UNCHANGED <<carried, state>>
     \/ /\ Asking(q) /\ ~approved
        /\ call' = [call EXCEPT ![Main] = [i \in DOMAIN @ |->
                      IF Batch(Main)[i].id = q THEN "done" ELSE @[i]]]
        /\ state' = [state EXCEPT ![Main].results = Record(@, q, "denied")]
        /\ UNCHANGED <<carried, ran, granted>>
  /\ UNCHANGED <<proc, restored, cpVars, loc, turns, cut, child, redo, redone, fate,
                 minted, accepted, blank, sent, crashes>>

-----------------------------------------------------------------------------
(* Death and resurrection *)

Forgotten ==
  /\ loc' = [a \in Agents |-> "unborn"] /\ turns' = [a \in Agents |-> 0]
  /\ cut' = [a \in Agents |-> "no"] /\ fate' = [a \in Agents |-> "ok"]
  /\ call' = [a \in Agents |-> <<>>] /\ child' = [a \in Agents |-> <<>>]
  /\ redo' = [a \in Agents |-> <<>>] /\ redone' = [a \in Agents |-> <<>>]
  /\ cp' = Free /\ stray' = {} /\ carried' = "none" /\ blank' = [a \in Agents |-> <<>>]

\* The process dies.  The file is the old one or, if its replace was done, the
\* new one: that is Written and then Crash.
Crash ==
  /\ proc \in {"up", "ending"} /\ crashes < MaxCrashes
  /\ crashes' = crashes + 1
  /\ proc' = "down"
  /\ state' = [a \in Agents |-> NewState]
  /\ restored' = {} /\ pending' = {} /\ revived' = {} /\ accepted' = {}
  /\ Forgotten
  /\ UNCHANGED <<disk, minted, ran, granted, sent>>

\* load(): reconcile the session, register its agents, restore its requests.
\* Nobody loads the session of a run that ended.
Load ==
  /\ proc = "down" /\ disk # NoSession /\ ~disk.over
  /\ proc' = "loaded"
  /\ state' = [a \in Agents |-> Reconciled(disk, a)]
  /\ restored' = {a \in Agents : disk.agents[a].phase = "live"}
  /\ pending' = disk.pending /\ revived' = disk.pending
  /\ accepted' = {t \in Agents \X (1..MaxInputs) :
                    t[2] \in ToSet(UserTexts(disk.agents[t[1]].msgs)) \cup ToSet(disk.agents[t[1]].inj)}
  /\ Forgotten
  /\ UNCHANGED <<disk, minted, ran, granted, sent, crashes>>

-----------------------------------------------------------------------------
AgentStep(a) ==
  \/ ChildStart(a) \/ Fold(a) \/ Written(a)
  \/ ModelDone(a) \/ ModelFail(a) \/ ModelCut(a)
  \/ \E i \in DOMAIN call[a] : \/ RunCall(a, i) \/ RefuseCall(a, i)
                               \/ FinishCall(a, i) \/ CollectChild(a, i) \/ UseCarried(a, i)
  \/ a = Main /\ \E i \in DOMAIN call[Main] : Ask(i) \/ Delegate(i)
  \/ FinishBatch(a) \/ CollectRevived(a) \/ Propagate(a) \/ Unwind(a)

Answering == \E q \in pending, approved \in BOOLEAN : Resolve(q, approved)
Over == proc \in {"ended", "down"} /\ UNCHANGED vars

Next == \/ Begin \/ LastFold \/ LastWrite \/ StrayWrite \/ Crash \/ Load \/ Over
        \/ Answering
        \/ \E a \in Agents : AgentStep(a) \/ Send(a) \/ Interrupt(a)

Spec == Init /\ [][Next]_vars

(***************************************************************************)
(* The event loop runs every ready task and the writer thread finishes; a  *)
(* human answers; whoever loaded a session resumes it.                     *)
(***************************************************************************)
FairSpec ==
  /\ Spec
  /\ \A a \in Agents : WF_vars(AgentStep(a))
  /\ WF_vars(Begin) /\ WF_vars(LastFold \/ LastWrite) /\ WF_vars(Answering) /\ WF_vars(Load)
=============================================================================
