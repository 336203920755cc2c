------------------------------ MODULE Children ------------------------------
(***************************************************************************)
(* A node that starts subagents (workflows/context.py): the task group the *)
(* runner opens around its body, the child's task, its step handle and its *)
(* cancel count, the quiescence map, and the callers of save(), who wait   *)
(* for a safe point of any of them.  A child is its index, child_seq when  *)
(* it was started.                                                         *)
(*                                                                         *)
(* Every await at which another task can run is a step boundary; emitting  *)
(* an event is one, because a full subscriber makes the emitter wait.      *)
(***************************************************************************)
EXTENDS Naturals, Sequences, FiniteSets, Functions, SequencesExt

CONSTANTS Node,         \* the node, as a key of the quiescence map
          SessionPath,  \* where a durable safe point writes
          Saves,        \* calls of save()
          PathOf,       \* the path each of them names
          MaxKids, MaxPauses, MaxCuts, MaxCrashes

Kids == 0 .. MaxKids - 1
Paths == {SessionPath} \cup {PathOf[s] : s \in Saves}

ASSUME ChildrenAssumption ==
    /\ {MaxKids, MaxCuts, MaxCrashes} \subseteq Nat
    /\ MaxPauses \in {0, 1}      \* a second one is RunControl's and Workflow's
    /\ DOMAIN PathOf = Saves /\ IsFiniteSet(Saves)
    /\ Node \notin Kids \cup Saves \* who writes has a name of its own
    /\ SessionPath \notin Kids \cup Saves \cup {Node}
    /\ Kids \cap Saves = {}

VARIABLES body,     \* where the node's body is, whom it awaits, is it cut?
          seq,      \* child_seq
          kid,      \* each child's task, cancel count, reason and ending
          group,    \* the task group: "open", "aborting" or "closed"
          counted,  \* the quiescence map: a partial function
          run, gate,
          rec,      \* child_seq in the node's record
          write,    \* the checkpoint being written by the holder of the lock
          final,    \* what the terminal checkpoint still has to write to
          sv,       \* each call of save()
          file,     \* what each path holds
          \* history
          during,   \* saves asked for while a checkpoint was being written
          struck,   \* children the group's abort cut
          lost,     \* children left in the map by a task that never entered
          kept,     \* ids the node's written snapshots of this process count
          before,   \* ... of earlier processes
          count

tasks == <<body, seq, kid, group, lost, struck>>
saving == <<write, sv, file, final, during>>
vars == <<tasks, counted, run, gate, rec, saving, kept, before, count>>

NewKid == [st |-> "none", cuts |-> 0, cut |-> FALSE, reason |-> "none", how |-> "none"]
NewBody == [pc |-> "working", on |-> {}, cut |-> FALSE, end |-> "none"]
NoWrite == [by |-> {}, doc |-> {}, todo |-> <<>>, done |-> {}]
Absent == [there |-> FALSE, asked |-> {}, seq |-> 0]

Over == {"done", "cut", "failed", "cancelled"}     \* the task has ended
Live == {"created", "entering", "working", "parked", "leaving"}
BodyOver == {"returned", "failed", "cancelled"}

Quiet(p) == \A k \in DOMAIN p : p[k] # "running"
Counting(p) ==
    /\ counted' = p
    /\ run' = IF gate /\ run = "pausing" /\ Quiet(p) THEN "paused" ELSE run
With(k, ph) == [j \in DOMAIN counted \cup {k} |-> IF j = k THEN ph ELSE counted[j]]
Without(k) == Restrict(counted, DOMAIN counted \ {k})

Init ==
    /\ body = NewBody /\ seq = 0 /\ kid = [k \in Kids |-> NewKid] /\ group = "open"
    /\ counted = [k \in {Node} |-> "running"]
    /\ run = "running" /\ gate = FALSE
    /\ rec = 0 /\ write = NoWrite /\ final = {}
    /\ sv = [s \in Saves |-> "idle"]
    /\ file = [p \in Paths |-> Absent]
    /\ during = {} /\ struck = {} /\ lost = {} /\ kept = {} /\ before = {}
    /\ count = [pauses |-> 0, cuts |-> 0, crashes |-> 0]

(***************************************************************************)
(* Safe points and saves.                                                  *)
(***************************************************************************)
Waiting == {s \in Saves : sv[s] = "waiting"}
Asked == {s \in Saves : sv[s] # "idle"}

\* The automatic path first, then those of the awaited saves.
SaveTargets ==
    LET rest == {PathOf[s] : s \in Waiting} \ {SessionPath}
    IN  <<SessionPath>> \o SetToSeq(rest)

\* The session is serialised under the lock, after the fold.
Serialize(by, todo, snapshot) ==
    /\ write = NoWrite
    /\ write' = [by |-> {by}, doc |-> [there |-> TRUE, asked |-> Asked, seq |-> snapshot],
                 todo |-> todo, done |-> {}]

WriteFile ==
    /\ write # NoWrite /\ write.todo # <<>>
    /\ file' = [file EXCEPT ![Head(write.todo)] = write.doc]
    /\ write' = [write EXCEPT !.todo = Tail(@), !.done = @ \cup {Head(write.todo)}]
    /\ UNCHANGED <<tasks, counted, run, gate, rec, sv, final, during, kept, before, count>>

\* Mutant: whoever waits is told, whatever was written.
ReleasedAll(s) == sv[s] = "waiting"

Released(s) == sv[s] = "waiting" /\ PathOf[s] \in write.done

WrittenBy(by) ==
    /\ write.by = {by} /\ write.todo = <<>>
    /\ write' = NoWrite

\* After the bytes are down: the saves are released, then the declarer parks.
Parks(who) ==
    IF gate THEN Counting(With(who, "parked")) ELSE UNCHANGED <<counted, run>>
Release == sv' = [s \in Saves |-> IF Released(s) THEN "returned" ELSE sv[s]]

NeedsSafePoint == run # "ended" /\ ~ Quiet(counted)
Save(s) ==
    /\ sv[s] = "idle"
    /\ sv' = [sv EXCEPT ![s] = IF NeedsSafePoint THEN "waiting" ELSE "direct"]
    /\ during' = IF write # NoWrite THEN during \cup {s} ELSE during
    /\ UNCHANGED <<tasks, counted, run, gate, rec, write, file, final, kept, before, count>>

SaveDirect(s) ==
    /\ sv[s] = "direct" /\ write.by # {s}
    /\ Serialize(s, <<PathOf[s]>>, rec)
    /\ UNCHANGED <<tasks, counted, run, gate, rec, sv, file, final, during, kept, before, count>>

SavedDirect(s) ==
    /\ WrittenBy(s)
    /\ sv' = [sv EXCEPT ![s] = "returned"]
    /\ UNCHANGED <<tasks, counted, run, gate, rec, file, final, during, kept, before, count>>

Timeout(s) ==
    /\ sv[s] = "waiting"
    /\ sv' = [sv EXCEPT ![s] = "timed out"]
    /\ UNCHANGED <<tasks, counted, run, gate, rec, write, file, final, during, kept, before, count>>

(***************************************************************************)
(* The node's body.  Its checkpoint folds the snapshot into the record.    *)
(***************************************************************************)
BodyAt(pc) == body.pc = pc /\ ~ body.cut
Goes(pc) == body' = [body EXCEPT !.pc = pc, !.on = {}]

Snapshot == seq
Checkpoint ==
    /\ body.pc \in {"working", "closing"} /\ ~ body.cut
    /\ Serialize(Node, SaveTargets, Snapshot)
    /\ rec' = Snapshot
    /\ Goes(IF body.pc = "working" THEN "writing" ELSE "completing")
    /\ UNCHANGED <<seq, kid, group, lost, struck, counted, run, gate, sv, file, final,
                   during, kept, before, count>>

NodeWritten ==
    /\ body.pc \in {"writing", "completing"} /\ ~ body.cut
    /\ WrittenBy(Node) /\ Release /\ Parks(Node)
    /\ Goes(CASE gate /\ body.pc = "writing" -> "parked"
              [] gate /\ body.pc = "completing" -> "parked at the end"
              [] ~ gate /\ body.pc = "writing" -> "working"
              [] OTHER -> "ending")
    /\ kept' = kept \cup 0 .. seq - 1
    /\ UNCHANGED <<seq, kid, group, lost, struck, gate, rec, file, final, during, before, count>>

Unpark ==
    /\ ~ gate /\ body.pc \in {"parked", "parked at the end"} /\ ~ body.cut
    /\ Goes(IF body.pc = "parked" THEN "working" ELSE "ending")
    /\ Counting(With(Node, "running"))
    /\ UNCHANGED <<seq, kid, group, lost, struck, gate, rec, saving, kept, before, count>>

\* _start: the counter moves and the child is registered, in one step; the
\* event it emits is a step of its own, and only then is there a task.
Start(delegated) ==
    /\ BodyAt("working") /\ seq < MaxKids
    /\ seq' = seq + 1
    /\ kid' = [kid EXCEPT ![seq] = [NewKid EXCEPT !.st = "registered"]]
    /\ Counting(With(seq, "running"))
    /\ body' = [body EXCEPT !.pc = IF delegated THEN "delegating" ELSE "spawning",
                            !.on = {seq}]
    /\ UNCHANGED <<group, lost, struck, gate, rec, saving, kept, before, count>>

CreateTask(k) ==
    /\ body.pc \in {"delegating", "spawning"} /\ ~ body.cut
    /\ body.on = {k} /\ kid[k].st = "registered"
    /\ kid' = [kid EXCEPT ![k].st = "created"]
    /\ UNCHANGED <<body, seq, group, lost, struck, counted, run, gate, rec, saving, kept,
                   before, count>>

\* `running` is set by the first line the child's task runs.
Entered(k) == kid[k].st \in Over \cup (Live \ {"created"})

Spawned(k) ==
    /\ BodyAt("spawning") /\ body.on = {k} /\ Entered(k)
    /\ Goes("working")
    /\ UNCHANGED <<seq, kid, group, lost, struck, counted, run, gate, rec, saving, kept,
                   before, count>>

Await(ks) ==
    /\ \/ BodyAt("delegating") /\ ks = body.on /\ \A k \in ks : Entered(k)
       \/ BodyAt("working") /\ ks # {} /\ \A k \in ks : kid[k].st # "none"
    /\ body' = [body EXCEPT !.pc = "waiting", !.on = ks]
    /\ Counting(With(Node, "blocked_on_child"))
    /\ UNCHANGED <<seq, kid, group, lost, struck, gate, rec, saving, kept, before, count>>

\* handle.result() raises what the child raised.
Collect ==
    /\ BodyAt("waiting") /\ \A k \in body.on : kid[k].st \in Over
    /\ Goes(CASE \E k \in body.on : kid[k].st = "failed" -> "failed"
              [] \E k \in body.on : kid[k].st = "cancelled" -> "cancelled"
              [] OTHER -> "working")
    /\ Counting(With(Node, "running"))
    /\ UNCHANGED <<seq, kid, group, lost, struck, gate, rec, saving, kept, before, count>>

BodyEnds(how) ==
    /\ BodyAt("working")
    /\ Goes(how)
    /\ UNCHANGED <<seq, kid, group, lost, struck, counted, run, gate, rec, saving, kept,
                   before, count>>

\* The abort reaches the body wherever it waits.  A child it had registered
\* and made no task for stays in the map; so does the lock's holder leave it.
BodyCut ==
    /\ body.cut
    /\ body' = [body EXCEPT !.on = {}, !.cut = FALSE,
                    !.end = IF group = "closed" THEN "cancelled" ELSE @,
                    !.pc = IF group = "closed" THEN "ending" ELSE "cancelled"]
    /\ lost' = lost \cup {k \in body.on : kid[k].st = "registered"}
    /\ IF write.by = {Node} THEN write' = NoWrite ELSE UNCHANGED write
    /\ Counting(IF counted[Node] = "running" THEN counted ELSE With(Node, "running"))
    /\ UNCHANGED <<seq, kid, group, struck, gate, rec, sv, file, final, during, kept, before, count>>

(***************************************************************************)
(* The children's tasks.                                                   *)
(***************************************************************************)
Steps == <<seq, group, struck, gate, rec, kept, before, count>>
KidAt(k, st) == kid[k].st = st /\ ~ kid[k].cut
To(k, st) == kid' = [kid EXCEPT ![k].st = st]

\* _run_agent's first lines: running.set(), the step is bound and registered,
\* and AgentLoop._enter registers the agent a second time.
Enter(k) ==
    /\ KidAt(k, "created") /\ To(k, "entering")
    /\ Counting(With(k, "running"))
    /\ UNCHANGED <<Steps, body, lost, saving>>

Work(k) ==
    /\ KidAt(k, "entering") /\ To(k, "working")
    /\ UNCHANGED <<Steps, body, lost, saving, counted, run>>

KidSafePoint(k) ==
    /\ KidAt(k, "working") /\ write.by # {k}
    /\ Serialize(k, SaveTargets, rec)
    /\ UNCHANGED <<Steps, body, kid, lost, sv, file, final, during, counted, run>>

\* The loop returns right behind a safe point, and _exit takes the agent out of
\* the map; or it goes on with its next step.
Onward(k, last) ==
    IF last
      THEN /\ kid' = [kid EXCEPT ![k].st = "leaving", ![k].how = "ok"]
           /\ Counting(Without(k))
      ELSE To(k, "working") /\ Counting(With(k, "running"))

KidWritten(k, last) ==
    /\ KidAt(k, "working") /\ WrittenBy(k) /\ Release
    /\ IF gate THEN To(k, "parked") /\ Parks(k) ELSE Onward(k, last)
    /\ UNCHANGED <<Steps, body, lost, file, final, during>>

KidUnparks(k, last) ==
    /\ ~ gate /\ KidAt(k, "parked") /\ Onward(k, last)
    /\ UNCHANGED <<Steps, body, lost, saving>>

\* A step of the loop raises, and _exit runs all the same.
KidFails(k) ==
    /\ KidAt(k, "working") /\ write.by # {k}
    /\ kid' = [kid EXCEPT ![k].st = "leaving", ![k].how = "failed"]
    /\ Counting(Without(k))
    /\ UNCHANGED <<Steps, body, lost, saving>>

\* A CancelledError reaches the child.  Its first await is in _enter, before
\* the `try` whose `finally` would take it out of the map.
KidCut(k) ==
    /\ kid[k].cut
    /\ kid' = [kid EXCEPT ![k].cut = FALSE, ![k].how = "cut",
                          ![k].st = IF @ = "created" THEN "cancelled" ELSE "leaving"]
    /\ IF kid[k].st \in {"created", "entering"}
         THEN lost' = lost \cup {k} /\ UNCHANGED <<counted, run>>
         ELSE UNCHANGED lost /\ Counting(Without(k))
    /\ IF write.by = {k} THEN write' = NoWrite ELSE UNCHANGED write
    /\ UNCHANGED <<Steps, body, sv, file, final, during>>

\* Mutant: a recoverable reason is enough.
AbsorbsByReason(k) == kid[k].reason = "user_interrupt"

\* should_absorb: the reason is recoverable and the count grew by one only.
Absorbs(k) == kid[k].reason = "user_interrupt" /\ kid[k].cuts = 1

KidEnds(k) ==
    /\ KidAt(k, "leaving")
    /\ kid' = [kid EXCEPT
         ![k].st = CASE kid[k].how = "ok" -> "done"
                     [] kid[k].how = "failed" -> "failed"
                     [] OTHER -> IF Absorbs(k) THEN "cut" ELSE "cancelled",
         ![k].cuts = IF kid[k].how = "cut" /\ Absorbs(k) THEN @ - 1 ELSE @]
    /\ UNCHANGED <<Steps, body, lost, saving, counted, run>>

(***************************************************************************)
(* Cancellation.                                                           *)
(***************************************************************************)
\* A task to cancel: from the moment a handle of it can be in use.
Reachable(k) == kid[k].st \in Live \ {"created"}

\* request_cancel: the first reason wins, and it is set before the throw.
Interrupt(k) ==
    /\ count.cuts < MaxCuts
    /\ Reachable(k) /\ kid[k].reason = "none"
    /\ kid' = [kid EXCEPT ![k].reason = "user_interrupt", ![k].cuts = @ + 1, ![k].cut = TRUE]
    /\ count' = [count EXCEPT !.cuts = @ + 1]
    /\ UNCHANGED <<body, seq, group, lost, struck, counted, run, gate, rec, saving, kept, before>>

Struck(reason) ==
    [k \in Kids |-> IF kid[k].st \notin Live THEN kid[k]
       ELSE [kid[k] EXCEPT !.cuts = @ + 1, !.cut = TRUE,
                           !.reason = IF @ = "none" THEN reason ELSE @]]

\* TaskGroup._abort: every task that has not ended is cancelled, the body's
\* too, and no reason is recorded.
Abort ==
    /\ group = "open"
    /\ body.pc = "failed" \/ \E k \in Kids : kid[k].st = "failed"
    /\ group' = "aborting"
    /\ kid' = Struck("none")
    /\ struck' = {k \in Kids : kid[k].st \in Live}
    /\ body' = IF body.pc \in BodyOver THEN body ELSE [body EXCEPT !.cut = TRUE]
    /\ UNCHANGED <<seq, lost, counted, run, gate, rec, saving, kept, before, count>>

\* Controller.cancel(): the steps in flight by their handles, then the body of
\* the run, whose task group cancels what is in it once more.
CancelRun ==
    /\ count.cuts < MaxCuts /\ run # "ended" /\ body.pc # "left"
    /\ count' = [count EXCEPT !.cuts = @ + 1]
    /\ group' = IF group = "open" THEN "aborting" ELSE group
    /\ kid' = Struck("run_cancelled")
    /\ struck' = struck \cup {k \in Kids : kid[k].st \in Live}
    /\ body' = IF body.pc \in BodyOver \cup {"ending"} THEN body
                 ELSE [body EXCEPT !.cut = TRUE]
    /\ gate' = FALSE /\ run' = "running"
    /\ UNCHANGED <<seq, lost, counted, rec, saving, kept, before>>

\* The group waits for all its tasks, and the runner records what came of it.
CloseGroup ==
    /\ group # "closed"
    /\ body.pc \in BodyOver /\ \A k \in Kids : kid[k].st \notin Live
    /\ group' = "closed"
    /\ body' = LET end == IF body.pc = "failed" \/ \E k \in Kids : kid[k].st = "failed"
                            THEN "failed" ELSE body.pc
               IN  [body EXCEPT !.end = end,
                                !.pc = IF end = "returned" THEN "closing" ELSE "ending"]
    /\ UNCHANGED <<seq, kid, lost, struck, counted, run, gate, rec, saving, kept, before, count>>

\* exit_node.  What the runner does next, and its own key, are Workflow's.
Exit ==
    /\ body.pc = "ending"
    /\ Goes("left")
    /\ counted' = Without(Node)
    /\ UNCHANGED <<seq, kid, group, lost, struck, run, gate, rec, saving, kept, before, count>>

\* _finish, and _checkpoint_terminal, which chooses its paths before the lock.
Finish ==
    /\ body.pc = "left" /\ run # "ended"
    /\ run' = "ended" /\ gate' = FALSE
    /\ final' = Range(SaveTargets)
    /\ UNCHANGED <<tasks, counted, rec, write, sv, file, during, kept, before, count>>

TerminalWrite ==
    /\ final # {}
    /\ Serialize(SessionPath, SetToSeq(final), rec)
    /\ final' = {}
    /\ UNCHANGED <<tasks, counted, run, gate, rec, sv, file, during, kept, before, count>>

TerminalWritten ==
    /\ WrittenBy(SessionPath) /\ Release
    /\ UNCHANGED <<tasks, counted, run, gate, rec, file, final, during, kept, before, count>>

(***************************************************************************)
(* The user, and the process's death.                                      *)
(***************************************************************************)
Pause ==
    /\ run = "running" /\ body.pc # "left" /\ count.pauses < MaxPauses
    /\ gate' = TRUE
    /\ run' = IF Quiet(counted) THEN "paused" ELSE "pausing"
    /\ count' = [count EXCEPT !.pauses = @ + 1]
    /\ UNCHANGED <<tasks, counted, rec, saving, kept, before>>

Resume ==
    /\ gate
    /\ gate' = FALSE /\ run' = "running"
    /\ UNCHANGED <<tasks, counted, rec, saving, kept, before, count>>

\* Mutant: a node entered again counts from zero.
AdoptedAsNew(envelope) == 0

\* NodeContext.adopt: the counter goes on from the envelope.
Adopted(envelope) == envelope

\* Another process loads session_path and the runner enters the node again.
CrashAndLoad ==
    /\ count.crashes < MaxCrashes /\ run # "ended" /\ body.pc # "left"
    /\ count' = [count EXCEPT !.crashes = @ + 1]
    /\ body' = NewBody /\ group' = "open" /\ kid' = [k \in Kids |-> NewKid]
    /\ rec' = file[SessionPath].seq /\ seq' = Adopted(file[SessionPath].seq)
    /\ counted' = [k \in {Node} |-> "running"] /\ run' = "running" /\ gate' = FALSE
    /\ write' = NoWrite /\ final' = {} /\ struck' = {} /\ lost' = {}
    /\ sv' = [s \in Saves |-> IF sv[s] = "idle" THEN "idle" ELSE "died"]
    /\ before' = before \cup kept /\ kept' = {}
    /\ UNCHANGED <<file, during>>

Next ==
    \/ \E s \in Saves : Save(s) \/ SaveDirect(s) \/ SavedDirect(s) \/ Timeout(s)
    \/ WriteFile \/ TerminalWrite \/ TerminalWritten
    \/ Checkpoint \/ NodeWritten \/ Unpark
    \/ \E delegated \in BOOLEAN : Start(delegated)
    \/ \E ks \in SUBSET Kids : Await(ks)
    \/ Collect \/ (\E how \in {"returned", "failed"} : BodyEnds(how)) \/ BodyCut
    \/ \E k \in Kids :
         \/ CreateTask(k) \/ Spawned(k)
         \/ Enter(k) \/ Work(k) \/ KidSafePoint(k) \/ KidFails(k)
         \/ \E last \in BOOLEAN : KidWritten(k, last) \/ KidUnparks(k, last)
         \/ KidCut(k) \/ KidEnds(k) \/ Interrupt(k)
    \/ Abort \/ CancelRun \/ CloseGroup \/ Exit \/ Finish
    \/ Pause \/ Resume \/ CrashAndLoad

Spec == Init /\ [][Next]_vars
=============================================================================
