------------------------------ MODULE Workflow ------------------------------
(***************************************************************************)
(* A compiled workflow graph walked by workflows/runner.py under the       *)
(* controller's memo, safe points and pause gate: the roots one after the  *)
(* other, a subgraph's nodes in order, a fan-out's branches concurrently.  *)
(* A process may die at any step; the next one loads the last file written *)
(* and walks the same graph again.                                         *)
(*                                                                         *)
(* A node's output is the number of the run of its body that produced it,  *)
(* with the outputs it was computed from.                                  *)
(***************************************************************************)
EXTENDS Naturals, Sequences, FiniteSets, Functions, SequencesExt

CONSTANTS Leaves,       \* Func, ModelCall and AgentNode nodes
          Fans,         \* FanOut and Map nodes
          Subgraphs,    \* Subgraph nodes
          Runner,       \* the runner's own quiescence key
          Declared,     \* the top-level nodes in the order of the builder calls
          Children,     \* of each container, in declaration order
          Graphs,       \* what the builder calls may ask for: the nodes each
                        \* input refers to, and the fan-outs' on_child_error and
                        \* max_concurrency (0: unbounded)
          MaxFailures, MaxPauses, MaxCrashes

Nodes == Leaves \cup Fans \cup Subgraphs
Roots == Range(Declared)
Containers == Fans \cup Subgraphs

ASSUME WorkflowAssumption ==
    /\ {Runner, "none"} \cap Nodes = {} /\ Runner # "none"
    /\ Leaves \cap Containers = {} /\ Fans \cap Subgraphs = {}
    /\ Declared \in Seq(Nodes)
    /\ Graphs \subseteq [wiring : [Nodes -> SUBSET Nodes],
                         policy : {"fail", "continue"}, limit : Nat]
    /\ {MaxFailures, MaxPauses, MaxCrashes} \subseteq Nat

\* The ids of the nodes are paths: every node is a root or in one place of one
\* container, and of any containers one is the outermost and one the innermost.
\* What fan_out() and map() put below a node has nothing below itself.
ASSUME TreeAssumption ==
    /\ Children \in [Containers -> Seq(Nodes \ Roots)]
    /\ \A n \in Nodes \ Roots : \E c \in Containers : n \in Range(Children[c])
    /\ \A c, e \in Containers : \A i \in DOMAIN Children[c], j \in DOMAIN Children[e] :
         Children[c][i] = Children[e][j] => c = e /\ i = j
    /\ \A S \in SUBSET Containers : S # {} =>
         /\ \E c \in S : \A e \in S : c \notin Range(Children[e])
         /\ \E c \in S : \A e \in S : e \notin Range(Children[c])
    /\ \A f \in Fans : Range(Children[f]) \subseteq Leaves

VARIABLES graph,    \* the graph that was built
          order,    \* its roots as compile() ordered them
          at,       \* the root being walked: an index of order
          run,      \* the run's state
          gate,     \* is a pause requested?
          woken,    \* parked nodes a resume has released
          slipped,  \* of these, the ones that went on after the gate closed again
          phase,    \* the quiescence map: a partial function
          pc,       \* where the walk is in each node
          env,      \* the outputs references can read: a partial function
          rec,      \* the node records of the session
          write,    \* the checkpoint being written, by the holder of the lock
          late,     \* bytes of cancelled writes still on their way to the file
          disk,     \* the records in the session file
          entered,  \* how often each node was entered, by any process
          kept,     \* nodes whose node_completed safe point was written
          count     \* failures, pauses and crashes so far

session == <<rec, write, late, disk>>
vars == <<graph, order, at, run, gate, woken, slipped, phase, pc, env, rec, write,
          late, disk, entered, kept, count>>

(***************************************************************************)
(* compile(): the references are checked and the roots ordered.            *)
(***************************************************************************)
ChildrenOf(n) == IF n \in Containers THEN Range(Children[n]) ELSE {}
Parent(n) == IF n \in Roots THEN Runner
             ELSE CHOOSE c \in Containers : n \in ChildrenOf(c)

Top[n \in Nodes] == IF n \in Roots THEN n ELSE Top[Parent(n)]

Below[n \in Nodes] == ChildrenOf(n) \cup UNION {Below[m] : m \in ChildrenOf(n)}

\* A branch refers to nothing but its container's input; a subgraph was compiled
\* by itself, so that its nodes refer to what comes before them in it.
ASSUME InnerAssumption ==
    \A g \in Graphs :
        /\ \A f \in Fans : \A n \in Range(Children[f]) : g.wiring[n] = {}
        /\ \A s \in Subgraphs : \A i \in DOMAIN Children[s] : \A d \in g.wiring[Children[s][i]] :
             \E j \in 1 .. i - 1 : d = Children[s][j] \/ d \in Below[Children[s][j]]

Unordered == <<Runner>>

\* Mutant: the roots in the order of the builder calls.
AsDeclared(w) == Declared

\* The nodes of a line that are in S, in the order of the line.
Among(line, S) ==
    LET upto[i \in 0 .. Len(line)] ==
          IF i = 0 THEN <<>>
          ELSE IF line[i] \in S THEN Append(upto[i - 1], line[i]) ELSE upto[i - 1]
    IN  upto[Len(line)]

\* The roots that are still to be placed, in passes over the declarations.
TopologicalOrder(w) ==
    LET Ready(left) == {r \in left : \A d \in w[r] : Top[d] \notin left}
        From[left \in SUBSET Roots] ==
            IF left = {} THEN <<>>
            ELSE IF Ready(left) = {} THEN Unordered
            ELSE Among(Declared, Ready(left))
                     \o From[left \ Ready(left)]
    IN  From[Roots]

Compiles(w) == Runner \notin Range(TopologicalOrder(w))

(***************************************************************************)
(* Quiescence.                                                             *)
(***************************************************************************)
Quiet(p) == \A k \in DOMAIN p : p[k] # "running"

\* Every change of the map settles a pending pause if it leaves it quiet.
Phases(p) ==
    /\ phase' = p
    /\ run' = IF gate /\ run = "pausing" /\ Quiet(p) THEN "paused" ELSE run

With(n, ph) == [k \in DOMAIN phase \cup {n} |-> IF k = n THEN ph ELSE phase[k]]
Without(ns) == Restrict(phase, DOMAIN phase \ ns)

NewRecord == [status |-> "none", body |-> 0, from |-> <<>>]
NoWrite == [by |-> "none", data |-> <<>>]

Ended == {"completed", "failed"}

Init ==
    /\ graph \in {g \in Graphs : Compiles(g.wiring)}
    /\ order = TopologicalOrder(graph.wiring)
    /\ at = 1
    /\ run = "running" /\ gate = FALSE /\ woken = {} /\ slipped = {}
    /\ phase = [k \in {Runner} |-> "running"]
    /\ pc = [n \in Nodes \cup {Runner} |-> IF n = Runner THEN "enter" ELSE "idle"]
    /\ env = <<>>
    /\ rec = [n \in Nodes |-> NewRecord]
    /\ write = NoWrite /\ late = {}
    /\ disk = rec
    /\ entered = [n \in Nodes |-> 0]
    /\ kept = {}
    /\ count = [failures |-> 0, pauses |-> 0, crashes |-> 0]

(***************************************************************************)
(* Safe points: fold under the lock, write the file, then park.            *)
(***************************************************************************)
\* Mutant: a checkpoint adds the record of its own node to the file.
FoldOwn(n) ==
    /\ pc[n] \in {"enter", "leave", "end"}
    /\ write = NoWrite
    /\ write' = [by |-> n, data |-> [m \in Nodes |-> IF m = n THEN rec[m] ELSE disk[m]]]
    /\ UNCHANGED <<graph, order, at, run, gate, woken, slipped, phase, pc, env, rec,
                   late, disk, entered, kept, count>>

Fold(n) ==
    /\ pc[n] \in {"enter", "leave", "end"}
    /\ write = NoWrite
    /\ write' = [by |-> n, data |-> rec]
    /\ UNCHANGED <<graph, order, at, run, gate, woken, slipped, phase, pc, env,
                   rec, late, disk, entered, kept, count>>

Onward(stage) == CASE stage = "enter" -> "work"
                   [] stage = "leave" -> "exit"
                   [] stage = "end"   -> "over"

\* Mutant: the safe point does not park.
WrittenGoesOn(n) ==
    /\ write.by = n
    /\ disk' = write.data
    /\ write' = NoWrite
    /\ kept' = IF pc[n] = "leave" THEN kept \cup {n} ELSE kept
    /\ pc' = [pc EXCEPT ![n] = Onward(@)]
    /\ UNCHANGED <<graph, order, at, run, gate, woken, slipped, phase, env,
                   rec, late, entered, count>>

Written(n) ==
    /\ write.by = n
    /\ disk' = write.data
    /\ write' = NoWrite
    /\ kept' = IF pc[n] = "leave" THEN kept \cup {n} ELSE kept
    /\ IF gate /\ pc[n] # "end"
         THEN /\ pc' = [pc EXCEPT ![n] = IF @ = "enter" THEN "parked_in" ELSE "parked_out"]
              /\ Phases(With(n, "parked"))
         ELSE /\ pc' = [pc EXCEPT ![n] = Onward(@)]
              /\ UNCHANGED <<phase, run>>
    /\ UNCHANGED <<graph, order, at, gate, woken, slipped, env, rec, late,
                   entered, count>>

\* A parked node goes on once the gate opened, even if it has closed again.
Wake(n) ==
    /\ n \in woken
    /\ woken' = woken \ {n}
    /\ slipped' = IF gate THEN slipped \cup {n} ELSE slipped
    /\ pc' = [pc EXCEPT ![n] = IF @ = "parked_in" THEN "work" ELSE "exit"]
    /\ Phases(With(n, "running"))
    /\ UNCHANGED <<graph, order, at, gate, env, rec, write, late, disk,
                   entered, kept, count>>

\* The thread of a cancelled write replaces the file when it gets there.
LateWrite ==
    \E data \in late :
        /\ disk' = data
        /\ late' = late \ {data}
        /\ UNCHANGED <<graph, order, at, run, gate, woken, slipped, phase, pc, env,
                       rec, write, entered, kept, count>>

(***************************************************************************)
(* Runner.execute: the memo, then the node.                                *)
(***************************************************************************)
\* Mutant: only leaves are memoised.
CompletedLeaf(n) == n \in Leaves /\ rec[n].status = "completed"

Completed(n) == rec[n].status = "completed"

\* An output is known by the run of the body that gave it.
Output(n) == rec[n].body

Raised == {"failed", "cancelled"}
Underway == {"enter", "parked_in", "work", "wait", "leave", "parked_out", "exit"}

Before(n) ==
    LET line == Children[Parent(n)]
        i == CHOOSE j \in DOMAIN line : line[j] = n
    IN  {line[j] : j \in 1 .. i - 1}

Room(f) == \/ graph.limit = 0
           \/ Cardinality({c \in ChildrenOf(f) : pc[c] \in Underway \cup {"failed"}})
                < graph.limit

\* A branch is queued until there is room, the others are run in order.
Turn(n) ==
    \/ /\ Parent(n) \in Fans
       /\ pc[n] = "queued" /\ Room(Parent(n))
    \/ /\ Parent(n) \notin Fans
       /\ pc[n] = "idle" /\ pc[Parent(n)] = "wait"
       /\ IF n \in Roots THEN n = order[at] ELSE \A m \in Before(n) : pc[m] = "over"

Missing(n) == graph.wiring[n] \ DOMAIN env

Set(n, v) == env' = [k \in DOMAIN env \cup {n} |-> IF k = n THEN v ELSE env[k]]

Recall(n) ==
    /\ Turn(n) /\ Completed(n)
    /\ Set(n, Output(n))
    /\ pc' = [pc EXCEPT ![n] = "over"]
    /\ UNCHANGED <<graph, order, at, run, gate, woken, slipped, phase, rec,
                   write, late, disk, entered, kept, count>>

\* Resolving the input comes before the node is entered: nothing records it.
Unresolved(n) ==
    /\ Turn(n) /\ ~Completed(n) /\ Missing(n) # {}
    /\ pc' = [pc EXCEPT ![n] = "failed"]
    /\ UNCHANGED <<graph, order, at, run, gate, woken, slipped, phase, env,
                   rec, write, late, disk, entered, kept, count>>

Enter(n) ==
    /\ Turn(n) /\ ~Completed(n) /\ Missing(n) = {}
    /\ rec' = [rec EXCEPT ![n].status = "running",
                          ![n].from = [d \in graph.wiring[n] |-> env[d]]]
    /\ entered' = [entered EXCEPT ![n] = @ + 1]
    /\ pc' = [pc EXCEPT ![n] = "enter"]
    /\ Phases(With(n, "running"))
    /\ UNCHANGED <<graph, order, at, gate, woken, slipped, env, write, late,
                   disk, kept, count>>

(***************************************************************************)
(* The body.                                                               *)
(***************************************************************************)
Memoise(n, from) ==
    rec' = [rec EXCEPT ![n] = [status |-> "completed", body |-> entered[n], from |-> from]]

Return(n) ==
    /\ n \in Leaves /\ pc[n] = "work"
    /\ Memoise(n, rec[n].from)
    /\ pc' = [pc EXCEPT ![n] = "leave"]
    /\ UNCHANGED <<graph, order, at, run, gate, woken, slipped, phase, env,
                   write, late, disk, entered, kept, count>>

\* Mutant: a container stays running while its children run.
OpenRunning(n) ==
    /\ n \in Containers /\ pc[n] = "work"
    /\ pc' = [m \in DOMAIN pc |->
                IF m = n THEN "wait"
                ELSE IF m \in ChildrenOf(n) /\ n \in Fans THEN "queued" ELSE pc[m]]
    /\ UNCHANGED <<graph, order, at, run, gate, woken, slipped, phase, env,
                   rec, write, late, disk, entered, kept, count>>

\* A container is blocked on its children before any of them is registered.
Open(n) ==
    /\ n \in Containers /\ pc[n] = "work"
    /\ pc' = [m \in DOMAIN pc |->
                IF m = n THEN "wait"
                ELSE IF m \in ChildrenOf(n) /\ n \in Fans THEN "queued" ELSE pc[m]]
    /\ Phases(With(n, "blocked"))
    /\ UNCHANGED <<graph, order, at, gate, woken, slipped, env, rec, write,
                   late, disk, entered, kept, count>>

Close(n) ==
    /\ n \in Containers /\ pc[n] = "wait"
    /\ \A c \in ChildrenOf(n) : pc[c] = "over"
    /\ Memoise(n, [d \in DOMAIN rec[n].from \cup ChildrenOf(n) |->
                     IF d \in ChildrenOf(n) THEN env[d] ELSE rec[n].from[d]])
    /\ pc' = [pc EXCEPT ![n] = "leave"]
    /\ Phases(With(n, "running"))
    /\ UNCHANGED <<graph, order, at, gate, woken, slipped, env, write, late,
                   disk, entered, kept, count>>


Exit(n) ==
    /\ n \in Nodes /\ pc[n] = "exit"
    /\ Set(n, Output(n))
    /\ pc' = [pc EXCEPT ![n] = "over"]
    /\ Phases(Without({n}))
    /\ UNCHANGED <<graph, order, at, gate, woken, slipped, rec, write, late,
                   disk, entered, kept, count>>

(***************************************************************************)
(* Failures.                                                               *)
(***************************************************************************)
Failed(n) ==
    /\ rec' = [rec EXCEPT ![n].status = "failed"]
    /\ pc' = [pc EXCEPT ![n] = "failed"]
    /\ Phases(Without({n}))

Fail(n) ==
    /\ n \in Leaves /\ pc[n] = "work"
    /\ count.failures < MaxFailures
    /\ count' = [count EXCEPT !.failures = @ + 1]
    /\ Failed(n)
    /\ UNCHANGED <<graph, order, at, gate, woken, slipped, env, write, late,
                   disk, entered, kept>>

\* The fold refuses the node's state, or the file cannot be written.
Unsaved(n) ==
    /\ n \in Nodes /\ pc[n] \in {"enter", "leave"} /\ write.by \in {"none", n}
    /\ count.failures < MaxFailures
    /\ count' = [count EXCEPT !.failures = @ + 1]
    /\ write' = NoWrite
    /\ Failed(n)
    /\ UNCHANGED <<graph, order, at, gate, woken, slipped, env, late, disk,
                   entered, kept>>

Continues(n) == Parent(n) \in Fans /\ graph.policy = "continue"

\* on_error="continue": the failure becomes the node's value, and is memoised.
Caught(n) ==
    /\ n \in Nodes /\ pc[n] = "failed" /\ Continues(n)
    /\ Memoise(n, rec[n].from)
    /\ Set(n, entered[n])
    /\ pc' = [pc EXCEPT ![n] = "over"]
    /\ UNCHANGED <<graph, order, at, run, gate, woken, slipped, phase, write,
                   late, disk, entered, kept, count>>

\* The first failure of a branch cancels the others, and all they contain.
Abort(f) ==
    LET cut == {m \in Below[f] : pc[m] \in Underway \cup {"queued"}}
    IN  /\ f \in Fans /\ pc[f] = "wait"
        /\ \E c \in ChildrenOf(f) : pc[c] = "failed" /\ ~Continues(c)
        /\ cut # {}
        /\ pc' = [m \in DOMAIN pc |-> IF m \in cut THEN "cancelled" ELSE pc[m]]
        /\ woken' = woken \ cut
        /\ Phases(Without(cut))
        /\ IF write.by \in cut
             THEN write' = NoWrite /\ late' = late \cup {write.data}
             ELSE UNCHANGED <<write, late>>
        /\ UNCHANGED <<graph, order, at, gate, slipped, env, rec, disk,
                       entered, kept, count>>

\* A container fails with the child that failed, once nothing of it is left.
FailUp(n) ==
    /\ n \in Containers /\ pc[n] = "wait"
    /\ \E c \in ChildrenOf(n) : pc[c] = "failed" /\ ~Continues(c)
    /\ \A m \in Below[n] : pc[m] \notin Underway \cup {"queued"}
    /\ Failed(n)
    /\ UNCHANGED <<graph, order, at, gate, woken, slipped, env, write, late,
                   disk, entered, kept, count>>

(***************************************************************************)
(* Runner.run: a safe point before each root and after the last, then the  *)
(* controller ends the run and writes its last checkpoint.                 *)
(***************************************************************************)
Walk ==
    /\ pc[Runner] = "work" /\ at \in DOMAIN order
    /\ pc' = [pc EXCEPT ![Runner] = "wait"]
    /\ Phases(With(Runner, "blocked"))
    /\ UNCHANGED <<graph, order, at, gate, woken, slipped, env, session,
                   entered, kept, count>>

NextRoot ==
    /\ pc[Runner] = "wait" /\ pc[order[at]] = "over"
    /\ at' = at + 1
    /\ pc' = [pc EXCEPT ![Runner] = "enter"]
    /\ Phases(With(Runner, "running"))
    /\ UNCHANGED <<graph, order, gate, woken, slipped, env, session, entered,
                   kept, count>>

Finish ==
    /\ \/ pc[Runner] = "work" /\ at \notin DOMAIN order /\ run' = "completed"
       \/ pc[Runner] = "wait" /\ pc[order[at]] = "failed" /\ run' = "failed"
    /\ phase' = Without({Runner})
    /\ pc' = [pc EXCEPT ![Runner] = "end"]
    /\ UNCHANGED <<graph, order, at, gate, woken, slipped, env, session,
                   entered, kept, count>>

(***************************************************************************)
(* The commands, and the death of the process.                             *)
(***************************************************************************)
Pause ==
    /\ run = "running" /\ count.pauses < MaxPauses
    /\ gate' = TRUE
    /\ run' = IF Quiet(phase) THEN "paused" ELSE "pausing"
    /\ count' = [count EXCEPT !.pauses = @ + 1]
    /\ UNCHANGED <<graph, order, at, woken, slipped, phase, pc, env, session,
                   entered, kept>>

\* start(): the run body, up to its first safe point while the gate is closed.
Begin == IF pc[Runner] = "idle"
         THEN /\ phase' = With(Runner, "running")
              /\ pc' = [pc EXCEPT ![Runner] = "enter"]
         ELSE UNCHANGED <<phase, pc>>

Resume ==
    /\ run \in {"pausing", "paused"}
    /\ gate' = FALSE /\ run' = "running"
    /\ woken' = woken \cup {n \in DOMAIN phase : phase[n] = "parked"}
    /\ Begin
    /\ slipped' = {}
    /\ UNCHANGED <<graph, order, at, env, session, entered, kept, count>>

StartPaused ==
    /\ run = "paused" /\ pc[Runner] = "idle"
    /\ Begin
    /\ UNCHANGED <<graph, order, at, run, gate, woken, slipped, env, session,
                   entered, kept, count>>

\* The process dies; the next one loads the file and is paused before it starts.
CrashAndLoad ==
    /\ count.crashes < MaxCrashes
    /\ count' = [count EXCEPT !.crashes = @ + 1]
    /\ rec' = disk
    /\ write' = NoWrite /\ late' = {}
    /\ run' = "paused" /\ gate' = TRUE /\ woken' = {} /\ slipped' = {}
    /\ phase' = <<>> /\ env' = <<>> /\ at' = 1
    /\ pc' = [n \in DOMAIN pc |-> "idle"]
    /\ UNCHANGED <<graph, order, disk, entered, kept>>

NodeStep(n) ==
    \/ Recall(n) \/ Unresolved(n) \/ Enter(n)
    \/ Return(n) \/ Open(n) \/ Close(n) \/ Exit(n)
    \/ Caught(n) \/ Abort(n) \/ FailUp(n)

Progress ==
    \/ \E n \in Nodes : NodeStep(n)
    \/ \E n \in Nodes \cup {Runner} : Fold(n) \/ Written(n) \/ Wake(n)
    \/ LateWrite \/ Walk \/ NextRoot \/ Finish

Done == run \in Ended /\ pc[Runner] = "over" /\ late = {} /\ UNCHANGED vars

Next ==
    \/ Progress
    \/ \E n \in Nodes : Fail(n) \/ Unsaved(n)
    \/ Pause \/ Resume \/ StartPaused \/ CrashAndLoad
    \/ Done

Spec == Init /\ [][Next]_vars

\* Tasks are run by the event loop and bodies end; nobody has to resume.
FairSpec ==
    /\ Spec
    /\ \A n \in Nodes : WF_vars(NodeStep(n))
    /\ \A n \in Nodes \cup {Runner} : WF_vars(Fold(n) \/ Written(n) \/ Wake(n))
    /\ WF_vars(Walk \/ NextRoot \/ Finish)
=============================================================================
