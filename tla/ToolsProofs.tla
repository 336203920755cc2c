----------------------------- MODULE ToolsProofs -----------------------------
(***************************************************************************)
(* For any agents, turns, bounds and retries: what a turn's calls do to    *)
(* the world they do in their turn, in a bounded crowd and once; a step    *)
(* that is over has left no command behind; the screen and the transcript  *)
(* agree on every call, and the model is given no more than fits.          *)
(***************************************************************************)
EXTENDS ToolsProps, FiniteSetTheorems, WellFoundedInduction, TLAPS

Phases == InCall \cup {"waiting", "done", "cut"}
Outcomes == {"none", "ok", "error", "failure", "timeout", "invalid", "denied", "budget"}
Kills == {"none", "term", "called", "aborted"} \cup Ended
CallType == [phase : Phases, outcome : Outcomes, runs : Nat, size : Nat]
TreeType == [root : {"none", "alive", "dead"}, leaf : {"none", "alive", "dead"},
             stubborn : SUBSET Processes, live : BOOLEAN, kill : Kills]

ToolTypes ==
  /\ turn \in [Agents -> Turns]
  /\ at \in [Agents -> {"ready", "dispatching", "unwound", "draining", "over", "gone"}]
  /\ calls = [a \in Agents |-> calls[a]] /\ \A a \in Agents : calls[a] \in [Index(a) -> CallType]
  /\ tree \in [Keys -> TreeType]
  /\ cleanups \in [Agents -> SUBSET Keys] /\ waits \in [Agents -> SUBSET Keys]

\* How often a tool ran, by how far its call is: it rests only before a retry it is allowed,
\* and a call that was turned down is on its way out.
CallHolds(c, t) ==
  /\ c.phase \in {"waiting", "asking"} => c.runs = 0
  /\ c.phase \in {"running", "ran", "stopping", "resting"} => c.runs > 0
  /\ c.phase = "resting" => c.runs <= Allowed(t)
  /\ c.runs <= 1 + Allowed(t)
  /\ c.outcome \in {"denied", "invalid"} => c.runs = 0 /\ c.phase \in {"telling", "done", "cut"}

\* What a descendant survives: a killing that ended with SIGTERM, if it ignores that.
LeafHolds(t) ==
  /\ t.leaf = "alive" /\ t.kill \in {"term", "eased"} => "leaf" \in t.stubborn
  /\ t.kill = "killed" => t.leaf # "alive"

\* A command is alive only while its call runs, is being stopped, or was cut; a kill that
\* is done has killed it.
TreeHolds(t, p, tool) ==
  /\ t.root # "none" => tool = "shell"
  /\ t.root = "alive" => p \in {"running", "stopping", "cut"}
  /\ t.root = "alive" => t.kill \notin Ended
  /\ p = "running" /\ t.root = "alive" => t.live
  /\ p = "stopping" /\ t.root = "alive" => t.kill = "term"
  /\ t.kill = "called" => p = "cut"
  /\ LeafHolds(t)

CallsHold ==
  \A a \in Agents : \A i \in Index(a) :
    /\ CallHolds(calls[a][i], Tool(a, i))
    /\ TreeHolds(tree[<<a, i>>], calls[a][i].phase, Tool(a, i))

\* A call begins behind calls that are over.
BehindOver ==
  \A a \in Agents : \A i, j \in Index(a) :
    i < j /\ ~SameRun(a, i, j) /\ calls[a][j].phase # "waiting" =>
      calls[a][i].phase \in {"done", "cut"}

\* A cleanup is of a call that was cut.
CleanupsOfCut ==
  \A a \in Agents : \A i \in Index(a) :
    (\E b \in Agents : <<a, i>> \in cleanups[b] \cup waits[b]) => calls[a][i].phase = "cut"

EffectsInv == CallsHold /\ BehindOver /\ InParallel /\ CleanupsOfCut

\* When its step is cut or over, no call of an agent is under way.
LateIsQuiet ==
  \A a \in Agents : at[a] \in {"unwound", "draining", "over", "gone"} =>
    \A i \in Index(a) : calls[a][i].phase \notin InCall

\* A command that outlives its call is being killed by a cleanup that the step's drain
\* will wait for, or waits for, unless the killing was cut short.
CleanupsHold ==
  \A a \in Agents : \A j \in Index(a) :
    calls[a][j].phase = "cut" /\ tree[<<a, j>>].root = "alive" =>
      \/ tree[<<a, j>>].kill = "aborted"
      \/ /\ tree[<<a, j>>].kill \in {"called", "term"}
         /\ \/ at[a] = "gone"
            \/ at[a] = "unwound" /\ <<a, j>> \in cleanups[a]
            \/ at[a] = "draining" /\ <<a, j>> \in waits[a]

\* What was told of an agent's calls, by how far each is: what is kept is what is done, and
\* when the step is over the transcript has what was told last.
Said(outcome) == IF outcome = "ok" THEN "completed" ELSE "failed"
Shows(outcome) == IF outcome = "cancelled" THEN "cancelled" ELSE Said(outcome)
ToldOf(a) ==
  /\ DOMAIN kept[a] = {i \in Index(a) : calls[a][i].phase = "done"}
  /\ \A j \in DOMAIN kept[a] : kept[a][j] = calls[a][j].outcome
  /\ \A k \in Index(a) : calls[a][k].phase \in {"telling", "done"} /\ at[a] # "over" =>
       heard[<<a, k>>] = <<Said(calls[a][k].outcome)>>
  /\ at[a] # "over" => \A l \in Index(a) :
       calls[a][l].phase \notin {"telling", "done", "cut"} => heard[<<a, l>>] = <<>>
  /\ at[a] = "over" =>
       /\ Len(message[a]) = Len(turn[a])
       /\ \A m \in Index(a) :
            /\ heard[<<a, m>>] # <<>>
            /\ heard[<<a, m>>][Len(heard[<<a, m>>])] = Shows(message[a][m])
            /\ calls[a][m].phase = "done" => Len(heard[<<a, m>>]) = 1

ToldHold ==
  /\ heard \in [Keys -> Seq({"completed", "failed", "cancelled"})]
  /\ kept = [a \in Agents |-> kept[a]] /\ message = [a \in Agents |-> message[a]]
  /\ \A a \in Agents : ToldOf(a)

-----------------------------------------------------------------------------
(* The turns and their calls *)

\* The longest turn there is bounds the calls of every turn.
LEMMA LongestTurn ==
  MaxCalls \in Nat /\ \A t \in Turns : Len(t) \in Nat /\ Len(t) <= MaxCalls /\ DOMAIN t = 1..Len(t)
<1>1. \A t \in Turns : Len(t) \in Nat /\ DOMAIN t = 1..Len(t)
  BY ToolsAssumption
<1>2. PICK longest \in Turns : \A t \in Turns : Len(t) <= Len(longest)
  BY ToolsAssumption
<1>3. Len(longest) \in {Len(t) : t \in Turns} /\ \A t \in Turns : Len(t) <= Len(longest)
  BY <1>2
<1>4. MaxCalls \in {Len(t) : t \in Turns} /\ \A t \in Turns : Len(t) <= MaxCalls
  BY <1>3 DEF MaxCalls
<1> QED  BY <1>1, <1>4

\* Every call of an agent has its key.
LEMMA CallsAreKeys ==
  ASSUME ToolTypes, NEW a \in Agents, NEW i \in Index(a)
  PROVE  /\ turn[a] \in Turns /\ Index(a) = 1..Len(turn[a]) /\ Len(turn[a]) \in Nat
         /\ i \in Nat /\ i \in 1..MaxCalls /\ <<a, i>> \in Keys
<1>1. turn[a] \in Turns
  BY DEF ToolTypes
<1>2. Index(a) = 1..Len(turn[a]) /\ Len(turn[a]) \in Nat /\ Len(turn[a]) <= MaxCalls /\ MaxCalls \in Nat
  BY <1>1, LongestTurn DEF Index
<1>3. i \in Nat /\ i \in 1..MaxCalls
  BY <1>2
<1> QED  BY <1>1, <1>2, <1>3 DEF Keys

LEMMA CallsAreFinite ==
  ASSUME ToolTypes, NEW a \in Agents
  PROVE  IsFiniteSet(Index(a))
<1>1. turn[a] \in Turns
  BY DEF ToolTypes
<1>2. Index(a) = 1..Len(turn[a]) /\ Len(turn[a]) \in Nat
  BY <1>1, LongestTurn DEF Index
<1> QED  BY <1>2, FS_Interval

LEMMA KeysAreFinite == IsFiniteSet(Keys)
<1>1. IsFiniteSet(1..MaxCalls)
  BY LongestTurn, FS_Interval
<1> QED  BY <1>1, FS_Product, ToolsAssumption DEF Keys

LEMMA SeqElement ==
  ASSUME NEW S, NEW q \in Seq(S), NEW i \in DOMAIN q
  PROVE  q[i] \in S
  OBVIOUS

LEMMA ToolsNamed ==
  ASSUME ToolTypes, NEW a \in Agents, NEW i \in Index(a)
  PROVE  Tool(a, i) \in Tools /\ turn[a][i].size \in Nat
<1>1. turn[a] \in Seq([tool : Tools, size : Nat])
  BY ToolsAssumption DEF ToolTypes
<1>2. i \in DOMAIN turn[a]
  BY DEF Index
<1>3. turn[a][i] \in [tool : Tools, size : Nat]
  BY <1>1, <1>2, SeqElement
<1> QED  BY <1>3 DEF Tool

\* A turn is given once: which calls may run together never changes.
LEMMA TurnsStay ==
  ASSUME turn' = turn
  PROVE  \A a : /\ Index(a)' = Index(a) /\ \A i : Tool(a, i)' = Tool(a, i)
                /\ \A i1, j1 : SameRun(a, i1, j1)' <=> SameRun(a, i1, j1)
                /\ \A i2 : Batched(a, i2)' <=> Batched(a, i2)
  BY DEF Index, Tool, SameRun, Batched

\* What SetCall does, call by call.
LEMMA OneCallSet ==
  ASSUME ToolTypes, NEW a \in Agents, NEW i \in Index(a), NEW c \in CallType, SetCall(a, i, c)
  PROVE  /\ DOMAIN calls' = Agents
         /\ \A b \in Agents : calls'[b] \in [Index(b) -> CallType]
         /\ calls'[a][i] = c
         /\ \A b \in Agents : \A j \in Index(b) : b # a \/ j # i => calls'[b][j] = calls[b][j]
  BY DEF ToolTypes, SetCall

LEMMA CallHasType ==
  ASSUME ToolTypes, NEW a \in Agents, NEW i \in Index(a)
  PROVE  /\ calls[a][i] \in CallType /\ calls[a][i].runs \in Nat
         /\ calls[a][i].phase \in Phases /\ calls[a][i].outcome \in Outcomes
<1>1. calls[a][i] \in CallType
  BY DEF ToolTypes
<1> QED  BY <1>1 DEF CallType

-----------------------------------------------------------------------------
(* Effects in their turn *)

\* What becomes of a call's phase, in every step but the one that begins the call.
Moves(p, q) ==
  /\ p \in {"waiting", "done", "cut"} => q = p
  /\ p \in InCall => q \in InCall \cup {"done", "cut"}

\* Calls that only move on stay behind calls that are over, and no more of them are under
\* way than before.
LEMMA MovesKeepTurn ==
  ASSUME ToolTypes, BehindOver, InParallel, turn' = turn,
         \A b \in Agents : \A j \in Index(b) : Moves(calls[b][j].phase, calls'[b][j].phase)
  PROVE  BehindOver' /\ InParallel'
<1>1. BehindOver'
  <2> SUFFICES ASSUME NEW a \in Agents, NEW i \in Index(a), NEW j \in Index(a),
                      i < j, ~SameRun(a, i, j), calls'[a][j].phase # "waiting"
               PROVE  calls'[a][i].phase \in {"done", "cut"}
    BY TurnsStay DEF BehindOver
  <2>1. calls[a][j].phase # "waiting"
    BY DEF Moves
  <2>2. calls[a][i].phase \in {"done", "cut"}
    BY <2>1 DEF BehindOver
  <2> QED  BY <2>2 DEF Moves
<1>2. InParallel'
  <2> SUFFICES ASSUME NEW a \in Agents
               PROVE  Cardinality({i \in Index(a) : Batched(a, i) /\ calls'[a][i].phase \in InCall})
                        <= MaxParallel
    BY TurnsStay DEF InParallel
  <2> DEFINE Was == {i \in Index(a) : Batched(a, i) /\ calls[a][i].phase \in InCall}
             Is == {i \in Index(a) : Batched(a, i) /\ calls'[a][i].phase \in InCall}
  <2>1. Is \subseteq Was
    <3> SUFFICES ASSUME NEW i \in Index(a), Batched(a, i), calls'[a][i].phase \in InCall
                 PROVE  calls[a][i].phase \in InCall
      OBVIOUS
    <3>1. calls[a][i].phase \in Phases
      BY CallHasType
    <3> QED  BY <3>1 DEF Moves, Phases, InCall
  <2>2. IsFiniteSet(Was)
    BY CallsAreFinite, FS_Subset
  <2>3. Cardinality(Is) <= Cardinality(Was) /\ Cardinality(Is) \in Nat /\ Cardinality(Was) \in Nat
    BY <2>1, <2>2, FS_Subset, FS_CardinalityType
  <2>4. Cardinality(Was) <= MaxParallel
    BY DEF InParallel
  <2> HIDE DEF Was, Is
  <2>5. Cardinality(Is) <= MaxParallel
    BY <2>3, <2>4, ToolsAssumption
  <2> QED  BY <2>5 DEF Is
<1> QED  BY <1>1, <1>2

\* The step that begins a call: behind calls that are done, in a crowd that has room.
LEMMA EnterKeepsTurn ==
  ASSUME ToolTypes, BehindOver, InParallel, turn' = turn,
         NEW a \in Agents, NEW i \in Index(a), calls[a][i].phase = "waiting",
         Ready(a, i), Room(a, i),
         \A b \in Agents : \A j \in Index(b) : b # a \/ j # i => calls'[b][j] = calls[b][j]
  PROVE  BehindOver' /\ InParallel'
<1>1. BehindOver'
  <2> SUFFICES ASSUME NEW b \in Agents, NEW h \in Index(b), NEW j \in Index(b),
                      h < j, ~SameRun(b, h, j), calls'[b][j].phase # "waiting"
               PROVE  calls'[b][h].phase \in {"done", "cut"}
    BY TurnsStay DEF BehindOver
  <2>1. h \in Nat /\ j \in Nat /\ Index(b) = 1..Len(turn[b])
    BY CallsAreKeys
  <2>2. calls[b][h].phase \in {"done", "cut"}
    <3>1. CASE b = a /\ j = i
      <4>1. h \in 1..(i - 1)
        BY <2>1, <3>1
      <4> QED  BY <3>1, <4>1 DEF Ready
    <3>2. CASE b # a \/ j # i
      BY <3>2 DEF BehindOver
    <3> QED  BY <3>1, <3>2
  <2>3. b # a \/ h # i
    BY <2>2
  <2> QED  BY <2>2, <2>3
<1>2. InParallel'
  <2> SUFFICES ASSUME NEW b \in Agents
               PROVE  Cardinality({k \in Index(b) : Batched(b, k) /\ calls'[b][k].phase \in InCall})
                        <= MaxParallel
    BY TurnsStay DEF InParallel
  <2> DEFINE Was == {k \in Index(b) : Batched(b, k) /\ calls[b][k].phase \in InCall}
             Is == {k \in Index(b) : Batched(b, k) /\ calls'[b][k].phase \in InCall}
             Crowd == {k \in Keys : /\ k[1] \in Dispatcher(b) /\ k[2] \in Index(k[1])
                                    /\ Batched(k[1], k[2]) /\ calls[k[1]][k[2]].phase \in InCall}
  <2>1. IsFiniteSet(Was)
    BY CallsAreFinite, FS_Subset
  <2>2. Cardinality(Was) <= MaxParallel /\ Cardinality(Was) \in Nat
    BY <2>1, FS_CardinalityType DEF InParallel
  <2>3. CASE b = a /\ Batched(a, i)
    <3>1. IsFiniteSet(Crowd) /\ Cardinality(Crowd) < MaxParallel
      <4>1. IsFiniteSet(Crowd)
        BY KeysAreFinite, FS_Subset
      <4>2. Cardinality(Crowd) < MaxParallel
        BY <2>3 DEF Room
      <4> QED  BY <4>1, <4>2
    <3>2. Cardinality(Was) <= Cardinality(Crowd)
      <4> DEFINE f == [k \in Was |-> <<b, k>>]
      <4>1. f \in Injection(Was, Crowd)
        <5>1. \A k \in Was : <<b, k>> \in Crowd
          <6> SUFFICES ASSUME NEW k \in Was PROVE <<b, k>> \in Crowd
            OBVIOUS
          <6>1. <<b, k>> \in Keys
            BY CallsAreKeys
          <6>2. b \in Dispatcher(b)
            BY DEF Dispatcher
          <6> QED  BY <6>1, <6>2
        <5>2. f \in [Was -> Crowd] /\ \A k, l \in Was : f[k] = f[l] => k = l
          BY <5>1
        <5> HIDE DEF f, Was, Crowd
        <5> QED  BY <5>2 DEF Injection, IsInjective
      <4> HIDE DEF f, Was, Crowd
      <4> QED  BY <3>1, <4>1, FS_Injection
    <3>3. Cardinality(Crowd) \in Nat
      BY <3>1, FS_CardinalityType
    <3>4. Is \subseteq Was \cup {i} /\ IsFiniteSet(Was \cup {i})
          /\ Cardinality(Was \cup {i}) = Cardinality(Was) + 1
      <4>1. i \notin Was
        BY <2>3 DEF InCall
      <4>2. \A k \in Is : k # i => k \in Was
        BY <2>3
      <4> HIDE DEF Was, Is
      <4> QED  BY <2>1, <4>1, <4>2, FS_AddElement
    <3>5. Cardinality(Is) <= Cardinality(Was) + 1 /\ Cardinality(Is) \in Nat
      <4> HIDE DEF Was, Is
      <4> QED  BY <3>4, FS_Subset, FS_CardinalityType
    <3> HIDE DEF Was, Is, Crowd
    <3>6. Cardinality(Is) <= MaxParallel
      BY <2>2, <3>1, <3>2, <3>3, <3>5, ToolsAssumption
    <3> QED  BY <3>6 DEF Is
  <2>4. CASE ~(b = a /\ Batched(a, i))
    <3>1. Is = Was
      BY <2>4
    <3> QED  BY <2>2, <3>1
  <2> QED  BY <2>3, <2>4
<1> QED  BY <1>1, <1>2

-----------------------------------------------------------------------------
(* The steps of one call *)

\* What a step of a call tells of it, and what it keeps.
Tells(a, i, c) ==
  \/ c.phase \in InCall \ {"telling"} /\ UNCHANGED <<heard, kept>>
     /\ calls[a][i].phase # "telling"
  \/ c.phase = "telling" /\ calls[a][i].phase # "telling"
     /\ Heard(a, i, Said(c.outcome)) /\ UNCHANGED kept
  \/ c.phase = "done" /\ calls[a][i].phase = "telling" /\ c.outcome = calls[a][i].outcome
     /\ kept' = [kept EXCEPT ![a] = WithResult(@, i, c.outcome)] /\ UNCHANGED heard

\* A step of one call: it begins, or it is under way.
CallStep(a, i) ==
  \E c \in CallType, t \in TreeType :
    /\ SetCall(a, i, c) /\ SetTree(<<a, i>>, t)
    /\ turn' = turn /\ at' = at /\ cleanups' = cleanups /\ waits' = waits /\ message' = message
    /\ CallHolds(c, Tool(a, i)) /\ TreeHolds(t, c.phase, Tool(a, i))
    /\ \/ calls[a][i].phase \in InCall
       \/ calls[a][i].phase = "waiting" /\ at[a] = "dispatching" /\ Ready(a, i) /\ Room(a, i)
    /\ c.phase \in InCall \cup {"done"}
    /\ Tells(a, i, c)

\* A tool is retried a number of times, within what a policy may say; what changes the
\* world without an override, and a command, is not.
LEMMA AllowedIsBounded ==
  \A t : Allowed(t) \in Nat /\ Allowed(t) <= Retries /\ (t \in {"edit", "shell"} => Allowed(t) = 0)
  BY ToolsAssumption DEF Allowed, Declared, Gated, Overridden

\* A tree that stays is set to what it is.
LEMMA TreeStays ==
  ASSUME ToolTypes, NEW a \in Agents, NEW i \in Index(a)
  PROVE  tree[<<a, i>>] \in TreeType /\ (tree' = tree => SetTree(<<a, i>>, tree[<<a, i>>]))
<1>1. <<a, i>> \in Keys
  BY CallsAreKeys
<1> QED  BY <1>1 DEF ToolTypes, SetTree

\* The same for a call.
LEMMA CallStays ==
  ASSUME ToolTypes, NEW a \in Agents, NEW i \in Index(a), calls' = calls
  PROVE  SetCall(a, i, calls[a][i])
  BY DEF ToolTypes, SetCall

\* What the kill of a tree leaves of it.
LEMMA KillingKills ==
  ASSUME NEW t \in TreeType
  PROVE  /\ Killing(t) \in TreeType /\ Killing(t).live = t.live
         /\ Killing(t).kill \in {"term", "late"} /\ LeafHolds(Killing(t))
         /\ Killing(t).root = "none" <=> t.root = "none"
         /\ Killing(t).root = "alive" => t.root = "alive" /\ Killing(t).kill = "term"
  BY DEF Killing, Signalled, Processes, TreeType, Kills, Ended, LeafHolds

\* A call that ends with Tell, with the tree it has.
LEMMA TellSteps ==
  ASSUME ToolTypes, CallsHold, NEW a \in Agents, NEW i \in Index(a),
         NEW outcome \in Outcomes, NEW runs \in Nat, Tell(a, i, outcome, runs),
         UNCHANGED <<turn, at, why, kept, message, tree, cleanups, waits>>,
         runs <= 1 + Allowed(Tool(a, i)), outcome \in {"denied", "invalid"} => runs = 0,
         tree[<<a, i>>].root # "alive", tree[<<a, i>>].kill # "called",
         \/ calls[a][i].phase \in InCall \ {"telling"}
         \/ calls[a][i].phase = "waiting" /\ at[a] = "dispatching" /\ Ready(a, i) /\ Room(a, i)
  PROVE  CallStep(a, i)
<1>0. PICK n \in Sizes(a, i) :
        LET charged == IF Fits(a, n) THEN n ELSE 0
            ended == IF Fits(a, n) THEN outcome ELSE "budget"
        IN  /\ SetCall(a, i, [phase |-> "telling", outcome |-> ended, runs |-> runs, size |-> charged])
            /\ spent' = [spent EXCEPT ![a] = @ + charged]
            /\ Heard(a, i, IF ended = "ok" THEN "completed" ELSE "failed")
  BY DEF Tell
<1> DEFINE charged == IF Fits(a, n) THEN n ELSE 0
           ended == IF Fits(a, n) THEN outcome ELSE "budget"
           c == [phase |-> "telling", outcome |-> ended, runs |-> runs, size |-> charged]
<1>1. c \in CallType
  <2>1. turn[a][i].size \in Nat
    BY ToolsNamed
  <2>2. charged \in Nat /\ ended \in Outcomes
    BY <2>1 DEF Sizes, Outcomes
  <2> QED  BY <2>2 DEF CallType, Phases, InCall
<1>2. SetCall(a, i, c) /\ Heard(a, i, Said(c.outcome))
  BY <1>0 DEF Said
<1>3. CallHolds(c, Tool(a, i))
  BY DEF CallHolds
<1>4. tree[<<a, i>>] \in TreeType /\ SetTree(<<a, i>>, tree[<<a, i>>])
  BY TreeStays
<1>5. TreeHolds(tree[<<a, i>>], c.phase, Tool(a, i))
  BY DEF TreeHolds, CallsHold
<1>6. Tells(a, i, c)
  BY <1>2 DEF Tells, InCall
<1>7. c.phase = "telling"
  OBVIOUS
<1> HIDE DEF c
<1> QED  BY <1>1, <1>2, <1>3, <1>4, <1>5, <1>6, <1>7 DEF CallStep, InCall

\* A call that runs, with the tree it has.
LEMMA RunSteps ==
  ASSUME ToolTypes, CallsHold, NEW a \in Agents, NEW i \in Index(a), Run(a, i),
         UNCHANGED <<turn, at, why, kept, message, tree, cleanups, waits>>,
         calls[a][i].runs <= Allowed(Tool(a, i)),
         \/ calls[a][i].phase \in {"asking", "resting"}
         \/ calls[a][i].phase = "waiting" /\ at[a] = "dispatching" /\ Ready(a, i) /\ Room(a, i)
  PROVE  CallStep(a, i)
<1> DEFINE c == [calls[a][i] EXCEPT !.phase = "running", !.runs = @ + 1]
<1>0. calls[a][i] \in CallType /\ calls[a][i].runs \in Nat
  BY CallHasType
<1>0a. Allowed(Tool(a, i)) \in Nat
  BY AllowedIsBounded
<1>1. c \in CallType /\ c.phase = "running" /\ c.runs = calls[a][i].runs + 1
      /\ c.outcome = calls[a][i].outcome
  <2>1. calls[a][i].runs + 1 \in Nat /\ "running" \in Phases
    BY <1>0 DEF Phases, InCall
  <2> QED  BY <1>0, <2>1 DEF CallType
<1>2. SetCall(a, i, c) /\ heard' = heard
  BY DEF Run
<1> HIDE DEF c
<1>3. CallHolds(calls[a][i], Tool(a, i)) /\ TreeHolds(tree[<<a, i>>], calls[a][i].phase, Tool(a, i))
  BY DEF CallsHold
<1>4. CallHolds(c, Tool(a, i))
  BY <1>0, <1>0a, <1>1, <1>3 DEF CallHolds
<1>5. tree[<<a, i>>] \in TreeType /\ SetTree(<<a, i>>, tree[<<a, i>>])
  BY TreeStays
<1>6. TreeHolds(tree[<<a, i>>], c.phase, Tool(a, i))
  BY <1>1, <1>3 DEF TreeHolds
<1>7. Tells(a, i, c)
  BY <1>1, <1>2 DEF Tells, InCall
<1> QED  BY <1>1, <1>2, <1>4, <1>5, <1>6, <1>7 DEF CallStep, InCall

LEMMA EnterSteps ==
  ASSUME ToolTypes, CallsHold, NEW a \in Agents, NEW i \in Index(a), Enter(a, i)
  PROVE  CallStep(a, i)
<1>1. CallHolds(calls[a][i], Tool(a, i)) /\ TreeHolds(tree[<<a, i>>], calls[a][i].phase, Tool(a, i))
  BY DEF CallsHold
<1>2. calls[a][i].phase = "waiting" /\ at[a] = "dispatching" /\ Ready(a, i) /\ Room(a, i)
  BY DEF Enter
<1>3. tree[<<a, i>>].root # "alive" /\ tree[<<a, i>>].kill # "called" /\ calls[a][i].runs = 0
  BY <1>1, <1>2 DEF CallHolds, TreeHolds
<1>3a. 0 <= Allowed(Tool(a, i)) /\ 0 <= 1 + Allowed(Tool(a, i))
  BY AllowedIsBounded
<1>4. CASE Tell(a, i, "invalid", 0)
  BY <1>2, <1>3, <1>3a, <1>4, TellSteps DEF Enter, Outcomes
<1>5. CASE /\ Gated(Tool(a, i)) /\ SetCall(a, i, [calls[a][i] EXCEPT !.phase = "asking"])
           /\ UNCHANGED <<spent, heard>>
  <2> DEFINE c == [calls[a][i] EXCEPT !.phase = "asking"]
  <2>1. calls[a][i] \in CallType
    BY CallHasType
  <2>2. c \in CallType /\ c.phase = "asking" /\ c.runs = calls[a][i].runs /\ c.outcome = calls[a][i].outcome
    BY <2>1 DEF CallType, Phases, InCall
  <2>3. SetCall(a, i, c)
    BY <1>5
  <2> HIDE DEF c
  <2>4. CallHolds(c, Tool(a, i)) /\ TreeHolds(tree[<<a, i>>], c.phase, Tool(a, i))
    BY <1>1, <1>2, <1>3, <2>2 DEF CallHolds, TreeHolds
  <2>5. tree[<<a, i>>] \in TreeType /\ SetTree(<<a, i>>, tree[<<a, i>>])
    BY TreeStays DEF Enter
  <2>6. Tells(a, i, c)
    BY <1>2, <1>5, <2>2 DEF Tells, InCall, Enter
  <2> QED  BY <1>2, <2>2, <2>3, <2>4, <2>5, <2>6 DEF CallStep, InCall, Enter
<1>6. CASE Safe(Tool(a, i)) /\ Run(a, i)
  BY <1>2, <1>3, <1>3a, <1>6, RunSteps DEF Enter
<1> QED  BY <1>4, <1>5, <1>6 DEF Enter

LEMMA DecidedSteps ==
  ASSUME ToolTypes, CallsHold, NEW a \in Agents, NEW i \in Index(a), Decided(a, i)
  PROVE  CallStep(a, i)
<1>1. CallHolds(calls[a][i], Tool(a, i)) /\ TreeHolds(tree[<<a, i>>], calls[a][i].phase, Tool(a, i))
  BY DEF CallsHold
<1>2. calls[a][i].phase = "asking"
  BY DEF Decided
<1>3. tree[<<a, i>>].root # "alive" /\ tree[<<a, i>>].kill # "called" /\ calls[a][i].runs = 0
  BY <1>1, <1>2 DEF CallHolds, TreeHolds
<1>3a. 0 <= Allowed(Tool(a, i)) /\ 0 <= 1 + Allowed(Tool(a, i))
  BY AllowedIsBounded
<1>4. CASE Tell(a, i, "denied", 0)
  BY <1>2, <1>3, <1>3a, <1>4, TellSteps DEF Decided, Outcomes, InCall
<1>5. CASE Run(a, i)
  BY <1>2, <1>3, <1>3a, <1>5, RunSteps DEF Decided
<1> QED  BY <1>4, <1>5 DEF Decided

LEMMA RetrySteps ==
  ASSUME ToolTypes, CallsHold, NEW a \in Agents, NEW i \in Index(a), Retry(a, i)
  PROVE  CallStep(a, i)
<1>1. CallHolds(calls[a][i], Tool(a, i))
  BY DEF CallsHold
<1>2. calls[a][i].phase = "resting" /\ calls[a][i].runs <= Allowed(Tool(a, i))
  BY <1>1 DEF Retry, CallHolds
<1> QED  BY <1>2, RunSteps DEF Retry

\* A tool that is running or was stopped gives its outcome.
LEMMA OutcomeSteps ==
  ASSUME ToolTypes, CallsHold, NEW a \in Agents, NEW i \in Index(a), NEW t \in TreeType,
         NEW o \in {"ok", "error", "failure", "timeout"},
         SetCall(a, i, [calls[a][i] EXCEPT !.phase = "ran", !.outcome = o]),
         SetTree(<<a, i>>, t),
         calls[a][i].phase \in {"running", "stopping"},
         t.root # "none" => Tool(a, i) = "shell", t.root # "alive", t.kill # "called", LeafHolds(t),
         UNCHANGED <<turn, at, kept, message, heard, cleanups, waits>>
  PROVE  CallStep(a, i)
<1> DEFINE c == [calls[a][i] EXCEPT !.phase = "ran", !.outcome = o]
<1>1. calls[a][i] \in CallType /\ CallHolds(calls[a][i], Tool(a, i))
  BY CallHasType DEF CallsHold
<1>2. c \in CallType /\ c.phase = "ran" /\ c.outcome = o /\ c.runs = calls[a][i].runs
  <2>1. "ran" \in Phases /\ o \in Outcomes
    BY DEF Phases, InCall, Outcomes
  <2> QED  BY <1>1, <2>1 DEF CallType
<1>3. SetCall(a, i, c)
  OBVIOUS
<1> HIDE DEF c
<1>4. CallHolds(c, Tool(a, i)) /\ TreeHolds(t, c.phase, Tool(a, i))
  BY <1>1, <1>2 DEF CallHolds, TreeHolds
<1>5. Tells(a, i, c)
  BY <1>2 DEF Tells, InCall
<1> QED  BY <1>2, <1>3, <1>4, <1>5 DEF CallStep, InCall

LEMMA RanSteps ==
  ASSUME ToolTypes, CallsHold, NEW a \in Agents, NEW i \in Index(a),
         Ran(a, i) \/ TimedOut(a, i) \/ Stopped(a, i)
  PROVE  CallStep(a, i)
<1>1. PICK o \in {"ok", "error", "failure", "timeout"} :
        SetCall(a, i, [calls[a][i] EXCEPT !.phase = "ran", !.outcome = o])
  BY DEF Ran, TimedOut, Stopped
<1>2. TreeHolds(tree[<<a, i>>], calls[a][i].phase, Tool(a, i))
  BY DEF CallsHold
<1>3. tree[<<a, i>>] \in TreeType /\ SetTree(<<a, i>>, tree[<<a, i>>])
  BY TreeStays DEF Ran, TimedOut, Stopped
<1>4. /\ calls[a][i].phase \in {"running", "stopping"}
      /\ calls[a][i].phase = "running" => Tool(a, i) # "shell"
      /\ calls[a][i].phase = "stopping" => tree[<<a, i>>].kill \in Ended
  BY DEF Ran, TimedOut, Stopped
<1>5. /\ tree[<<a, i>>].root # "none" => Tool(a, i) = "shell"
      /\ tree[<<a, i>>].root # "alive" /\ tree[<<a, i>>].kill # "called"
      /\ LeafHolds(tree[<<a, i>>])
  BY <1>2, <1>4, <1>3 DEF TreeHolds, TreeType
<1>6. UNCHANGED <<turn, at, kept, message, heard, cleanups, waits>>
  BY DEF Ran, TimedOut, Stopped
<1> QED  BY <1>1, <1>3, <1>4, <1>5, <1>6, OutcomeSteps

LEMMA ShellReturnsSteps ==
  ASSUME ToolTypes, CallsHold, NEW a \in Agents, NEW i \in Index(a), ShellReturns(a, i)
  PROVE  CallStep(a, i)
<1> DEFINE t == [tree[<<a, i>>] EXCEPT !.live = FALSE]
<1>1. PICK o \in {"ok", "error", "failure", "timeout"} :
        SetCall(a, i, [calls[a][i] EXCEPT !.phase = "ran", !.outcome = o])
  BY DEF ShellReturns
<1>2. TreeHolds(tree[<<a, i>>], calls[a][i].phase, Tool(a, i)) /\ tree[<<a, i>>] \in TreeType
  BY TreeStays DEF CallsHold
<1>3. /\ calls[a][i].phase = "running" /\ tree[<<a, i>>].root = "dead"
      /\ tree[<<a, i>>].kill \in {"none"} \cup Ended /\ SetTree(<<a, i>>, t)
  BY DEF ShellReturns
<1>4. /\ t \in TreeType /\ t.root = "dead" /\ t.kill # "called" /\ LeafHolds(t)
  BY <1>2, <1>3 DEF TreeType, TreeHolds, LeafHolds, Ended
<1>5. Tool(a, i) = "shell"
  BY <1>2, <1>3 DEF TreeHolds
<1>6. UNCHANGED <<turn, at, kept, message, heard, cleanups, waits>>
  BY DEF ShellReturns
<1> HIDE DEF t
<1> QED  BY <1>1, <1>3, <1>4, <1>5, <1>6, OutcomeSteps

LEMMA CollectSteps ==
  ASSUME ToolTypes, CallsHold, NEW a \in Agents, NEW i \in Index(a), Collect(a, i)
  PROVE  CallStep(a, i)
<1> DEFINE old == calls[a][i]
<1>1. old \in CallType /\ CallHolds(old, Tool(a, i)) /\ old.phase = "ran"
      /\ TreeHolds(tree[<<a, i>>], old.phase, Tool(a, i))
  BY CallHasType DEF CallsHold, Collect
<1>2. old.runs \in Nat /\ old.outcome \in Outcomes /\ old.runs > 0
  BY <1>1 DEF CallType, CallHolds
<1>3. tree[<<a, i>>] \in TreeType /\ SetTree(<<a, i>>, tree[<<a, i>>])
  BY TreeStays DEF Collect
<1>4. tree[<<a, i>>].root # "alive" /\ tree[<<a, i>>].kill # "called"
  BY <1>1 DEF TreeHolds
<1>5. CASE /\ old.outcome \in {"error", "timeout"} /\ old.runs <= Allowed(Tool(a, i))
           /\ SetCall(a, i, [old EXCEPT !.phase = "resting"]) /\ UNCHANGED <<spent, heard>>
  <2> DEFINE c == [old EXCEPT !.phase = "resting"]
  <2>1. c \in CallType /\ c.phase = "resting" /\ c.runs = old.runs /\ c.outcome = old.outcome
    BY <1>1 DEF CallType, Phases, InCall
  <2>2. old.runs <= Allowed(Tool(a, i))
    BY <1>5
  <2>3. SetCall(a, i, c)
    BY <1>5
  <2> HIDE DEF c
  <2>4. CallHolds(c, Tool(a, i)) /\ TreeHolds(tree[<<a, i>>], c.phase, Tool(a, i))
    BY <1>1, <1>2, <1>4, <2>1, <2>2 DEF CallHolds, TreeHolds
  <2>5. Tells(a, i, c)
    BY <1>1, <1>5, <2>1 DEF Tells, InCall, Collect
  <2> QED  BY <1>1, <1>3, <2>1, <2>3, <2>4, <2>5 DEF CallStep, InCall, Collect
<1>6. CASE Tell(a, i, old.outcome, old.runs)
  <2>1. /\ old.runs <= 1 + Allowed(Tool(a, i))
        /\ old.outcome \in {"denied", "invalid"} => old.runs = 0
        /\ old.phase \in InCall \ {"telling"}
    BY <1>1 DEF CallHolds, InCall
  <2> HIDE DEF old
  <2>2. calls[a][i].phase \in InCall \ {"telling"}
    BY <2>1 DEF old
  <2> QED  BY <1>2, <1>4, <1>6, <2>1, <2>2, TellSteps DEF Collect
<1> QED  BY <1>5, <1>6 DEF Collect

LEMMA ToldSteps ==
  ASSUME ToolTypes, CallsHold, NEW a \in Agents, NEW i \in Index(a), Told(a, i)
  PROVE  CallStep(a, i)
<1> DEFINE c == [calls[a][i] EXCEPT !.phase = "done"]
<1>1. calls[a][i] \in CallType /\ CallHolds(calls[a][i], Tool(a, i)) /\ calls[a][i].phase = "telling"
      /\ TreeHolds(tree[<<a, i>>], calls[a][i].phase, Tool(a, i))
  BY CallHasType DEF CallsHold, Told
<1>2. c \in CallType /\ c.phase = "done" /\ c.runs = calls[a][i].runs /\ c.outcome = calls[a][i].outcome
  BY <1>1 DEF CallType, Phases
<1>3. SetCall(a, i, c) /\ kept' = [kept EXCEPT ![a] = WithResult(@, i, c.outcome)]
  BY <1>2 DEF Told
<1> HIDE DEF c
<1>4. CallHolds(c, Tool(a, i)) /\ TreeHolds(tree[<<a, i>>], c.phase, Tool(a, i))
  BY <1>1, <1>2 DEF CallHolds, TreeHolds
<1>5. tree[<<a, i>>] \in TreeType /\ SetTree(<<a, i>>, tree[<<a, i>>])
  BY TreeStays DEF Told
<1>6. Tells(a, i, c)
  BY <1>1, <1>2, <1>3 DEF Tells, Told
<1> QED  BY <1>1, <1>2, <1>3, <1>4, <1>5, <1>6 DEF CallStep, InCall, Told

LEMMA BackstopSteps ==
  ASSUME ToolTypes, CallsHold, NEW a \in Agents, NEW i \in Index(a), Backstop(a, i)
  PROVE  CallStep(a, i)
<1> DEFINE c == [calls[a][i] EXCEPT !.phase = "stopping"]
           killed == Killing(tree[<<a, i>>])
           t == [killed EXCEPT !.live = FALSE]
<1>1. calls[a][i] \in CallType /\ CallHolds(calls[a][i], Tool(a, i)) /\ calls[a][i].phase = "running"
      /\ TreeHolds(tree[<<a, i>>], calls[a][i].phase, Tool(a, i)) /\ tree[<<a, i>>] \in TreeType
  BY CallHasType, TreeStays DEF CallsHold, Backstop
<1>2. c \in CallType /\ c.phase = "stopping" /\ c.runs = calls[a][i].runs /\ c.outcome = calls[a][i].outcome
  BY <1>1 DEF CallType, Phases, InCall
<1>3. SetCall(a, i, c) /\ SetTree(<<a, i>>, t)
  BY DEF Backstop
<1>4. /\ killed \in TreeType /\ killed.kill \in {"term", "late"} /\ LeafHolds(killed)
      /\ killed.root = "none" <=> tree[<<a, i>>].root = "none"
      /\ killed.root = "alive" => killed.kill = "term"
  BY <1>1, KillingKills
<1> HIDE DEF killed
<1>5. t \in TreeType /\ t.root = killed.root /\ t.kill = killed.kill /\ LeafHolds(t)
  BY <1>4 DEF TreeType, LeafHolds
<1> HIDE DEF c, t
<1>6. CallHolds(c, Tool(a, i)) /\ TreeHolds(t, c.phase, Tool(a, i))
  BY <1>1, <1>2, <1>4, <1>5 DEF CallHolds, TreeHolds, Ended
<1>7. Tells(a, i, c)
  BY <1>1, <1>2 DEF Tells, Backstop, InCall
<1> QED  BY <1>1, <1>2, <1>3, <1>5, <1>6, <1>7 DEF CallStep, InCall, Backstop

\* A command starts, and is killed when its own time is over.
LEMMA SpawnSteps ==
  ASSUME ToolTypes, CallsHold, NEW a \in Agents, NEW i \in Index(a), Spawn(a, i) \/ TooLong(a, i)
  PROVE  CallStep(a, i)
<1>1. calls[a][i] \in CallType /\ CallHolds(calls[a][i], Tool(a, i)) /\ calls[a][i].phase = "running"
      /\ TreeHolds(tree[<<a, i>>], calls[a][i].phase, Tool(a, i)) /\ tree[<<a, i>>] \in TreeType
  BY CallHasType, TreeStays DEF CallsHold, Spawn, TooLong
<1>2. SetCall(a, i, calls[a][i])
  BY CallStays DEF Spawn, TooLong
<1>3. \E t \in TreeType : SetTree(<<a, i>>, t) /\ TreeHolds(t, "running", Tool(a, i))
  <2>1. CASE Spawn(a, i)
    <3>1. PICK s \in SUBSET Processes :
            SetTree(<<a, i>>, [root |-> "alive", leaf |-> "alive", stubborn |-> s,
                               live |-> TRUE, kill |-> "none"])
      BY <2>1 DEF Spawn
    <3> DEFINE t == [root |-> "alive", leaf |-> "alive", stubborn |-> s, live |-> TRUE, kill |-> "none"]
    <3>2. t \in TreeType
      BY DEF TreeType, Kills
    <3>3. TreeHolds(t, "running", Tool(a, i))
      BY <2>1 DEF TreeHolds, LeafHolds, Ended, Spawn
    <3> QED  BY <3>1, <3>2, <3>3
  <2>2. CASE TooLong(a, i)
    <3> DEFINE t == Killing(tree[<<a, i>>])
    <3>1. /\ t \in TreeType /\ t.live = tree[<<a, i>>].live
          /\ t.kill \in {"term", "late"} /\ LeafHolds(t)
          /\ t.root = "none" <=> tree[<<a, i>>].root = "none"
          /\ t.root = "alive" => tree[<<a, i>>].root = "alive" /\ t.kill = "term"
      BY <1>1, KillingKills
    <3>2. SetTree(<<a, i>>, t)
      BY <2>2 DEF TooLong
    <3> HIDE DEF t
    <3>3. TreeHolds(t, "running", Tool(a, i))
      BY <1>1, <3>1 DEF TreeHolds, Ended
    <3> QED  BY <3>1, <3>2, <3>3
  <2> QED  BY <2>1, <2>2
<1>4. Tells(a, i, calls[a][i])
  BY <1>1 DEF Tells, InCall, Spawn, TooLong
<1> QED  BY <1>1, <1>2, <1>3, <1>4 DEF CallStep, InCall, Spawn, TooLong

\* What a step of one call does, call by call.
LEMMA CallStepMeans ==
  ASSUME ToolTypes, NEW a \in Agents, NEW i \in Index(a), CallStep(a, i)
  PROVE  /\ ToolTypes' /\ turn' = turn /\ at' = at /\ cleanups' = cleanups /\ waits' = waits
         /\ \A b \in Agents : \A j \in Index(b) : b # a \/ j # i =>
              calls'[b][j] = calls[b][j] /\ tree'[<<b, j>>] = tree[<<b, j>>]
         /\ CallHolds(calls'[a][i], Tool(a, i))
         /\ TreeHolds(tree'[<<a, i>>], calls'[a][i].phase, Tool(a, i))
         /\ \/ calls[a][i].phase \in InCall
            \/ calls[a][i].phase = "waiting" /\ at[a] = "dispatching" /\ Ready(a, i) /\ Room(a, i)
         /\ calls'[a][i].phase \in InCall \cup {"done"}
<1>1. PICK c \in CallType, t \in TreeType :
        /\ SetCall(a, i, c) /\ SetTree(<<a, i>>, t)
        /\ turn' = turn /\ at' = at /\ cleanups' = cleanups /\ waits' = waits
        /\ CallHolds(c, Tool(a, i)) /\ TreeHolds(t, c.phase, Tool(a, i))
        /\ \/ calls[a][i].phase \in InCall
           \/ calls[a][i].phase = "waiting" /\ at[a] = "dispatching" /\ Ready(a, i) /\ Room(a, i)
        /\ c.phase \in InCall \cup {"done"}
  BY DEF CallStep
<1>2. /\ \A b \in Agents : calls'[b] \in [Index(b) -> CallType]
      /\ calls'[a][i] = c
      /\ \A b \in Agents : \A j \in Index(b) : b # a \/ j # i => calls'[b][j] = calls[b][j]
  BY <1>1, OneCallSet
<1>3. calls' = [b \in Agents |-> calls'[b]]
  BY <1>1 DEF SetCall, ToolTypes
<1>4. \A b \in Agents : Index(b)' = Index(b)
  BY <1>1 DEF Index
<1>5. tree \in [Keys -> TreeType] /\ tree' = [tree EXCEPT ![<<a, i>>] = t] /\ <<a, i>> \in Keys
  BY <1>1, CallsAreKeys DEF SetTree, ToolTypes
<1>6. tree' \in [Keys -> TreeType] /\ tree'[<<a, i>>] = t
      /\ \A k \in Keys : k # <<a, i>> => tree'[k] = tree[k]
  BY <1>5
<1>7. \A b \in Agents : \A j \in Index(b) : b # a \/ j # i => tree'[<<b, j>>] = tree[<<b, j>>]
  BY <1>6, CallsAreKeys
<1>8. ToolTypes'
  <2>1. /\ turn' \in [Agents -> Turns]
        /\ at' \in [Agents -> {"ready", "dispatching", "unwound", "draining", "over", "gone"}]
        /\ cleanups' \in [Agents -> SUBSET Keys] /\ waits' \in [Agents -> SUBSET Keys]
    BY <1>1 DEF ToolTypes
  <2>2. \A b \in Agents : calls'[b] \in [Index(b)' -> CallType]
    BY <1>2, <1>4
  <2> QED  BY <1>3, <1>6, <2>1, <2>2 DEF ToolTypes
<1> QED  BY <1>1, <1>2, <1>6, <1>7, <1>8

LEMMA CallsHoldAfter ==
  ASSUME turn' = turn,
         \A b \in Agents : \A j \in Index(b) :
           /\ CallHolds(calls'[b][j], Tool(b, j))
           /\ TreeHolds(tree'[<<b, j>>], calls'[b][j].phase, Tool(b, j))
  PROVE  CallsHold'
<1> SUFFICES ASSUME NEW b \in Agents, NEW j \in Index(b)
             PROVE  (/\ CallHolds(calls[b][j], Tool(b, j))
                     /\ TreeHolds(tree[<<b, j>>], calls[b][j].phase, Tool(b, j)))'
  BY TurnsStay DEF CallsHold
<1>1. Tool(b, j)' = Tool(b, j)
  BY TurnsStay
<1> QED  BY <1>1 DEF CallHolds, TreeHolds

LEMMA CallStepKeepsEffects ==
  ASSUME ToolTypes, EffectsInv, NEW a \in Agents, NEW i \in Index(a), CallStep(a, i)
  PROVE  EffectsInv'
<1>1. /\ turn' = turn /\ cleanups' = cleanups /\ waits' = waits
      /\ \A b \in Agents : \A j \in Index(b) : b # a \/ j # i =>
           calls'[b][j] = calls[b][j] /\ tree'[<<b, j>>] = tree[<<b, j>>]
      /\ CallHolds(calls'[a][i], Tool(a, i))
      /\ TreeHolds(tree'[<<a, i>>], calls'[a][i].phase, Tool(a, i))
      /\ \/ calls[a][i].phase \in InCall
         \/ calls[a][i].phase = "waiting" /\ Ready(a, i) /\ Room(a, i)
      /\ calls'[a][i].phase \in InCall \cup {"done"}
  BY CallStepMeans
<1>2. CallsHold'
  <2> SUFFICES ASSUME NEW b \in Agents, NEW j \in Index(b)
               PROVE  /\ CallHolds(calls'[b][j], Tool(b, j))
                      /\ TreeHolds(tree'[<<b, j>>], calls'[b][j].phase, Tool(b, j))
    BY <1>1, CallsHoldAfter
  <2>1. CallHolds(calls[b][j], Tool(b, j)) /\ TreeHolds(tree[<<b, j>>], calls[b][j].phase, Tool(b, j))
    BY DEF EffectsInv, CallsHold
  <2>2. CASE b = a /\ j = i
    BY <1>1, <2>2
  <2>3. CASE b # a \/ j # i
    BY <1>1, <2>1, <2>3
  <2> QED  BY <2>2, <2>3
<1>3. BehindOver' /\ InParallel'
  <2>1. CASE calls[a][i].phase = "waiting" /\ Ready(a, i) /\ Room(a, i)
    BY <1>1, <2>1, EnterKeepsTurn DEF EffectsInv
  <2>2. CASE calls[a][i].phase \in InCall
    <3>1. \A b \in Agents : \A j \in Index(b) : Moves(calls[b][j].phase, calls'[b][j].phase)
      <4> SUFFICES ASSUME NEW b \in Agents, NEW j \in Index(b)
                   PROVE  Moves(calls[b][j].phase, calls'[b][j].phase)
        OBVIOUS
      <4>1. CASE b = a /\ j = i
        BY <1>1, <2>2, <4>1 DEF Moves, InCall
      <4>2. CASE b # a \/ j # i
        BY <1>1, <4>2 DEF Moves
      <4> QED  BY <4>1, <4>2
    <3> QED  BY <1>1, <3>1, MovesKeepTurn DEF EffectsInv
  <2> QED  BY <1>1, <2>1, <2>2
<1>4. CleanupsOfCut'
  <2> SUFFICES ASSUME NEW c \in Agents, NEW j \in Index(c), NEW b \in Agents,
                      <<c, j>> \in cleanups[b] \cup waits[b]
               PROVE  calls'[c][j].phase = "cut"
    BY <1>1, TurnsStay DEF CleanupsOfCut
  <2>1. calls[c][j].phase = "cut"
    BY DEF EffectsInv, CleanupsOfCut
  <2>2. c # a \/ j # i
    BY <1>1, <2>1 DEF InCall
  <2> QED  BY <1>1, <2>1, <2>2
<1> QED  BY <1>2, <1>3, <1>4 DEF EffectsInv

\* A step of one call leaves what was cut, and begins nothing in a step that is over.
LEMMA CallStepKeepsCleanups ==
  ASSUME ToolTypes, LateIsQuiet, NEW a \in Agents, NEW i \in Index(a), CallStep(a, i)
  PROVE  LateIsQuiet' /\ (CleanupsHold => CleanupsHold')
<1>1. /\ turn' = turn /\ at' = at /\ cleanups' = cleanups /\ waits' = waits
      /\ \A b \in Agents : \A j \in Index(b) : b # a \/ j # i =>
           calls'[b][j] = calls[b][j] /\ tree'[<<b, j>>] = tree[<<b, j>>]
      /\ CallHolds(calls'[a][i], Tool(a, i))
      /\ TreeHolds(tree'[<<a, i>>], calls'[a][i].phase, Tool(a, i))
      /\ \/ calls[a][i].phase \in InCall
         \/ calls[a][i].phase = "waiting" /\ at[a] = "dispatching" /\ Ready(a, i) /\ Room(a, i)
      /\ calls'[a][i].phase \in InCall \cup {"done"}
  BY CallStepMeans
<1>2. calls[a][i].phase \in InCall \/ at[a] = "dispatching"
  BY <1>1
<1>3. LateIsQuiet'
  <2> SUFFICES ASSUME NEW b \in Agents, NEW j \in Index(b),
                      at[b] \in {"unwound", "draining", "over", "gone"}
               PROVE  calls'[b][j].phase \notin InCall
    BY <1>1, TurnsStay DEF LateIsQuiet
  <2>1. calls[b][j].phase \notin InCall
    BY DEF LateIsQuiet
  <2>2. b # a \/ j # i
    BY <1>2, <2>1
  <2> QED  BY <1>1, <2>1, <2>2
<1>4. ASSUME CleanupsHold PROVE CleanupsHold'
  <2> SUFFICES ASSUME NEW b \in Agents, NEW j \in Index(b),
                      calls'[b][j].phase = "cut", tree'[<<b, j>>].root = "alive"
               PROVE  \/ tree'[<<b, j>>].kill = "aborted"
                      \/ /\ tree'[<<b, j>>].kill \in {"called", "term"}
                         /\ \/ at[b] = "gone"
                            \/ at[b] = "unwound" /\ <<b, j>> \in cleanups[b]
                            \/ at[b] = "draining" /\ <<b, j>> \in waits[b]
    BY <1>1, TurnsStay DEF CleanupsHold
  <2>1. b # a \/ j # i
    BY <1>1 DEF InCall
  <2> QED  BY <1>1, <1>4, <2>1 DEF CleanupsHold
<1> QED  BY <1>3, <1>4

-----------------------------------------------------------------------------
(* The steps of a tree *)

\* What becomes of a tree that its call leaves alone: it does not come back, and only a
\* cleanup takes its kill further.
Dies(t, s) ==
  /\ s.root # "none" => t.root # "none"
  /\ s.root = "alive" => /\ t.root = "alive"
                         /\ \/ s.kill = t.kill /\ s.live = t.live
                            \/ s.kill = "term" /\ t.kill = "called"
  /\ s.kill = "called" => t.kill = "called"
  /\ LeafHolds(t) => LeafHolds(s)

TreeStep(k) ==
  \E t \in TreeType :
    /\ SetTree(k, t) /\ Dies(tree[k], t)
    /\ turn' = turn /\ at' = at /\ calls' = calls /\ cleanups' = cleanups /\ waits' = waits
    /\ message' = message /\ heard' = heard /\ kept' = kept

LEMMA ExitsSteps ==
  ASSUME ToolTypes, NEW k \in Keys, Exits(k)
  PROVE  TreeStep(k)
<1>1. PICK p \in Processes : tree[k][p] = "alive" /\ SetTree(k, [tree[k] EXCEPT ![p] = "dead"])
  BY DEF Exits
<1>2. tree[k] \in TreeType
  BY DEF ToolTypes
<1>3. CASE p = "root"
  <2> DEFINE t == [tree[k] EXCEPT !.root = "dead"]
  <2>1. /\ t \in TreeType /\ t.root = "dead" /\ t.kill = tree[k].kill
        /\ LeafHolds(tree[k]) => LeafHolds(t)
    BY <1>2 DEF TreeType, LeafHolds
  <2>2. SetTree(k, t) /\ tree[k].root = "alive"
    BY <1>1, <1>3
  <2> HIDE DEF t
  <2>3. Dies(tree[k], t)
    BY <2>1, <2>2 DEF Dies
  <2> QED  BY <2>1, <2>2, <2>3 DEF TreeStep, Exits
<1>4. CASE p = "leaf"
  <2> DEFINE t == [tree[k] EXCEPT !.leaf = "dead"]
  <2>1. /\ t \in TreeType /\ t.root = tree[k].root /\ t.kill = tree[k].kill /\ t.live = tree[k].live
        /\ LeafHolds(tree[k]) => LeafHolds(t)
    BY <1>2 DEF TreeType, LeafHolds
  <2>2. SetTree(k, t)
    BY <1>1, <1>4
  <2> HIDE DEF t
  <2>3. Dies(tree[k], t)
    BY <2>1 DEF Dies
  <2> QED  BY <2>1, <2>2, <2>3 DEF TreeStep, Exits
<1> QED  BY <1>3, <1>4 DEF Processes

LEMMA GraceSteps ==
  ASSUME ToolTypes, NEW k \in Keys, Grace(k)
  PROVE  TreeStep(k)
<1> DEFINE s == Signalled(tree[k], Processes)
           t == IF tree[k].root = "alive" THEN [s EXCEPT !.kill = "killed"]
                ELSE [tree[k] EXCEPT !.kill = "eased"]
<1>1. tree[k] \in TreeType /\ tree[k].kill = "term"
  BY DEF ToolTypes, Grace
<1>2. s \in TreeType /\ s.root # "alive" /\ s.leaf # "alive"
      /\ (s.root # "none" => tree[k].root # "none")
  BY <1>1 DEF Signalled, Processes, TreeType
<1>3. SetTree(k, t)
  BY DEF Grace
<1> HIDE DEF s
<1>4. /\ t \in TreeType /\ t.root # "alive" /\ (t.root # "none" => tree[k].root # "none")
      /\ t.kill \in {"killed", "eased"} /\ (LeafHolds(tree[k]) => LeafHolds(t))
  BY <1>1, <1>2 DEF TreeType, Kills, Ended, LeafHolds
<1> HIDE DEF t
<1>5. Dies(tree[k], t)
  BY <1>4 DEF Dies
<1> QED  BY <1>3, <1>4, <1>5 DEF TreeStep, Grace

LEMMA CleanUpSteps ==
  ASSUME ToolTypes, NEW k \in Keys, CleanUp(k)
  PROVE  TreeStep(k)
<1> DEFINE s == Killing(tree[k])
           t == [s EXCEPT !.live = FALSE]
<1>1. tree[k] \in TreeType /\ tree[k].kill = "called"
  BY DEF ToolTypes, CleanUp
<1>2. /\ s \in TreeType /\ s.kill \in {"term", "late"} /\ LeafHolds(s)
      /\ s.root = "none" <=> tree[k].root = "none"
      /\ s.root = "alive" => tree[k].root = "alive" /\ s.kill = "term"
  BY <1>1, KillingKills
<1>3. SetTree(k, t)
  BY DEF CleanUp
<1> HIDE DEF s
<1>4. t \in TreeType /\ t.root = s.root /\ t.kill = s.kill /\ LeafHolds(t)
  BY <1>2 DEF TreeType, LeafHolds
<1> HIDE DEF t
<1>5. Dies(tree[k], t)
  BY <1>1, <1>2, <1>4 DEF Dies
<1> QED  BY <1>3, <1>4, <1>5 DEF TreeStep, CleanUp

\* What a step of a tree does, tree by tree.
LEMMA TreeStepMeans ==
  ASSUME ToolTypes, NEW k \in Keys, TreeStep(k)
  PROVE  /\ ToolTypes'
         /\ turn' = turn /\ at' = at /\ calls' = calls /\ cleanups' = cleanups /\ waits' = waits
         /\ \A h \in Keys : tree'[h] = tree[h] \/ Dies(tree[h], tree'[h])
<1>1. PICK t \in TreeType :
        /\ SetTree(k, t) /\ Dies(tree[k], t)
        /\ turn' = turn /\ at' = at /\ calls' = calls /\ cleanups' = cleanups /\ waits' = waits
  BY DEF TreeStep
<1>2. tree' \in [Keys -> TreeType] /\ tree'[k] = t /\ \A h \in Keys : h # k => tree'[h] = tree[h]
  BY <1>1 DEF SetTree, ToolTypes
<1>3. \A h \in Keys : tree'[h] = tree[h] \/ Dies(tree[h], tree'[h])
  BY <1>1, <1>2
<1>4. ToolTypes'
  <2>1. \A b \in Agents : Index(b)' = Index(b)
    BY <1>1 DEF Index
  <2> QED  BY <1>1, <1>2, <2>1 DEF ToolTypes
<1> QED  BY <1>1, <1>3, <1>4

\* Calls that stay, and trees that stay or die, keep what holds of the effects.
LEMMA TreesKeepEffects ==
  ASSUME ToolTypes, EffectsInv, turn' = turn, calls' = calls,
         \A h \in Keys : tree'[h] = tree[h] \/ Dies(tree[h], tree'[h]),
         \A c \in Agents : \A j \in Index(c) :
           (\E b \in Agents : <<c, j>> \in cleanups'[b] \cup waits'[b]) =>
             \E b \in Agents : <<c, j>> \in cleanups[b] \cup waits[b]
  PROVE  EffectsInv'
<1>1. CallsHold'
  <2> SUFFICES ASSUME NEW b \in Agents, NEW j \in Index(b)
               PROVE  /\ CallHolds(calls[b][j], Tool(b, j))
                      /\ TreeHolds(tree'[<<b, j>>], calls[b][j].phase, Tool(b, j))
    BY CallsHoldAfter
  <2>1. CallHolds(calls[b][j], Tool(b, j)) /\ TreeHolds(tree[<<b, j>>], calls[b][j].phase, Tool(b, j))
    BY DEF EffectsInv, CallsHold
  <2>2. tree'[<<b, j>>] = tree[<<b, j>>] \/ Dies(tree[<<b, j>>], tree'[<<b, j>>])
    BY CallsAreKeys
  <2>3. CASE Dies(tree[<<b, j>>], tree'[<<b, j>>])
    BY <2>1, <2>3 DEF TreeHolds, Dies, Ended
  <2> QED  BY <2>1, <2>2, <2>3
<1>2. BehindOver' /\ InParallel'
  <2>1. \A b \in Agents : \A j \in Index(b) : Moves(calls[b][j].phase, calls'[b][j].phase)
    BY DEF Moves
  <2> QED  BY <2>1, MovesKeepTurn DEF EffectsInv
<1>3. CleanupsOfCut'
  <2> SUFFICES ASSUME NEW c \in Agents, NEW j \in Index(c), NEW b \in Agents,
                      <<c, j>> \in cleanups'[b] \cup waits'[b]
               PROVE  calls[c][j].phase = "cut"
    BY TurnsStay DEF CleanupsOfCut
  <2> QED  BY DEF EffectsInv, CleanupsOfCut
<1> QED  BY <1>1, <1>2, <1>3 DEF EffectsInv

LEMMA TreeStepKeeps ==
  ASSUME ToolTypes, EffectsInv, NEW k \in Keys, TreeStep(k)
  PROVE  EffectsInv' /\ (LateIsQuiet => LateIsQuiet') /\ (CleanupsHold => CleanupsHold')
<1>1. /\ ToolTypes'
      /\ turn' = turn /\ at' = at /\ calls' = calls /\ cleanups' = cleanups /\ waits' = waits
      /\ \A h \in Keys : tree'[h] = tree[h] \/ Dies(tree[h], tree'[h])
  BY TreeStepMeans
<1>2. EffectsInv'
  BY <1>1, TreesKeepEffects
<1>3. LateIsQuiet => LateIsQuiet'
  BY <1>1, TurnsStay DEF LateIsQuiet
<1>4. ASSUME CleanupsHold PROVE CleanupsHold'
  <2> SUFFICES ASSUME NEW b \in Agents, NEW j \in Index(b),
                      calls[b][j].phase = "cut", tree'[<<b, j>>].root = "alive"
               PROVE  \/ tree'[<<b, j>>].kill = "aborted"
                      \/ /\ tree'[<<b, j>>].kill \in {"called", "term"}
                         /\ \/ at[b] = "gone"
                            \/ at[b] = "unwound" /\ <<b, j>> \in cleanups[b]
                            \/ at[b] = "draining" /\ <<b, j>> \in waits[b]
    BY <1>1, TurnsStay DEF CleanupsHold
  <2>1. tree'[<<b, j>>] = tree[<<b, j>>] \/ Dies(tree[<<b, j>>], tree'[<<b, j>>])
    BY <1>1, CallsAreKeys
  <2>2. /\ tree[<<b, j>>].root = "alive"
        /\ \/ tree'[<<b, j>>].kill = tree[<<b, j>>].kill
           \/ tree'[<<b, j>>].kill = "term" /\ tree[<<b, j>>].kill = "called"
    BY <2>1 DEF Dies
  <2> QED  BY <1>4, <2>2 DEF CleanupsHold
<1> QED  BY <1>2, <1>3, <1>4

-----------------------------------------------------------------------------
(* The steps of an agent *)

LEMMA DispatchKeeps ==
  ASSUME ToolTypes, EffectsInv, NEW a \in Agents, Dispatch(a)
  PROVE  /\ ToolTypes' /\ EffectsInv'
         /\ (LateIsQuiet => LateIsQuiet') /\ (CleanupsHold => CleanupsHold')
<1>1. /\ at[a] = "ready" /\ at' = [at EXCEPT ![a] = "dispatching"]
      /\ UNCHANGED <<turn, calls, tree, cleanups, waits>>
  BY DEF Dispatch
<1>2. at \in [Agents -> {"ready", "dispatching", "unwound", "draining", "over", "gone"}]
  BY DEF ToolTypes
<1>3. at'[a] = "dispatching" /\ \A b \in Agents : b # a => at'[b] = at[b]
  BY <1>1, <1>2
<1>4. ToolTypes'
  <2>1. \A b \in Agents : Index(b)' = Index(b)
    BY <1>1 DEF Index
  <2> QED  BY <1>1, <2>1 DEF ToolTypes
<1>5. EffectsInv'
  BY <1>1, TreesKeepEffects
<1>6. LateIsQuiet => LateIsQuiet'
  BY <1>1, <1>3, TurnsStay DEF LateIsQuiet
<1>7. CleanupsHold => CleanupsHold'
  <2> SUFFICES ASSUME CleanupsHold, NEW b \in Agents, NEW j \in Index(b),
                      calls[b][j].phase = "cut", tree[<<b, j>>].root = "alive"
               PROVE  \/ tree[<<b, j>>].kill = "aborted"
                      \/ /\ tree[<<b, j>>].kill \in {"called", "term"}
                         /\ \/ at'[b] = "gone"
                            \/ at'[b] = "unwound" /\ <<b, j>> \in cleanups[b]
                            \/ at'[b] = "draining" /\ <<b, j>> \in waits[b]
    BY <1>1, TurnsStay DEF CleanupsHold
  <2> QED  BY <1>1, <1>3 DEF CleanupsHold
<1> QED  BY <1>4, <1>5, <1>6, <1>7

\* An agent that has a dispatcher of its own takes its own cleanups when it drains.
LEMMA DrainKeeps ==
  ASSUME ToolTypes, EffectsInv, NEW a \in Agents, Drain(a)
  PROVE  /\ ToolTypes' /\ EffectsInv'
         /\ (LateIsQuiet => LateIsQuiet') /\ (~Shared /\ CleanupsHold => CleanupsHold')
<1>1. /\ at[a] = "unwound" \/ AllDone(a)
      /\ at' = [at EXCEPT ![a] = "draining"]
      /\ waits' = [waits EXCEPT ![a] = UNION {cleanups[b] : b \in Dispatcher(a)}]
      /\ cleanups' = [b \in Agents |-> IF b \in Dispatcher(a) THEN {} ELSE cleanups[b]]
      /\ UNCHANGED <<turn, calls, tree>>
  BY DEF Drain
<1>2. /\ at \in [Agents -> {"ready", "dispatching", "unwound", "draining", "over", "gone"}]
      /\ cleanups \in [Agents -> SUBSET Keys] /\ waits \in [Agents -> SUBSET Keys]
      /\ a \in Dispatcher(a) /\ Dispatcher(a) \subseteq Agents
  BY DEF ToolTypes, Dispatcher
<1>3. /\ at'[a] = "draining" /\ waits'[a] = UNION {cleanups[b] : b \in Dispatcher(a)}
      /\ \A b \in Agents : b # a => at'[b] = at[b] /\ waits'[b] = waits[b]
      /\ \A b \in Agents : cleanups'[b] = IF b \in Dispatcher(a) THEN {} ELSE cleanups[b]
  BY <1>1, <1>2
<1>4. ToolTypes'
  <2>1. \A b \in Agents : Index(b)' = Index(b)
    BY <1>1 DEF Index
  <2>2. UNION {cleanups[b] : b \in Dispatcher(a)} \in SUBSET Keys
    BY <1>2
  <2>3. cleanups' \in [Agents -> SUBSET Keys] /\ waits' \in [Agents -> SUBSET Keys]
    BY <1>1, <1>2, <2>2
  <2> QED  BY <1>1, <2>1, <2>3 DEF ToolTypes
<1>5. EffectsInv'
  <2>1. \A b \in Agents : \A k \in cleanups'[b] \cup waits'[b] :
          \E c \in Agents : k \in cleanups[c] \cup waits[c]
    <3> SUFFICES ASSUME NEW b \in Agents, NEW k \in cleanups'[b] \cup waits'[b]
                 PROVE  \E c \in Agents : k \in cleanups[c] \cup waits[c]
      OBVIOUS
    <3>1. CASE k \in cleanups'[b]
      BY <1>3, <3>1
    <3>2. CASE k \in waits'[b] /\ b # a
      BY <1>3, <3>2
    <3>3. CASE k \in waits'[b] /\ b = a
      BY <1>2, <1>3, <3>3
    <3> QED  BY <3>1, <3>2, <3>3
  <2>2. \A h \in Keys : tree'[h] = tree[h]
    BY <1>1
  <2> QED  BY <1>1, <2>1, <2>2, TreesKeepEffects
<1>6. LateIsQuiet => LateIsQuiet'
  <2> SUFFICES ASSUME LateIsQuiet, NEW b \in Agents, NEW j \in Index(b),
                      at'[b] \in {"unwound", "draining", "over", "gone"}
               PROVE  calls[b][j].phase \notin InCall
    BY <1>1, TurnsStay DEF LateIsQuiet
  <2> QED  BY <1>1, <1>3 DEF LateIsQuiet, AllDone, InCall
<1>7. ~Shared /\ CleanupsHold => CleanupsHold'
  <2> SUFFICES ASSUME ~Shared, CleanupsHold, NEW b \in Agents, NEW j \in Index(b),
                      calls[b][j].phase = "cut", tree[<<b, j>>].root = "alive"
               PROVE  \/ tree[<<b, j>>].kill = "aborted"
                      \/ /\ tree[<<b, j>>].kill \in {"called", "term"}
                         /\ \/ at'[b] = "gone"
                            \/ at'[b] = "unwound" /\ <<b, j>> \in cleanups'[b]
                            \/ at'[b] = "draining" /\ <<b, j>> \in waits'[b]
    <3>1. turn' = turn /\ calls' = calls /\ tree' = tree
      BY <1>1
    <3> QED  BY <3>1, TurnsStay DEF CleanupsHold
  <2>1. Dispatcher(a) = {a}
    BY DEF Dispatcher
  <2>2. waits'[a] = cleanups[a] /\ \A c \in Agents : c # a => cleanups'[c] = cleanups[c]
    BY <1>3, <2>1
  <2>3. CASE b = a
    <3>1. at[a] = "unwound"
      BY <1>1, <2>3 DEF AllDone
    <3> QED  BY <1>3, <2>2, <2>3, <3>1 DEF CleanupsHold
  <2>4. CASE b # a
    BY <1>3, <2>2, <2>4 DEF CleanupsHold
  <2> QED  BY <2>3, <2>4
<1> QED  BY <1>4, <1>5, <1>6, <1>7

\* A drain that is over waited for every command that outlived its call.
LEMMA EndStepKeeps ==
  ASSUME ToolTypes, EffectsInv, NEW a \in Agents, EndStep(a)
  PROVE  /\ ToolTypes' /\ EffectsInv'
         /\ (LateIsQuiet => LateIsQuiet') /\ (CleanupsHold => CleanupsHold')
<1>1. /\ at[a] = "draining" /\ \A k \in waits[a] : Finished(k)
      /\ waits' = [waits EXCEPT ![a] = {}]
      /\ UNCHANGED <<turn, calls, tree, cleanups>>
      /\ at' = [at EXCEPT ![a] = "gone"] \/ at' = [at EXCEPT ![a] = "over"]
  BY DEF EndStep
<1>2. /\ at \in [Agents -> {"ready", "dispatching", "unwound", "draining", "over", "gone"}]
      /\ waits \in [Agents -> SUBSET Keys]
  BY DEF ToolTypes
<1>3. /\ at'[a] \in {"over", "gone"} /\ waits'[a] = {}
      /\ \A b \in Agents : b # a => at'[b] = at[b] /\ waits'[b] = waits[b]
      /\ waits' \in [Agents -> SUBSET Keys]
      /\ at' \in [Agents -> {"ready", "dispatching", "unwound", "draining", "over", "gone"}]
  BY <1>1, <1>2
<1>4. ToolTypes'
  <2>1. \A b \in Agents : Index(b)' = Index(b)
    BY <1>1 DEF Index
  <2> QED  BY <1>1, <1>3, <2>1 DEF ToolTypes
<1>5. EffectsInv'
  <2>1. \A b \in Agents : \A k \in cleanups'[b] \cup waits'[b] : k \in cleanups[b] \cup waits[b]
    BY <1>1, <1>3
  <2>2. \A h \in Keys : tree'[h] = tree[h]
    BY <1>1
  <2> QED  BY <1>1, <2>1, <2>2, TreesKeepEffects
<1>6. LateIsQuiet => LateIsQuiet'
  <2> SUFFICES ASSUME LateIsQuiet, NEW b \in Agents, NEW j \in Index(b),
                      at'[b] \in {"unwound", "draining", "over", "gone"}
               PROVE  calls[b][j].phase \notin InCall
    BY <1>1, TurnsStay DEF LateIsQuiet
  <2> QED  BY <1>1, <1>3 DEF LateIsQuiet
<1>7. CleanupsHold => CleanupsHold'
  <2> SUFFICES ASSUME CleanupsHold, NEW b \in Agents, NEW j \in Index(b),
                      calls[b][j].phase = "cut", tree[<<b, j>>].root = "alive"
               PROVE  \/ tree[<<b, j>>].kill = "aborted"
                      \/ /\ tree[<<b, j>>].kill \in {"called", "term"}
                         /\ \/ at'[b] = "gone"
                            \/ at'[b] = "unwound" /\ <<b, j>> \in cleanups[b]
                            \/ at'[b] = "draining" /\ <<b, j>> \in waits'[b]
    BY <1>1, TurnsStay DEF CleanupsHold
  <2>1. CASE b = a
    <3>1. \/ tree[<<b, j>>].kill = "aborted"
          \/ tree[<<b, j>>].kill \in {"called", "term"} /\ <<b, j>> \in waits[a]
      BY <1>1, <2>1 DEF CleanupsHold
    <3> QED  BY <1>1, <3>1 DEF Finished, Ended
  <2>2. CASE b # a
    BY <1>3, <2>2 DEF CleanupsHold
  <2> QED  BY <2>1, <2>2
<1> QED  BY <1>4, <1>5, <1>6, <1>7

LEMMA CancelBodyKeeps ==
  ASSUME ToolTypes, EffectsInv, NEW a \in Agents, CancelBody(a)
  PROVE  /\ ToolTypes' /\ EffectsInv'
         /\ (LateIsQuiet => LateIsQuiet') /\ (CleanupsHold => CleanupsHold')
<1>1. /\ at[a] = "draining" /\ at' = [at EXCEPT ![a] = "gone"]
      /\ tree' = [k \in Keys |-> IF k \in waits[a] /\ ~Finished(k)
                                 THEN [tree[k] EXCEPT !.kill = "aborted"] ELSE tree[k]]
      /\ waits' = [waits EXCEPT ![a] = {}]
      /\ UNCHANGED <<turn, calls, cleanups>>
  BY DEF CancelBody
<1>2. /\ at \in [Agents -> {"ready", "dispatching", "unwound", "draining", "over", "gone"}]
      /\ waits \in [Agents -> SUBSET Keys] /\ tree \in [Keys -> TreeType]
  BY DEF ToolTypes
<1>3. /\ at'[a] = "gone" /\ waits'[a] = {}
      /\ \A b \in Agents : b # a => at'[b] = at[b] /\ waits'[b] = waits[b]
      /\ waits' \in [Agents -> SUBSET Keys]
      /\ at' \in [Agents -> {"ready", "dispatching", "unwound", "draining", "over", "gone"}]
  BY <1>1, <1>2
<1>4. \A k \in Keys :
        \/ tree'[k] = tree[k]
        \/ /\ k \in waits[a] /\ tree'[k] \in TreeType /\ tree'[k].kill = "aborted"
           /\ tree'[k].root = tree[k].root
  <2> SUFFICES ASSUME NEW k \in Keys, k \in waits[a], ~Finished(k)
               PROVE  /\ tree'[k] \in TreeType /\ tree'[k].kill = "aborted"
                      /\ tree'[k].root = tree[k].root
    BY <1>1
  <2>1. tree'[k] = [tree[k] EXCEPT !.kill = "aborted"] /\ tree[k] \in TreeType
    BY <1>1, <1>2
  <2> QED  BY <2>1 DEF TreeType, Kills
<1>5. ToolTypes'
  <2>1. \A b \in Agents : Index(b)' = Index(b)
    BY <1>1 DEF Index
  <2>2. tree' \in [Keys -> TreeType]
    BY <1>1, <1>2, <1>4
  <2> QED  BY <1>1, <1>3, <2>1, <2>2 DEF ToolTypes
<1>6. CallsHold'
  <2> SUFFICES ASSUME NEW b \in Agents, NEW j \in Index(b)
               PROVE  /\ CallHolds(calls[b][j], Tool(b, j))
                      /\ TreeHolds(tree'[<<b, j>>], calls[b][j].phase, Tool(b, j))
    BY <1>1, CallsHoldAfter
  <2>1. CallHolds(calls[b][j], Tool(b, j)) /\ TreeHolds(tree[<<b, j>>], calls[b][j].phase, Tool(b, j))
    BY DEF EffectsInv, CallsHold
  <2>2. CASE tree'[<<b, j>>] = tree[<<b, j>>]
    BY <2>1, <2>2
  <2>3. CASE /\ <<b, j>> \in waits[a] /\ tree'[<<b, j>>].kill = "aborted"
             /\ tree'[<<b, j>>].root = tree[<<b, j>>].root
    <3>1. calls[b][j].phase = "cut"
      BY <2>3 DEF EffectsInv, CleanupsOfCut
    <3> QED  BY <2>1, <2>3, <3>1 DEF TreeHolds, LeafHolds, Ended
  <2>4. <<b, j>> \in Keys
    BY CallsAreKeys
  <2> QED  BY <1>4, <2>2, <2>3, <2>4
<1>7. BehindOver' /\ InParallel'
  <2>1. \A b \in Agents : \A j \in Index(b) : Moves(calls[b][j].phase, calls'[b][j].phase)
    BY <1>1 DEF Moves
  <2> QED  BY <1>1, <2>1, MovesKeepTurn DEF EffectsInv
<1>8. CleanupsOfCut'
  <2> SUFFICES ASSUME NEW c \in Agents, NEW j \in Index(c), NEW b \in Agents,
                      <<c, j>> \in cleanups[b] \cup waits'[b]
               PROVE  calls[c][j].phase = "cut"
    BY <1>1, TurnsStay DEF CleanupsOfCut
  <2>1. <<c, j>> \in cleanups[b] \cup waits[b]
    BY <1>3
  <2> QED  BY <2>1 DEF EffectsInv, CleanupsOfCut
<1>9. LateIsQuiet => LateIsQuiet'
  <2> SUFFICES ASSUME LateIsQuiet, NEW b \in Agents, NEW j \in Index(b),
                      at'[b] \in {"unwound", "draining", "over", "gone"}
               PROVE  calls[b][j].phase \notin InCall
    BY <1>1, TurnsStay DEF LateIsQuiet
  <2> QED  BY <1>1, <1>3 DEF LateIsQuiet
<1>10. CleanupsHold => CleanupsHold'
  <2> SUFFICES ASSUME CleanupsHold, NEW b \in Agents, NEW j \in Index(b),
                      calls[b][j].phase = "cut", tree'[<<b, j>>].root = "alive"
               PROVE  \/ tree'[<<b, j>>].kill = "aborted"
                      \/ /\ tree'[<<b, j>>].kill \in {"called", "term"}
                         /\ \/ at'[b] = "gone"
                            \/ at'[b] = "unwound" /\ <<b, j>> \in cleanups[b]
                            \/ at'[b] = "draining" /\ <<b, j>> \in waits'[b]
    <3>1. turn' = turn /\ calls' = calls /\ cleanups' = cleanups
      BY <1>1
    <3> QED  BY <3>1, TurnsStay DEF CleanupsHold
  <2>1. tree'[<<b, j>>] = tree[<<b, j>>] \/ tree'[<<b, j>>].kill = "aborted"
    BY <1>4, CallsAreKeys
  <2>2. CASE tree'[<<b, j>>] = tree[<<b, j>>]
    BY <1>3, <2>2 DEF CleanupsHold
  <2> QED  BY <2>1, <2>2
<1> QED  BY <1>5, <1>6, <1>7, <1>8, <1>9, <1>10 DEF EffectsInv

\* What cutting a step does, call by call: a running command gets its cleanup.
LEMMA CutMeans ==
  ASSUME ToolTypes, CallsHold, NEW a \in Agents, NEW reason, Cut(a, reason)
  PROVE  /\ ToolTypes' /\ turn' = turn /\ waits' = waits
         /\ at[a] = "dispatching" /\ at'[a] = "unwound"
         /\ \A b \in Agents : b # a => at'[b] = at[b] /\ cleanups'[b] = cleanups[b]
         /\ cleanups'[a] = cleanups[a] \cup {<<a, i>> : i \in Detached(a)}
         /\ \A b \in Agents : \A j \in Index(b) :
              \/ calls'[b][j] = calls[b][j] /\ tree'[<<b, j>>] = tree[<<b, j>>]
                 /\ (b = a => calls[b][j].phase \notin InCall)
              \/ /\ b = a /\ calls[b][j].phase \in InCall
                 /\ calls'[b][j].phase = "cut" /\ CallHolds(calls'[b][j], Tool(b, j))
                 /\ TreeHolds(tree'[<<b, j>>], "cut", Tool(b, j))
                 /\ tree'[<<b, j>>].root = "alive" =>
                      \/ tree'[<<b, j>>].kill = "aborted"
                      \/ tree'[<<b, j>>].kill = "called" /\ <<b, j>> \in cleanups'[b]
<1>1. /\ at[a] = "dispatching" /\ at' = [at EXCEPT ![a] = "unwound"]
      /\ calls' = [calls EXCEPT ![a] = [i \in Index(a) |->
                     IF @[i].phase \in InCall THEN [@[i] EXCEPT !.phase = "cut"] ELSE @[i]]]
      /\ tree' = [k \in Keys |->
           IF k[1] # a \/ k[2] \notin Index(a) THEN tree[k]
           ELSE IF k[2] \in Detached(a) /\ tree[k].live THEN [tree[k] EXCEPT !.kill = "called"]
           ELSE IF calls[a][k[2]].phase = "stopping" /\ tree[k].kill = "term"
           THEN [tree[k] EXCEPT !.kill = "aborted"]
           ELSE tree[k]]
      /\ cleanups' = [cleanups EXCEPT ![a] = @ \cup {<<a, i>> : i \in Detached(a)}]
      /\ turn' = turn /\ waits' = waits
  BY DEF Cut
<1>2. /\ at \in [Agents -> {"ready", "dispatching", "unwound", "draining", "over", "gone"}]
      /\ cleanups \in [Agents -> SUBSET Keys] /\ tree \in [Keys -> TreeType]
      /\ calls = [b \in Agents |-> calls[b]] /\ \A b \in Agents : calls[b] \in [Index(b) -> CallType]
  BY DEF ToolTypes
<1>3. /\ at'[a] = "unwound" /\ \A b \in Agents : b # a => at'[b] = at[b]
      /\ at' \in [Agents -> {"ready", "dispatching", "unwound", "draining", "over", "gone"}]
  BY <1>1, <1>2
<1>4. {<<a, i>> : i \in Detached(a)} \in SUBSET Keys
  BY CallsAreKeys DEF Detached
<1>5. /\ cleanups' \in [Agents -> SUBSET Keys]
      /\ cleanups'[a] = cleanups[a] \cup {<<a, i>> : i \in Detached(a)}
      /\ \A b \in Agents : b # a => cleanups'[b] = cleanups[b]
  BY <1>1, <1>2, <1>4
<1>6. /\ calls' = [b \in Agents |-> calls'[b]]
      /\ calls'[a] = [i \in Index(a) |-> IF calls[a][i].phase \in InCall
                        THEN [calls[a][i] EXCEPT !.phase = "cut"] ELSE calls[a][i]]
      /\ \A b \in Agents : b # a => calls'[b] = calls[b]
  BY <1>1, <1>2
<1>7. \A i \in Index(a) :
        /\ calls[a][i].phase \notin InCall => calls'[a][i] = calls[a][i]
        /\ calls[a][i].phase \in InCall =>
             /\ calls'[a][i] \in CallType /\ calls'[a][i].phase = "cut"
             /\ calls'[a][i].runs = calls[a][i].runs /\ calls'[a][i].outcome = calls[a][i].outcome
  <2> SUFFICES ASSUME NEW i \in Index(a), calls[a][i].phase \in InCall
               PROVE  /\ calls'[a][i] \in CallType /\ calls'[a][i].phase = "cut"
                      /\ calls'[a][i].runs = calls[a][i].runs
                      /\ calls'[a][i].outcome = calls[a][i].outcome
    BY <1>6
  <2>1. calls'[a][i] = [calls[a][i] EXCEPT !.phase = "cut"] /\ calls[a][i] \in CallType
    BY <1>2, <1>6
  <2> QED  BY <2>1 DEF CallType, Phases
<1>8. \A b \in Agents : calls'[b] \in [Index(b) -> CallType]
  <2> SUFFICES ASSUME NEW b \in Agents PROVE calls'[b] \in [Index(b) -> CallType]
    OBVIOUS
  <2>1. CASE b # a
    BY <1>2, <1>6, <2>1
  <2>2. CASE b = a
    <3>1. \A i \in Index(a) : calls'[a][i] \in CallType
      BY <1>2, <1>7
    <3> QED  BY <1>6, <2>2, <3>1
  <2> QED  BY <2>1, <2>2
<1>9. \A k \in Keys :
        /\ k[1] # a \/ k[2] \notin Index(a) => tree'[k] = tree[k]
        /\ k[1] = a /\ k[2] \in Index(a) =>
             /\ k[2] \in Detached(a) /\ tree[k].live =>
                  tree'[k] \in TreeType /\ tree'[k].root = tree[k].root /\ tree'[k].kill = "called"
             /\ k[2] \notin Detached(a) /\ calls[a][k[2]].phase = "stopping" /\ tree[k].kill = "term" =>
                  tree'[k] \in TreeType /\ tree'[k].root = tree[k].root /\ tree'[k].kill = "aborted"
             /\ ~ (k[2] \in Detached(a) /\ tree[k].live)
                  /\ ~ (calls[a][k[2]].phase = "stopping" /\ tree[k].kill = "term") =>
                  tree'[k] = tree[k]
  <2> SUFFICES ASSUME NEW k \in Keys, k[1] = a, k[2] \in Index(a)
               PROVE  /\ k[2] \in Detached(a) /\ tree[k].live =>
                           /\ tree'[k] \in TreeType /\ tree'[k].root = tree[k].root
                           /\ tree'[k].kill = "called"
                      /\ k[2] \notin Detached(a) /\ calls[a][k[2]].phase = "stopping"
                           /\ tree[k].kill = "term" =>
                           /\ tree'[k] \in TreeType /\ tree'[k].root = tree[k].root
                           /\ tree'[k].kill = "aborted"
                      /\ ~ (k[2] \in Detached(a) /\ tree[k].live)
                           /\ ~ (calls[a][k[2]].phase = "stopping" /\ tree[k].kill = "term") =>
                           tree'[k] = tree[k]
    BY <1>1
  <2>1. tree[k] \in TreeType
    BY <1>2
  <2>2. CASE k[2] \in Detached(a) /\ tree[k].live
    <3>1. tree'[k] = [tree[k] EXCEPT !.kill = "called"]
      BY <1>1, <2>2
    <3> QED  BY <2>1, <2>2, <3>1 DEF TreeType, Kills
  <2>3. CASE /\ ~ (k[2] \in Detached(a) /\ tree[k].live)
             /\ calls[a][k[2]].phase = "stopping" /\ tree[k].kill = "term"
    <3>1. tree'[k] = [tree[k] EXCEPT !.kill = "aborted"]
      BY <1>1, <2>3
    <3> QED  BY <2>1, <2>3, <3>1 DEF TreeType, Kills
  <2>4. CASE /\ ~ (k[2] \in Detached(a) /\ tree[k].live)
             /\ ~ (calls[a][k[2]].phase = "stopping" /\ tree[k].kill = "term")
    BY <1>1, <2>4
  <2> QED  BY <2>2, <2>3, <2>4
<1>10. \A i \in Detached(a) : calls[a][i].phase # "stopping"
  BY DEF Detached
<1>11. ToolTypes'
  <2>1. \A b \in Agents : Index(b)' = Index(b)
    BY <1>1 DEF Index
  <2>2. tree' \in [Keys -> TreeType]
    <3>1. \A k \in Keys : tree'[k] \in TreeType
      BY <1>2, <1>9, <1>10
    <3>2. tree' = [k \in Keys |-> tree'[k]]
      BY <1>1
    <3> QED  BY <3>1, <3>2
  <2>3. turn' \in [Agents -> Turns] /\ waits' \in [Agents -> SUBSET Keys]
    BY <1>1 DEF ToolTypes
  <2> QED  BY <1>3, <1>5, <1>6, <1>8, <2>1, <2>2, <2>3 DEF ToolTypes
<1>12. ASSUME NEW b \in Agents, NEW j \in Index(b)
       PROVE  \/ calls'[b][j] = calls[b][j] /\ tree'[<<b, j>>] = tree[<<b, j>>]
                 /\ (b = a => calls[b][j].phase \notin InCall)
              \/ /\ b = a /\ calls[b][j].phase \in InCall
                 /\ calls'[b][j].phase = "cut" /\ CallHolds(calls'[b][j], Tool(b, j))
                 /\ TreeHolds(tree'[<<b, j>>], "cut", Tool(b, j))
                 /\ tree'[<<b, j>>].root = "alive" =>
                      \/ tree'[<<b, j>>].kill = "aborted"
                      \/ tree'[<<b, j>>].kill = "called" /\ <<b, j>> \in cleanups'[b]
  <2>1. <<b, j>> \in Keys /\ <<b, j>>[1] = b /\ <<b, j>>[2] = j
    BY CallsAreKeys
  <2>2. CASE b # a
    BY <1>6, <1>9, <2>1, <2>2
  <2>3. CASE b = a /\ calls[a][j].phase \notin InCall
    <3>1. j \notin Detached(a) /\ calls[a][j].phase # "stopping"
      BY <2>3 DEF Detached, InCall
    <3> QED  BY <1>7, <1>9, <2>1, <2>3, <3>1
  <2>4. CASE b = a /\ calls[a][j].phase \in InCall
    <3> DEFINE t == tree[<<a, j>>]
               s == tree'[<<a, j>>]
               p == calls[a][j].phase
    <3>1. calls'[a][j].phase = "cut" /\ calls'[a][j].runs = calls[a][j].runs
          /\ calls'[a][j].outcome = calls[a][j].outcome
      BY <1>7, <2>4
    <3>2. CallHolds(calls[a][j], Tool(a, j)) /\ TreeHolds(t, p, Tool(a, j))
      BY <2>4 DEF CallsHold
    <3>3. CallHolds(calls'[a][j], Tool(a, j))
      BY <3>1, <3>2, <2>4 DEF CallHolds, InCall
    <3>4. /\ s = t \/ (s.root = t.root /\ s.kill \in {"called", "aborted"})
          /\ p \in {"running", "ran"} /\ t.live => s.kill = "called"
          /\ p = "stopping" /\ t.kill = "term" => s.kill = "aborted"
      BY <1>9, <1>10, <2>1, <2>4 DEF Detached
    <3>5. p \in {"running", "ran"} => <<a, j>> \in cleanups'[a]
      BY <1>5, <2>4 DEF Detached
    <3> HIDE DEF t, s, p
    <3>6. TreeHolds(s, "cut", Tool(a, j))
      BY <3>2, <3>4 DEF TreeHolds, LeafHolds, Ended
    <3>7. s.root = "alive" => s.kill = "aborted" \/ (s.kill = "called" /\ <<a, j>> \in cleanups'[a])
      BY <2>4, <3>2, <3>4, <3>5 DEF TreeHolds, InCall, p
    <3> QED  BY <2>4, <3>1, <3>3, <3>6, <3>7 DEF t, s, p
  <2> QED  BY <2>2, <2>3, <2>4
<1> QED  BY <1>1, <1>3, <1>5, <1>11, <1>12

LEMMA CutKeeps ==
  ASSUME ToolTypes, EffectsInv, LateIsQuiet, NEW a \in Agents, NEW reason, Cut(a, reason)
  PROVE  ToolTypes' /\ EffectsInv' /\ LateIsQuiet' /\ (CleanupsHold => CleanupsHold')
<1>0. CallsHold
  BY DEF EffectsInv
<1>1. /\ ToolTypes' /\ turn' = turn /\ waits' = waits
      /\ at[a] = "dispatching" /\ at'[a] = "unwound"
      /\ \A b \in Agents : b # a => at'[b] = at[b] /\ cleanups'[b] = cleanups[b]
      /\ cleanups'[a] = cleanups[a] \cup {<<a, i>> : i \in Detached(a)}
      /\ \A b \in Agents : \A j \in Index(b) :
           \/ calls'[b][j] = calls[b][j] /\ tree'[<<b, j>>] = tree[<<b, j>>]
              /\ (b = a => calls[b][j].phase \notin InCall)
           \/ /\ b = a /\ calls[b][j].phase \in InCall
              /\ calls'[b][j].phase = "cut" /\ CallHolds(calls'[b][j], Tool(b, j))
              /\ TreeHolds(tree'[<<b, j>>], "cut", Tool(b, j))
              /\ tree'[<<b, j>>].root = "alive" =>
                   \/ tree'[<<b, j>>].kill = "aborted"
                   \/ tree'[<<b, j>>].kill = "called" /\ <<b, j>> \in cleanups'[b]
  BY <1>0, CutMeans
<1>2. CallsHold'
  <2> SUFFICES ASSUME NEW b \in Agents, NEW j \in Index(b)
               PROVE  /\ CallHolds(calls'[b][j], Tool(b, j))
                      /\ TreeHolds(tree'[<<b, j>>], calls'[b][j].phase, Tool(b, j))
    BY <1>1, CallsHoldAfter
  <2>1. CallHolds(calls[b][j], Tool(b, j)) /\ TreeHolds(tree[<<b, j>>], calls[b][j].phase, Tool(b, j))
    BY <1>0 DEF CallsHold
  <2>2. CASE calls'[b][j] = calls[b][j] /\ tree'[<<b, j>>] = tree[<<b, j>>]
    BY <2>1, <2>2
  <2>3. CASE ~ (calls'[b][j] = calls[b][j] /\ tree'[<<b, j>>] = tree[<<b, j>>])
    <3>1. /\ calls'[b][j].phase = "cut" /\ CallHolds(calls'[b][j], Tool(b, j))
          /\ TreeHolds(tree'[<<b, j>>], "cut", Tool(b, j))
      BY <1>1, <2>3
    <3> QED  BY <3>1
  <2> QED  BY <2>2, <2>3
<1>3. \A b \in Agents : \A j \in Index(b) :
        \/ calls'[b][j] = calls[b][j]
        \/ b = a /\ calls[b][j].phase \in InCall /\ calls'[b][j].phase = "cut"
  BY <1>1
<1>4. BehindOver' /\ InParallel'
  <2>1. \A b \in Agents : \A j \in Index(b) : Moves(calls[b][j].phase, calls'[b][j].phase)
    BY <1>3 DEF Moves, InCall
  <2> QED  BY <1>1, <2>1, MovesKeepTurn DEF EffectsInv
<1>5. CleanupsOfCut'
  <2> SUFFICES ASSUME NEW c \in Agents, NEW j \in Index(c), NEW b \in Agents,
                      <<c, j>> \in cleanups'[b] \cup waits[b]
               PROVE  calls'[c][j].phase = "cut"
    BY <1>1, TurnsStay DEF CleanupsOfCut
  <2>1. CASE <<c, j>> \in cleanups[b] \cup waits[b]
    <3>1. calls[c][j].phase = "cut"
      BY <2>1 DEF EffectsInv, CleanupsOfCut
    <3> QED  BY <1>3, <3>1
  <2>2. CASE <<c, j>> \notin cleanups[b] \cup waits[b]
    <3>1. b = a /\ <<c, j>> \in {<<a, i>> : i \in Detached(a)}
      BY <1>1, <2>2
    <3>2. c = a /\ calls[a][j].phase \in InCall
      BY <3>1 DEF Detached, InCall
    <3>3. c = a => calls'[c][j].phase = "cut"
      BY <1>1, <3>2
    <3> QED  BY <3>2, <3>3
  <2> QED  BY <2>1, <2>2
<1>6. LateIsQuiet'
  <2> SUFFICES ASSUME NEW b \in Agents, NEW j \in Index(b),
                      at'[b] \in {"unwound", "draining", "over", "gone"}
               PROVE  calls'[b][j].phase \notin InCall
    BY <1>1, TurnsStay DEF LateIsQuiet
  <2>1. CASE b = a
    BY <1>1, <2>1 DEF InCall
  <2>2. CASE b # a
    BY <1>1, <1>3, <2>2 DEF LateIsQuiet
  <2> QED  BY <2>1, <2>2
<1>7. CleanupsHold => CleanupsHold'
  <2> SUFFICES ASSUME CleanupsHold, NEW b \in Agents, NEW j \in Index(b),
                      calls'[b][j].phase = "cut", tree'[<<b, j>>].root = "alive"
               PROVE  \/ tree'[<<b, j>>].kill = "aborted"
                      \/ /\ tree'[<<b, j>>].kill \in {"called", "term"}
                         /\ \/ at'[b] = "gone"
                            \/ at'[b] = "unwound" /\ <<b, j>> \in cleanups'[b]
                            \/ at'[b] = "draining" /\ <<b, j>> \in waits[b]
    BY <1>1, TurnsStay DEF CleanupsHold
  <2>1. CASE b = a /\ calls[b][j].phase \in InCall
    <3>1. \/ tree'[<<b, j>>].kill = "aborted"
          \/ tree'[<<b, j>>].kill = "called" /\ <<b, j>> \in cleanups'[b]
      <4>1. calls'[b][j] # calls[b][j]
        BY <2>1 DEF InCall
      <4> QED  BY <1>1, <4>1
    <3> QED  BY <1>1, <2>1, <3>1
  <2>2. CASE ~ (b = a /\ calls[b][j].phase \in InCall)
    <3>1. calls'[b][j] = calls[b][j] /\ tree'[<<b, j>>] = tree[<<b, j>>]
      BY <1>1, <2>2
    <3>2. \/ tree[<<b, j>>].kill = "aborted"
          \/ /\ tree[<<b, j>>].kill \in {"called", "term"}
             /\ \/ at[b] = "gone"
                \/ at[b] = "unwound" /\ <<b, j>> \in cleanups[b]
                \/ at[b] = "draining" /\ <<b, j>> \in waits[b]
      BY <3>1 DEF CleanupsHold
    <3> QED  BY <1>1, <3>1, <3>2
  <2> QED  BY <2>1, <2>2
<1> QED  BY <1>1, <1>2, <1>4, <1>5, <1>6, <1>7 DEF EffectsInv

-----------------------------------------------------------------------------
(* Every step *)

\* Which step a step is.
LEMMA StepsOfNext ==
  ASSUME ToolTypes, CallsHold, [Next]_vars
  PROVE  \/ \E a \in Agents : \E i \in Index(a) : CallStep(a, i)
         \/ \E k \in Keys : TreeStep(k)
         \/ \E a \in Agents : \/ Dispatch(a) \/ Drain(a) \/ EndStep(a) \/ CancelBody(a)
                              \/ \E reason \in {"interrupt", "cancel"} : Cut(a, reason)
         \/ UNCHANGED vars
<1>1. CASE Machine
  <2>1. CASE \E a \in Agents : \E i \in Index(a) : OfCall(a, i) \/ Spawn(a, i)
    <3>0. PICK a \in Agents : \E i \in Index(a) : OfCall(a, i) \/ Spawn(a, i)
      BY <2>1
    <3>1. PICK i \in Index(a) : OfCall(a, i) \/ Spawn(a, i)
      BY <3>0
    <3>2. CallStep(a, i)
      BY <3>1, EnterSteps, RanSteps, CollectSteps, RetrySteps, ToldSteps, SpawnSteps,
         ShellReturnsSteps DEF OfCall
    <3> QED  BY <3>2
  <2>2. CASE \E k \in Keys : Grace(k) \/ CleanUp(k)
    BY <2>2, GraceSteps, CleanUpSteps
  <2> QED  BY <1>1, <2>1, <2>2 DEF Machine
<1>2. CASE Others
  <2>1. CASE \E a \in Agents : \E i \in Index(a) : Decided(a, i) \/ Backstop(a, i)
    BY <2>1, DecidedSteps, BackstopSteps
  <2>2. CASE \E k \in Keys : Exits(k)
    BY <2>2, ExitsSteps
  <2>3. CASE \E a \in Agents : Interrupt(a) \/ CancelStep(a) \/ CancelBody(a)
    BY <2>3 DEF Interrupt, CancelStep
  <2> QED  BY <1>2, <2>1, <2>2, <2>3 DEF Others
<1>3. CASE Idle \/ UNCHANGED vars
  BY <1>3 DEF Idle
<1> QED  BY <1>1, <1>2, <1>3 DEF Next

LEMMA NothingHasBegun ==
  ASSUME Init
  PROVE  ToolTypes /\ EffectsInv /\ LateIsQuiet /\ CleanupsHold
<1>1. /\ turn \in [Agents -> Turns] /\ at = [a \in Agents |-> "ready"]
      /\ calls = [a \in Agents |-> [i \in 1..Len(turn[a]) |-> NewCall]]
      /\ tree = [k \in Keys |-> NoTree]
      /\ cleanups = [a \in Agents |-> {}] /\ waits = [a \in Agents |-> {}]
  BY DEF Init
<1>2. \A a \in Agents : Index(a) = 1..Len(turn[a])
  BY <1>1, LongestTurn DEF Index
<1>3. NewCall \in CallType /\ NoTree \in TreeType
  BY DEF NewCall, NoTree, CallType, TreeType, Phases, Outcomes, Kills, InCall, Processes
<1>4. \A a \in Agents : calls[a] = [i \in Index(a) |-> NewCall]
  BY <1>1, <1>2
<1>5. ToolTypes
  <2>1. calls = [a \in Agents |-> calls[a]]
    BY <1>1
  <2>2. \A a \in Agents : calls[a] \in [Index(a) -> CallType]
    BY <1>3, <1>4
  <2>3. /\ tree \in [Keys -> TreeType]
        /\ cleanups \in [Agents -> SUBSET Keys] /\ waits \in [Agents -> SUBSET Keys]
        /\ at \in [Agents -> {"ready", "dispatching", "unwound", "draining", "over", "gone"}]
    BY <1>1, <1>3
  <2> QED  BY <1>1, <2>1, <2>2, <2>3 DEF ToolTypes
<1>6. \A a \in Agents : \A i \in Index(a) :
        calls[a][i] = NewCall /\ tree[<<a, i>>] = NoTree
  BY <1>1, <1>4, <1>5, CallsAreKeys
<1>7. NewCall.phase = "waiting" /\ NewCall.runs = 0 /\ NewCall.outcome = "none"
      /\ NoTree.root = "none" /\ NoTree.kill = "none" /\ NoTree.leaf = "none"
  BY DEF NewCall, NoTree
<1>8. CallsHold
  <2>1. \A t : CallHolds(NewCall, t) /\ TreeHolds(NoTree, NewCall.phase, t)
    BY <1>7, AllowedIsBounded DEF CallHolds, TreeHolds, LeafHolds
  <2> QED  BY <1>6, <2>1 DEF CallsHold
<1>9. BehindOver
  BY <1>6, <1>7 DEF BehindOver
<1>10. InParallel
  <2> SUFFICES ASSUME NEW a \in Agents
               PROVE  Cardinality({i \in Index(a) : Batched(a, i) /\ calls[a][i].phase \in InCall})
                        <= MaxParallel
    BY DEF InParallel
  <2>1. {i \in Index(a) : Batched(a, i) /\ calls[a][i].phase \in InCall} = {}
    BY <1>6, <1>7 DEF InCall
  <2>2. Cardinality({}) = 0 /\ 0 <= MaxParallel
    BY FS_EmptySet, ToolsAssumption
  <2> QED  BY <2>1, <2>2
<1>11. CleanupsOfCut /\ LateIsQuiet /\ CleanupsHold
  BY <1>1, <1>6, <1>7 DEF CleanupsOfCut, LateIsQuiet, CleanupsHold
<1> QED  BY <1>5, <1>8, <1>9, <1>10, <1>11 DEF EffectsInv

LEMMA EffectsInvHolds == Spec => [](ToolTypes /\ EffectsInv /\ LateIsQuiet)
<1>1. Init => ToolTypes /\ EffectsInv /\ LateIsQuiet
  BY NothingHasBegun
<1>2. ToolTypes /\ EffectsInv /\ LateIsQuiet /\ [Next]_vars => (ToolTypes /\ EffectsInv /\ LateIsQuiet)'
  <2> SUFFICES ASSUME ToolTypes, EffectsInv, LateIsQuiet, [Next]_vars
               PROVE  ToolTypes' /\ EffectsInv' /\ LateIsQuiet'
    OBVIOUS
  <2>0. CallsHold
    BY DEF EffectsInv
  <2>1. CASE \E a \in Agents : \E i \in Index(a) : CallStep(a, i)
    <3>0. PICK a \in Agents : \E i \in Index(a) : CallStep(a, i)
      BY <2>1
    <3>1. PICK i \in Index(a) : CallStep(a, i)
      BY <3>0
    <3>2. ToolTypes'
      BY <3>1, CallStepMeans
    <3>3. EffectsInv'
      BY <3>1, CallStepKeepsEffects
    <3>4. LateIsQuiet'
      BY <3>1, CallStepKeepsCleanups
    <3> QED  BY <3>2, <3>3, <3>4
  <2>2. CASE \E k \in Keys : TreeStep(k)
    BY <2>2, TreeStepMeans, TreeStepKeeps
  <2>3. CASE \E a \in Agents : Dispatch(a) \/ Drain(a) \/ EndStep(a) \/ CancelBody(a)
    BY <2>3, DispatchKeeps, DrainKeeps, EndStepKeeps, CancelBodyKeeps
  <2>4. CASE \E a \in Agents : \E reason \in {"interrupt", "cancel"} : Cut(a, reason)
    BY <2>4, CutKeeps
  <2>5. CASE UNCHANGED vars
    <3>1. turn' = turn /\ at' = at /\ calls' = calls /\ tree' = tree /\ cleanups' = cleanups
          /\ waits' = waits
      BY <2>5 DEF vars
    <3>2. ToolTypes'
      BY <3>1 DEF ToolTypes, Index
    <3>3. EffectsInv'
      BY <3>1, TreesKeepEffects
    <3>4. LateIsQuiet'
      BY <3>1 DEF LateIsQuiet, Index
    <3> QED  BY <3>2, <3>3, <3>4
  <2> QED  BY <2>0, <2>1, <2>2, <2>3, <2>4, <2>5, StepsOfNext
<1> QED  BY <1>1, <1>2, PTL DEF Spec

LEMMA CleanupsStay ==
  ASSUME ToolTypes, EffectsInv, LateIsQuiet, CleanupsHold, ~Shared, [Next]_vars
  PROVE  CleanupsHold'
<1>0. CallsHold
  BY DEF EffectsInv
<1>1. CASE \E a \in Agents : \E i \in Index(a) : CallStep(a, i)
  <2>1. PICK a \in Agents : \E i \in Index(a) : CallStep(a, i)
    BY <1>1
  <2>2. PICK i \in Index(a) : CallStep(a, i)
    BY <2>1
  <2> QED  BY <2>2, CallStepKeepsCleanups
<1>2. CASE \E k \in Keys : TreeStep(k)
  BY <1>2, TreeStepKeeps
<1>3. CASE \E a \in Agents : Dispatch(a) \/ Drain(a) \/ EndStep(a) \/ CancelBody(a)
  BY <1>3, DispatchKeeps, DrainKeeps, EndStepKeeps, CancelBodyKeeps
<1>4. CASE \E a \in Agents : \E reason \in {"interrupt", "cancel"} : Cut(a, reason)
  BY <1>4, CutKeeps
<1>5. CASE UNCHANGED vars
  BY <1>5 DEF vars, CleanupsHold, Index
<1> QED  BY <1>0, <1>1, <1>2, <1>3, <1>4, <1>5, StepsOfNext

-----------------------------------------------------------------------------
(* What was told *)

\* An agent that a step leaves alone is told nothing.
LEMMA OthersToldAsBefore ==
  ASSUME turn' = turn, NEW b \in Agents, ToldOf(b),
         kept'[b] = kept[b], message'[b] = message[b],
         at'[b] = at[b] \/ (at[b] # "over" /\ at'[b] # "over"),
         \A j \in Index(b) : calls'[b][j] = calls[b][j] /\ heard'[<<b, j>>] = heard[<<b, j>>]
  PROVE  ToldOf(b)'
<1>1. Index(b)' = Index(b)
  BY DEF Index
<1>2. /\ DOMAIN kept'[b] = {i \in Index(b) : calls'[b][i].phase = "done"}
      /\ \A j \in DOMAIN kept'[b] : kept'[b][j] = calls'[b][j].outcome
  BY DEF ToldOf
<1>3. /\ \A k \in Index(b) : calls'[b][k].phase \in {"telling", "done"} /\ at'[b] # "over" =>
           heard'[<<b, k>>] = <<Said(calls'[b][k].outcome)>>
      /\ at'[b] # "over" => \A l \in Index(b) :
           calls'[b][l].phase \notin {"telling", "done", "cut"} => heard'[<<b, l>>] = <<>>
  BY DEF ToldOf
<1>4. at'[b] = "over" =>
       /\ Len(message'[b]) = Len(turn[b])
       /\ \A m \in Index(b) :
            /\ heard'[<<b, m>>] # <<>>
            /\ heard'[<<b, m>>][Len(heard'[<<b, m>>])] = Shows(message'[b][m])
            /\ calls'[b][m].phase = "done" => Len(heard'[<<b, m>>]) = 1
  BY DEF ToldOf
<1> QED  BY <1>1, <1>2, <1>3, <1>4 DEF ToldOf, Said, Shows

\* The step of a call tells of it once, and keeps what it told.
LEMMA CallStepKeepsTold ==
  ASSUME ToolTypes, LateIsQuiet, ToldHold, NEW a \in Agents, NEW i \in Index(a), CallStep(a, i)
  PROVE  ToldHold'
<1>1. PICK c \in CallType, t \in TreeType :
        /\ SetCall(a, i, c) /\ SetTree(<<a, i>>, t)
        /\ turn' = turn /\ at' = at /\ cleanups' = cleanups /\ waits' = waits /\ message' = message
        /\ CallHolds(c, Tool(a, i)) /\ TreeHolds(t, c.phase, Tool(a, i))
        /\ \/ calls[a][i].phase \in InCall
           \/ calls[a][i].phase = "waiting" /\ at[a] = "dispatching" /\ Ready(a, i) /\ Room(a, i)
        /\ c.phase \in InCall \cup {"done"}
        /\ Tells(a, i, c)
  BY DEF CallStep
<1>2. /\ DOMAIN calls' = Agents
      /\ \A b \in Agents : calls'[b] \in [Index(b) -> CallType]
      /\ calls'[a][i] = c
      /\ \A b \in Agents : \A j \in Index(b) : b # a \/ j # i => calls'[b][j] = calls[b][j]
  BY <1>1, OneCallSet
<1>3. /\ heard \in [Keys -> Seq({"completed", "failed", "cancelled"})]
      /\ kept = [b \in Agents |-> kept[b]] /\ message = [b \in Agents |-> message[b]]
      /\ <<a, i>> \in Keys /\ ToldOf(a)
  BY CallsAreKeys DEF ToldHold
<1>4. at[a] # "over" /\ calls[a][i].phase \notin {"done", "cut"}
  BY <1>1 DEF LateIsQuiet, InCall
<1>5. /\ heard' \in [Keys -> Seq({"completed", "failed", "cancelled"})]
      /\ \A k \in Keys : k # <<a, i>> => heard'[k] = heard[k]
      /\ \/ heard' = heard
         \/ heard'[<<a, i>>] = Append(heard[<<a, i>>], Said(c.outcome))
  <2>1. CASE heard' = heard
    BY <1>3, <2>1
  <2>2. CASE Heard(a, i, Said(c.outcome))
    <3>1. heard' = [heard EXCEPT ![<<a, i>>] = Append(@, Said(c.outcome))]
      BY <2>2 DEF Heard
    <3>2. Append(heard[<<a, i>>], Said(c.outcome)) \in Seq({"completed", "failed", "cancelled"})
      <4>1. heard[<<a, i>>] \in Seq({"completed", "failed", "cancelled"})
        BY <1>3
      <4>2. Said(c.outcome) \in {"completed", "failed", "cancelled"}
        BY DEF Said
      <4> QED  BY <4>1, <4>2
    <3> QED  BY <1>3, <3>1, <3>2
  <2> QED  BY <1>1, <2>1, <2>2 DEF Tells
<1>6. /\ kept' = [b \in Agents |-> kept'[b]]
      /\ \A b \in Agents : b # a => kept'[b] = kept[b]
      /\ c.phase # "done" => kept'[a] = kept[a]
      /\ c.phase = "done" => kept'[a] = WithResult(kept[a], i, c.outcome)
  <2>1. CASE c.phase # "done"
    <3>1. kept' = kept
      BY <1>1, <2>1 DEF Tells
    <3> QED  BY <1>3, <2>1, <3>1
  <2>2. CASE c.phase = "done"
    <3>1. kept' = [kept EXCEPT ![a] = WithResult(@, i, c.outcome)]
      BY <1>1, <2>2 DEF Tells, InCall
    <3> QED  BY <1>3, <2>2, <3>1
  <2> QED  BY <2>1, <2>2
<1>7. ASSUME NEW b \in Agents, b # a PROVE ToldOf(b)'
  <2>1. \A j \in Index(b) : calls'[b][j] = calls[b][j] /\ heard'[<<b, j>>] = heard[<<b, j>>]
    BY <1>2, <1>5, <1>7, CallsAreKeys
  <2>2. ToldOf(b)
    BY DEF ToldHold
  <2> QED  BY <1>1, <1>6, <1>7, <2>1, <2>2, OthersToldAsBefore
<1>8. ToldOf(a)'
  <2>1. Index(a)' = Index(a)
    BY <1>1 DEF Index
  <2>2. \A j \in Index(a) : j # i => heard'[<<a, j>>] = heard[<<a, j>>]
    BY <1>5, CallsAreKeys
  <2>3. DOMAIN kept[a] = {j \in Index(a) : calls[a][j].phase = "done"}
        /\ \A j \in DOMAIN kept[a] : kept[a][j] = calls[a][j].outcome
    BY <1>3 DEF ToldOf
  <2>4. /\ DOMAIN kept'[a] = {j \in Index(a) : calls'[a][j].phase = "done"}
        /\ \A j \in DOMAIN kept'[a] : kept'[a][j] = calls'[a][j].outcome
    <3>1. CASE c.phase # "done"
      BY <1>2, <1>4, <1>6, <2>3, <3>1
    <3>2. CASE c.phase = "done"
      <4> DEFINE g == WithResult(kept[a], i, c.outcome)
      <4>1. /\ DOMAIN g = {i} \cup DOMAIN kept[a] /\ g[i] = c.outcome
            /\ \A j \in DOMAIN kept[a] : j # i => g[j] = kept[a][j]
        BY DEF WithResult
      <4>2. kept'[a] = g
        BY <1>6, <3>2
      <4> HIDE DEF g
      <4>3. DOMAIN kept'[a] = {j \in Index(a) : calls'[a][j].phase = "done"}
        BY <1>2, <2>3, <3>2, <4>1, <4>2
      <4>4. \A j \in DOMAIN kept'[a] : kept'[a][j] = calls'[a][j].outcome
        BY <1>2, <2>3, <4>1, <4>2
      <4> QED  BY <4>3, <4>4
    <3> QED  BY <3>1, <3>2
  <2>5. c.phase = "telling" => heard'[<<a, i>>] = <<Said(c.outcome)>>
    <3> SUFFICES ASSUME c.phase = "telling" PROVE heard'[<<a, i>>] = <<Said(c.outcome)>>
      OBVIOUS
    <3>1. CASE calls[a][i].phase = "telling"
      BY <1>1, <3>1 DEF Tells
    <3>2. CASE calls[a][i].phase # "telling"
      <4>1. heard[<<a, i>>] = <<>>
        BY <1>3, <1>4, <3>2 DEF ToldOf
      <4>2. Heard(a, i, Said(c.outcome))
        BY <1>1, <3>2 DEF Tells
      <4>3. heard'[<<a, i>>] = Append(<<>>, Said(c.outcome))
        BY <1>3, <4>1, <4>2 DEF Heard
      <4> QED  BY <4>3
    <3> QED  BY <3>1, <3>2
  <2>6. c.phase = "done" => heard'[<<a, i>>] = <<Said(c.outcome)>>
    <3> SUFFICES ASSUME c.phase = "done" PROVE heard'[<<a, i>>] = <<Said(c.outcome)>>
      OBVIOUS
    <3>1. calls[a][i].phase = "telling" /\ c.outcome = calls[a][i].outcome /\ heard' = heard
      BY <1>1 DEF Tells, InCall
    <3> QED  BY <1>3, <1>4, <3>1 DEF ToldOf
  <2>7. c.phase \notin {"telling", "done"} => heard'[<<a, i>>] = <<>>
    <3> SUFFICES ASSUME c.phase \notin {"telling", "done"} PROVE heard'[<<a, i>>] = <<>>
      OBVIOUS
    <3>1. calls[a][i].phase # "telling" /\ heard' = heard
      BY <1>1 DEF Tells
    <3> QED  BY <1>3, <1>4, <3>1 DEF ToldOf
  <2>8. \A k \in Index(a) : calls'[a][k].phase \in {"telling", "done"} =>
          heard'[<<a, k>>] = <<Said(calls'[a][k].outcome)>>
    <3> SUFFICES ASSUME NEW k \in Index(a), calls'[a][k].phase \in {"telling", "done"}
                 PROVE  heard'[<<a, k>>] = <<Said(calls'[a][k].outcome)>>
      OBVIOUS
    <3>1. CASE k = i
      BY <1>2, <2>5, <2>6, <3>1
    <3>2. CASE k # i
      BY <1>2, <1>3, <1>4, <2>2, <3>2 DEF ToldOf
    <3> QED  BY <3>1, <3>2
  <2>9. \A l \in Index(a) :
          calls'[a][l].phase \notin {"telling", "done", "cut"} => heard'[<<a, l>>] = <<>>
    <3> SUFFICES ASSUME NEW l \in Index(a), calls'[a][l].phase \notin {"telling", "done", "cut"}
                 PROVE  heard'[<<a, l>>] = <<>>
      OBVIOUS
    <3>1. CASE l = i
      BY <1>2, <2>7, <3>1
    <3>2. CASE l # i
      BY <1>2, <1>3, <1>4, <2>2, <3>2 DEF ToldOf
    <3> QED  BY <3>1, <3>2
  <2>10. at'[a] # "over"
    BY <1>1, <1>4
  <2> QED  BY <2>1, <2>4, <2>8, <2>9, <2>10 DEF ToldOf, Said
<1>9. message' = [b \in Agents |-> message'[b]]
  BY <1>1, <1>3
<1> QED  BY <1>5, <1>6, <1>7, <1>8, <1>9 DEF ToldHold

\* A step that tells nothing, and lets no call reach or leave its end but by a cut.
LEMMA UntoldKeepTold ==
  ASSUME ToolTypes, ToldHold, turn' = turn, heard' = heard, kept' = kept, message' = message,
         \A b \in Agents : \A j \in Index(b) :
           \/ calls'[b][j] = calls[b][j]
           \/ calls[b][j].phase \in InCall /\ calls'[b][j].phase = "cut" /\ at[b] = "dispatching",
         \A b \in Agents : at'[b] = at[b] \/ (at[b] # "over" /\ at'[b] # "over")
  PROVE  ToldHold'
<1>1. ASSUME NEW b \in Agents PROVE ToldOf(b)'
  <2>1. Index(b)' = Index(b) /\ ToldOf(b)
    BY DEF Index, ToldHold
  <2>2. {j \in Index(b) : calls'[b][j].phase = "done"} = {j \in Index(b) : calls[b][j].phase = "done"}
    BY DEF InCall
  <2>3. /\ DOMAIN kept'[b] = {j \in Index(b) : calls'[b][j].phase = "done"}
        /\ \A j \in DOMAIN kept'[b] : kept'[b][j] = calls'[b][j].outcome
    BY <2>1, <2>2 DEF ToldOf, InCall
  <2>4. /\ \A k \in Index(b) : calls'[b][k].phase \in {"telling", "done"} /\ at'[b] # "over" =>
             heard'[<<b, k>>] = <<Said(calls'[b][k].outcome)>>
        /\ at'[b] # "over" => \A l \in Index(b) :
             calls'[b][l].phase \notin {"telling", "done", "cut"} => heard'[<<b, l>>] = <<>>
    BY <2>1 DEF ToldOf
  <2>5. at'[b] = "over" =>
         /\ Len(message'[b]) = Len(turn[b])
         /\ \A m \in Index(b) :
              /\ heard'[<<b, m>>] # <<>>
              /\ heard'[<<b, m>>][Len(heard'[<<b, m>>])] = Shows(message'[b][m])
              /\ calls'[b][m].phase = "done" => Len(heard'[<<b, m>>]) = 1
    BY <2>1 DEF ToldOf
  <2> QED  BY <2>1, <2>3, <2>4, <2>5 DEF ToldOf, Said, Shows
<1> QED  BY <1>1 DEF ToldHold

\* The step that ends gives every call a result, and says of those that have none that they
\* were cancelled.
LEMMA EndStepKeepsTold ==
  ASSUME ToolTypes, ToldHold, NEW a \in Agents, EndStep(a)
  PROVE  ToldHold'
<1>1. /\ at[a] = "draining" /\ turn' = turn /\ calls' = calls /\ kept' = kept
      /\ \/ at' = [at EXCEPT ![a] = "gone"] /\ message' = message /\ heard' = heard
         \/ /\ at' = [at EXCEPT ![a] = "over"]
            /\ message' = [message EXCEPT ![a] = [i \in Index(a) |->
                             IF i \in DOMAIN kept[a] THEN kept[a][i] ELSE "cancelled"]]
            /\ heard' = [k \in Keys |-> IF k[1] = a /\ k[2] \in Index(a) \ DOMAIN kept[a]
                                        THEN Append(heard[k], "cancelled") ELSE heard[k]]
  BY DEF EndStep
<1>2. /\ heard \in [Keys -> Seq({"completed", "failed", "cancelled"})]
      /\ kept = [b \in Agents |-> kept[b]] /\ message = [b \in Agents |-> message[b]]
      /\ at \in [Agents -> {"ready", "dispatching", "unwound", "draining", "over", "gone"}]
  BY DEF ToldHold, ToolTypes
<1>3. CASE at' = [at EXCEPT ![a] = "gone"] /\ message' = message /\ heard' = heard
  <2>1. \A b \in Agents : at'[b] = at[b] \/ (at[b] # "over" /\ at'[b] # "over")
    BY <1>1, <1>2, <1>3
  <2> QED  BY <1>1, <1>3, <2>1, UntoldKeepTold
<1>4. CASE /\ at' = [at EXCEPT ![a] = "over"]
           /\ message' = [message EXCEPT ![a] = [i \in Index(a) |->
                            IF i \in DOMAIN kept[a] THEN kept[a][i] ELSE "cancelled"]]
           /\ heard' = [k \in Keys |-> IF k[1] = a /\ k[2] \in Index(a) \ DOMAIN kept[a]
                                       THEN Append(heard[k], "cancelled") ELSE heard[k]]
  <2>1. at'[a] = "over" /\ \A b \in Agents : b # a => at'[b] = at[b]
    BY <1>2, <1>4
  <2>2. /\ message'[a] = [i \in Index(a) |-> IF i \in DOMAIN kept[a] THEN kept[a][i] ELSE "cancelled"]
        /\ \A b \in Agents : b # a => message'[b] = message[b]
        /\ message' = [b \in Agents |-> message'[b]]
    BY <1>2, <1>4
  <2>3. heard' \in [Keys -> Seq({"completed", "failed", "cancelled"})]
    <3>1. ASSUME NEW k \in Keys
          PROVE  /\ heard[k] \in Seq({"completed", "failed", "cancelled"})
                 /\ Append(heard[k], "cancelled") \in Seq({"completed", "failed", "cancelled"})
      BY <1>2
    <3> QED  BY <1>4, <3>1
  <2>4. \A b \in Agents : \A j \in Index(b) :
          /\ b = a /\ j \notin DOMAIN kept[a] =>
               heard'[<<b, j>>] = Append(heard[<<b, j>>], "cancelled")
          /\ ~ (b = a /\ j \notin DOMAIN kept[a]) => heard'[<<b, j>>] = heard[<<b, j>>]
    <3> SUFFICES ASSUME NEW b \in Agents, NEW j \in Index(b)
                 PROVE  /\ b = a /\ j \notin DOMAIN kept[a] =>
                             heard'[<<b, j>>] = Append(heard[<<b, j>>], "cancelled")
                        /\ ~ (b = a /\ j \notin DOMAIN kept[a]) => heard'[<<b, j>>] = heard[<<b, j>>]
      OBVIOUS
    <3>1. <<b, j>> \in Keys /\ <<b, j>>[1] = b /\ <<b, j>>[2] = j
      BY CallsAreKeys
    <3> QED  BY <1>4, <3>1
  <2>5. ASSUME NEW b \in Agents, b # a PROVE ToldOf(b)'
    <3>1. ToldOf(b) /\ \A j \in Index(b) : calls'[b][j] = calls[b][j] /\ heard'[<<b, j>>] = heard[<<b, j>>]
      BY <1>1, <2>4, <2>5 DEF ToldHold
    <3>2. kept'[b] = kept[b] /\ message'[b] = message[b] /\ at'[b] = at[b]
      BY <1>1, <2>1, <2>2, <2>5
    <3> QED  BY <1>1, <3>1, <3>2, OthersToldAsBefore
  <2>6. ToldOf(a)'
    <3>1. Index(a)' = Index(a) /\ ToldOf(a)
      BY <1>1 DEF Index, ToldHold
    <3>2. /\ DOMAIN kept[a] = {j \in Index(a) : calls[a][j].phase = "done"}
          /\ \A j \in DOMAIN kept[a] : kept[a][j] = calls[a][j].outcome
          /\ \A j \in DOMAIN kept[a] : heard[<<a, j>>] = <<Said(calls[a][j].outcome)>>
      BY <1>1, <3>1 DEF ToldOf
    <3>3. Len(message'[a]) = Len(turn[a])
      <4>1. Index(a) = 1..Len(turn[a]) /\ Len(turn[a]) \in Nat
        <5>1. turn[a] \in Turns
          BY DEF ToolTypes
        <5> QED  BY <5>1, LongestTurn DEF Index
      <4>2. DOMAIN message'[a] = 1..Len(turn[a])
        BY <2>2, <4>1
      <4>3. message'[a] \in Seq({message'[a][i] : i \in Index(a)})
        BY <2>2, <4>1
      <4> QED  BY <4>1, <4>2, <4>3
    <3>4. ASSUME NEW m \in Index(a)
          PROVE  /\ heard'[<<a, m>>] # <<>>
                 /\ heard'[<<a, m>>][Len(heard'[<<a, m>>])] = Shows(message'[a][m])
                 /\ calls[a][m].phase = "done" => Len(heard'[<<a, m>>]) = 1
      <4>1. heard[<<a, m>>] \in Seq({"completed", "failed", "cancelled"})
        BY <1>2, CallsAreKeys
      <4>2. CASE m \in DOMAIN kept[a]
        <5>1. heard'[<<a, m>>] = <<Said(calls[a][m].outcome)>> /\ message'[a][m] = calls[a][m].outcome
          BY <2>2, <2>4, <3>2, <4>2
        <5>2. calls[a][m].outcome # "cancelled"
          BY CallHasType DEF Outcomes
        <5>3. Shows(message'[a][m]) = Said(calls[a][m].outcome)
          BY <5>1, <5>2 DEF Shows
        <5> QED  BY <5>1, <5>3
      <4>3. CASE m \notin DOMAIN kept[a]
        <5>1. heard'[<<a, m>>] = Append(heard[<<a, m>>], "cancelled") /\ message'[a][m] = "cancelled"
          BY <2>2, <2>4, <4>3
        <5>2. calls[a][m].phase # "done"
          BY <3>2, <4>3
        <5>3. Len(heard'[<<a, m>>]) = Len(heard[<<a, m>>]) + 1 /\ Len(heard[<<a, m>>]) \in Nat
              /\ heard'[<<a, m>>][Len(heard[<<a, m>>]) + 1] = "cancelled"
          BY <4>1, <5>1
        <5>4. heard'[<<a, m>>] # <<>>
          BY <5>3
        <5> QED  BY <5>1, <5>2, <5>3, <5>4 DEF Shows
      <4> QED  BY <4>2, <4>3
    <3> QED  BY <1>1, <2>1, <3>1, <3>2, <3>3, <3>4 DEF ToldOf, Said, Shows
  <2> QED  BY <1>1, <1>2, <2>2, <2>3, <2>5, <2>6 DEF ToldHold
<1> QED  BY <1>1, <1>3, <1>4

LEMMA ToldStays ==
  ASSUME ToolTypes, EffectsInv, LateIsQuiet, ToldHold, [Next]_vars
  PROVE  ToldHold'
<1>0. CallsHold /\ at \in [Agents -> {"ready", "dispatching", "unwound", "draining", "over", "gone"}]
  BY DEF EffectsInv, ToolTypes
<1>1. CASE \E a \in Agents : \E i \in Index(a) : CallStep(a, i)
  <2>1. PICK a \in Agents : \E i \in Index(a) : CallStep(a, i)
    BY <1>1
  <2>2. PICK i \in Index(a) : CallStep(a, i)
    BY <2>1
  <2> QED  BY <2>2, CallStepKeepsTold
<1>2. CASE \E k \in Keys : TreeStep(k)
  <2>1. turn' = turn /\ heard' = heard /\ kept' = kept /\ message' = message /\ calls' = calls /\ at' = at
    BY <1>2 DEF TreeStep
  <2> QED  BY <2>1, UntoldKeepTold
<1>3. CASE \E a \in Agents : Dispatch(a) \/ Drain(a) \/ CancelBody(a)
  <2>1. PICK a \in Agents : Dispatch(a) \/ Drain(a) \/ CancelBody(a)
    BY <1>3
  <2>2. /\ turn' = turn /\ heard' = heard /\ kept' = kept /\ message' = message /\ calls' = calls
        /\ at[a] # "over" /\ \E s \in {"dispatching", "draining", "gone"} : at' = [at EXCEPT ![a] = s]
    BY <2>1 DEF Dispatch, Drain, CancelBody, AllDone
  <2>3. \A b \in Agents : at'[b] = at[b] \/ (at[b] # "over" /\ at'[b] # "over")
    BY <1>0, <2>2
  <2> QED  BY <2>2, <2>3, UntoldKeepTold
<1>4. CASE \E a \in Agents : EndStep(a)
  BY <1>4, EndStepKeepsTold
<1>5. CASE \E a \in Agents : \E reason \in {"interrupt", "cancel"} : Cut(a, reason)
  <2>1. PICK a \in Agents : \E reason \in {"interrupt", "cancel"} : Cut(a, reason)
    BY <1>5
  <2>2. PICK reason \in {"interrupt", "cancel"} : Cut(a, reason)
    BY <2>1
  <2>3. /\ ToolTypes' /\ turn' = turn /\ waits' = waits
        /\ at[a] = "dispatching" /\ at'[a] = "unwound"
        /\ \A b \in Agents : b # a => at'[b] = at[b] /\ cleanups'[b] = cleanups[b]
        /\ cleanups'[a] = cleanups[a] \cup {<<a, i>> : i \in Detached(a)}
        /\ \A b \in Agents : \A j \in Index(b) :
             \/ calls'[b][j] = calls[b][j] /\ tree'[<<b, j>>] = tree[<<b, j>>]
                /\ (b = a => calls[b][j].phase \notin InCall)
             \/ /\ b = a /\ calls[b][j].phase \in InCall
                /\ calls'[b][j].phase = "cut" /\ CallHolds(calls'[b][j], Tool(b, j))
                /\ TreeHolds(tree'[<<b, j>>], "cut", Tool(b, j))
                /\ tree'[<<b, j>>].root = "alive" =>
                     \/ tree'[<<b, j>>].kill = "aborted"
                     \/ tree'[<<b, j>>].kill = "called" /\ <<b, j>> \in cleanups'[b]
    BY <1>0, <2>2, CutMeans
  <2>4. \A b \in Agents : \A j \in Index(b) :
          \/ calls'[b][j] = calls[b][j]
          \/ calls[b][j].phase \in InCall /\ calls'[b][j].phase = "cut" /\ at[b] = "dispatching"
    BY <2>3
  <2>5. heard' = heard /\ kept' = kept /\ message' = message
    BY <2>2 DEF Cut
  <2>6. \A b \in Agents : at'[b] = at[b] \/ (at[b] # "over" /\ at'[b] # "over")
    BY <2>3
  <2> QED  BY <2>3, <2>4, <2>5, <2>6, UntoldKeepTold
<1>6. CASE UNCHANGED vars
  <2>1. turn' = turn /\ heard' = heard /\ kept' = kept /\ message' = message /\ calls' = calls /\ at' = at
    BY <1>6 DEF vars
  <2> QED  BY <2>1, UntoldKeepTold
<1> QED  BY <1>0, <1>1, <1>2, <1>3, <1>4, <1>5, <1>6, StepsOfNext

LEMMA NothingIsTold ==
  ASSUME Init
  PROVE  ToldHold
<1>1. /\ at = [a \in Agents |-> "ready"]
      /\ kept = [a \in Agents |-> <<>>] /\ message = [a \in Agents |-> <<>>]
      /\ heard = [k \in Keys |-> <<>>]
      /\ calls = [a \in Agents |-> [i \in 1..Len(turn[a]) |-> NewCall]]
  BY DEF Init
<1>2. ToolTypes
  BY NothingHasBegun
<1>3. \A a \in Agents : \A i \in Index(a) : calls[a][i].phase = "waiting" /\ heard[<<a, i>>] = <<>>
  <2> SUFFICES ASSUME NEW a \in Agents, NEW i \in Index(a)
               PROVE  calls[a][i].phase = "waiting" /\ heard[<<a, i>>] = <<>>
    OBVIOUS
  <2>1. <<a, i>> \in Keys /\ i \in 1..Len(turn[a])
    BY <1>2, CallsAreKeys
  <2> QED  BY <1>1, <2>1 DEF NewCall
<1>4. ASSUME NEW a \in Agents PROVE ToldOf(a)
  <2>1. at[a] = "ready" /\ kept[a] = <<>> /\ DOMAIN kept[a] = {}
    BY <1>1
  <2> QED  BY <1>3, <2>1 DEF ToldOf
<1>5. heard \in [Keys -> Seq({"completed", "failed", "cancelled"})]
  BY <1>1
<1> QED  BY <1>1, <1>4, <1>5 DEF ToldHold

-----------------------------------------------------------------------------
(* The budget *)

LEMMA Induction ==
  ASSUME NEW S, 0 \in S, \A n \in Nat : n \in S => n + 1 \in S
  PROVE  Nat \subseteq S
<1> SUFFICES ASSUME Nat \ S # {} PROVE FALSE OBVIOUS
<1> DEFINE R == OpToRel(<, Nat)
<1>1. IsWellFoundedOn(R, Nat) BY NatLessThanWellFounded
<1>2. \A x, y \in Nat : x < y => <<x, y>> \in R BY DEF OpToRel
<1> HIDE DEF R
<1>3. PICK x \in Nat \ S : \A y \in Nat \ S : ~ (<<y, x>> \in R) BY <1>1, WFMin
<1>4. x # 0 /\ x - 1 \in Nat /\ (x - 1) + 1 = x /\ x - 1 < x BY <1>3
<1>5. x - 1 \in S BY <1>2, <1>3, <1>4
<1> QED BY <1>3, <1>4, <1>5

\* A function can be defined by recursion over the numbers up to a bound.
LEMMA Recursion ==
  ASSUME NEW V, NEW a \in V, NEW N \in Nat, NEW g \in [1 .. N -> [V -> V]]
  PROVE  \E f \in [0 .. N -> V] : f[0] = a /\ \A i \in 1 .. N : f[i] = g[i][f[i - 1]]
<1> DEFINE Is(n, f) == f[0] = a /\ \A i \in 1 .. N : i <= n => f[i] = g[i][f[i - 1]]
           S == {n \in Nat : \E f \in [0 .. N -> V] : Is(n, f)}
<1>1. 0 \in S
  <2>1. [i \in 0 .. N |-> a] \in [0 .. N -> V] OBVIOUS
  <2>2. Is(0, [i \in 0 .. N |-> a]) OBVIOUS
  <2> QED BY <2>1, <2>2
<1>2. ASSUME NEW n \in Nat, n \in S PROVE n + 1 \in S
  <2>1. PICK f \in [0 .. N -> V] : Is(n, f) BY <1>2
  <2>2. CASE n + 1 \in 1 .. N
    <3> DEFINE h == [i \in 0 .. N |-> IF i = n + 1 THEN g[n + 1][f[n]] ELSE f[i]]
    <3>1. n \in 0 .. N /\ f[n] \in V /\ g[n + 1] \in [V -> V] BY <2>2
    <3>2. g[n + 1][f[n]] \in V BY <3>1
    <3>3. h \in [0 .. N -> V] BY <3>2
    <3>4. h[0] = a BY <2>1
    <3>5. ASSUME NEW i \in 1 .. N, i <= n + 1 PROVE h[i] = g[i][h[i - 1]]
      <4>1. i - 1 \in 0 .. N /\ i - 1 # n + 1 /\ i \in 0 .. N BY <3>5
      <4>2. h[i - 1] = f[i - 1] BY <4>1
      <4>3. CASE i = n + 1 BY <4>2, <4>3, <4>1
      <4>4. CASE i # n + 1
        <5>1. i <= n BY <3>5, <4>4
        <5>2. f[i] = g[i][f[i - 1]] BY <2>1, <5>1
        <5> QED BY <4>1, <4>2, <4>4, <5>2
      <4> QED BY <4>3, <4>4
    <3>6. Is(n + 1, h) BY <3>4, <3>5
    <3> HIDE DEF h
    <3>7. \E e \in [0 .. N -> V] : Is(n + 1, e) BY <3>3, <3>6
    <3> HIDE DEF Is
    <3> QED BY <3>7
  <2>3. CASE n + 1 \notin 1 .. N
    <3>1. \A i \in 1 .. N : i <= n BY <2>3
    <3>2. Is(n + 1, f) BY <2>1, <3>1
    <3> QED BY <3>2
  <2> QED BY <2>2, <2>3
<1> HIDE DEF S
<1>3. N \in S BY <1>1, <1>2, Induction
<1> QED BY <1>3 DEF S

\* What SumTo gives of the first i sizes.
Sums(f, n, upto) ==
  /\ upto \in [0..n -> Nat] /\ upto[0] = 0
  /\ \A i \in 1..n : upto[i] = upto[i - 1] + f[i]
  /\ SumTo(f, n) = upto[n]

LEMMA SumsExist ==
  ASSUME NEW f, NEW n \in Nat, \A i \in 1..n : f[i] \in Nat
  PROVE  \E h : Sums(f, n, h)
<1> DEFINE upto[i \in 0..n] == IF i = 0 THEN 0 ELSE upto[i - 1] + f[i]
           IsUpto(h) == h = [i \in 0..n |-> IF i = 0 THEN 0 ELSE h[i - 1] + f[i]]
<1>1. SumTo(f, n) = upto[n] BY DEF SumTo
<1>2. upto = CHOOSE h : IsUpto(h) OBVIOUS
<1> HIDE DEF upto
<1> DEFINE g == [i \in 1..n |-> [v \in Nat |-> v + f[i]]]
<1>3. g \in [1..n -> [Nat -> Nat]] OBVIOUS
<1>4. \A i \in 1..n : \A v \in Nat : g[i][v] = v + f[i] OBVIOUS
<1> HIDE DEF g
<1>5. PICK h \in [0..n -> Nat] : h[0] = 0 /\ \A i \in 1..n : h[i] = g[i][h[i - 1]]
  <2> DEFINE V == Nat
             a == 0
  <2>1. a \in V /\ g \in [1..n -> [V -> V]] /\ n \in Nat BY <1>3
  <2> HIDE DEF V, a
  <2>2. \E h \in [0..n -> V] : h[0] = a /\ \A i \in 1..n : h[i] = g[i][h[i - 1]]
    BY <2>1, Recursion
  <2> QED BY <2>2 DEF V, a
<1>6. \A i \in 1..n : h[i] = h[i - 1] + f[i]
  <2> TAKE i \in 1..n
  <2>1. i - 1 \in 0..n OBVIOUS
  <2> QED BY <2>1, <1>4, <1>5
<1>7. IsUpto(h)
  <2>1. h = [i \in 0..n |-> h[i]] OBVIOUS
  <2>2. \A i \in 0..n : i # 0 => i \in 1..n OBVIOUS
  <2> QED BY <1>5, <1>6, <2>1, <2>2
<1> HIDE DEF IsUpto
<1>8. IsUpto(upto) BY <1>2, <1>7
<1>9. upto = [i \in 0..n |-> IF i = 0 THEN 0 ELSE upto[i - 1] + f[i]] BY <1>8 DEF IsUpto
<1> DEFINE G == {i \in Nat : i <= n => upto[i] = h[i]}
<1>10. 0 \in G
  <2>1. upto[0] = 0 BY <1>9
  <2> QED BY <2>1, <1>5
<1>11. ASSUME NEW i \in Nat, i \in G PROVE i + 1 \in G
  <2> SUFFICES ASSUME i + 1 <= n PROVE upto[i + 1] = h[i + 1] OBVIOUS
  <2>1. i <= n /\ upto[i] = h[i] /\ i + 1 \in 0..n /\ i + 1 \in 1..n BY <1>11
  <2>2. upto[i + 1] = upto[(i + 1) - 1] + f[i + 1] BY <2>1, <1>9
  <2>3. h[i + 1] = h[(i + 1) - 1] + f[i + 1] BY <2>1, <1>6
  <2>4. (i + 1) - 1 = i OBVIOUS
  <2> QED BY <2>1, <2>2, <2>3, <2>4
<1> HIDE DEF G
<1>12. n \in G BY <1>10, <1>11, Induction
<1>13. upto[n] = h[n] BY <1>12 DEF G
<1> QED BY <1>1, <1>5, <1>6, <1>13 DEF Sums

\* Sizes no larger than others, but for one that is larger by d, sum up to d more at most.
LEMMA SumGrows ==
  ASSUME NEW f, NEW g, NEW n \in Nat, NEW k, NEW d \in Nat,
         \A i \in 1..n : f[i] \in Nat /\ g[i] \in Nat,
         \A i \in 1..n : i # k => g[i] <= f[i],
         k \in 1..n => g[k] <= f[k] + d
  PROVE  SumTo(f, n) \in Nat /\ SumTo(g, n) \in Nat /\ SumTo(g, n) <= SumTo(f, n) + d
<1>1. PICK u : Sums(f, n, u) BY SumsExist
<1>2. PICK v : Sums(g, n, v) BY SumsExist
<1>3. \A i \in 0..n : u[i] \in Nat /\ v[i] \in Nat BY <1>1, <1>2 DEF Sums
<1> DEFINE T(i) == IF k \in 1..i THEN u[i] + d ELSE u[i]
           G == {i \in Nat : i <= n => v[i] <= T(i)}
<1>4. 0 \in G BY <1>1, <1>2 DEF Sums
<1>5. ASSUME NEW i \in Nat, i \in G PROVE i + 1 \in G
  <2> SUFFICES ASSUME i + 1 <= n PROVE v[i + 1] <= T(i + 1) OBVIOUS
  <2>1. i <= n /\ v[i] <= T(i) /\ i \in 0..n /\ i + 1 \in 1..n /\ i + 1 \in 0..n BY <1>5
  <2>2. (i + 1) - 1 = i OBVIOUS
  <2>3. u[i + 1] = u[i] + f[i + 1] BY <1>1, <2>1, <2>2 DEF Sums
  <2>4. v[i + 1] = v[i] + g[i + 1] BY <1>2, <2>1, <2>2 DEF Sums
  <2>5. u[i] \in Nat /\ v[i] \in Nat /\ f[i + 1] \in Nat /\ g[i + 1] \in Nat BY <1>3, <2>1
  <2>6. CASE k = i + 1
    <3>1. k \notin 1..i /\ k \in 1..(i + 1) /\ g[i + 1] <= f[i + 1] + d BY <2>1, <2>6
    <3>2. v[i] <= u[i] BY <2>1, <3>1
    <3>3. v[i + 1] <= u[i + 1] + d BY ONLY <2>3, <2>4, <2>5, <3>1, <3>2, d \in Nat
    <3> QED BY <3>1, <3>3
  <2>7. CASE k # i + 1
    <3>1. g[i + 1] <= f[i + 1] BY <2>1, <2>7
    <3>2. k \in 1..(i + 1) <=> k \in 1..i BY <2>7
    <3>3. CASE k \in 1..i
      <4>1. v[i] <= u[i] + d BY <2>1, <3>3
      <4>2. v[i + 1] <= u[i + 1] + d BY ONLY <2>3, <2>4, <2>5, <3>1, <4>1, d \in Nat
      <4> QED BY <3>2, <3>3, <4>2
    <3>4. CASE k \notin 1..i
      <4>1. v[i] <= u[i] BY <2>1, <3>4
      <4>2. v[i + 1] <= u[i + 1] BY ONLY <2>3, <2>4, <2>5, <3>1, <4>1
      <4> QED BY <3>2, <3>4, <4>2
    <3> QED BY <3>3, <3>4
  <2> QED BY <2>6, <2>7
<1> HIDE DEF G
<1>6. n \in G BY <1>4, <1>5, Induction
<1>7. v[n] <= T(n) BY <1>6 DEF G
<1>8. u[n] \in Nat /\ v[n] \in Nat BY <1>3
<1>9. v[n] <= u[n] + d BY <1>7, <1>8
<1> QED BY <1>1, <1>2, <1>8, <1>9 DEF Sums

\* What a call has taken of its turn's budget, as long as it was not cut.
Charge(a, i) ==
  IF calls[a][i].phase \in {"telling", "done"} THEN calls[a][i].size ELSE 0
Charges(a) == [i \in Index(a) |-> Charge(a, i)]
BudgetHolds ==
  /\ spent \in [Agents -> Nat]
  /\ \A a \in Agents : SumTo(Charges(a), Len(turn[a])) <= spent[a] /\ spent[a] <= Limit

LEMMA SizesAreNumbers ==
  ASSUME ToolTypes, NEW a \in Agents
  PROVE  /\ Len(turn[a]) \in Nat /\ Index(a) = 1..Len(turn[a])
         /\ \A i \in Index(a) : Sizes(a, i) \subseteq Nat
         /\ \A i \in Index(a) : Charge(a, i) \in Nat /\ Charges(a)[i] = Charge(a, i)
<1>1. turn[a] \in Turns BY DEF ToolTypes
<1>2. turn[a] \in Seq([tool : Tools, size : Nat]) BY <1>1, ToolsAssumption
<1>3. Len(turn[a]) \in Nat /\ Index(a) = 1..Len(turn[a]) BY <1>2 DEF Index
<1>4. \A i \in Index(a) : turn[a][i].size \in Nat BY ToolsNamed
<1>5. \A i \in Index(a) : Sizes(a, i) \subseteq Nat BY <1>4 DEF Sizes
<1>6. \A i \in Index(a) : Charge(a, i) \in Nat
  <2> TAKE i \in Index(a)
  <2>1. calls[a][i].size \in Nat BY CallHasType DEF CallType
  <2> QED BY <2>1 DEF Charge
<1> QED BY <1>3, <1>5, <1>6 DEF Charges

\* The calls stay within the budget when none is charged more than before but one, for
\* which that much is spent.
LEMMA ChargesStay ==
  ASSUME ToolTypes, BudgetHolds, turn' = turn, NEW a \in Agents, NEW i, NEW d \in Nat,
         \A b \in Agents : \A j \in Index(b) :
           Charge(b, j)' \in Nat /\ (b # a \/ j # i => Charge(b, j)' <= Charge(b, j)),
         i \in Index(a) => Charge(a, i)' <= Charge(a, i) + d,
         spent' = [spent EXCEPT ![a] = @ + d], spent[a] + d <= Limit
  PROVE  BudgetHolds'
<1>1. spent \in [Agents -> Nat] BY DEF BudgetHolds
<1>2. spent' \in [Agents -> Nat] /\ spent'[a] = spent[a] + d
      /\ \A b \in Agents \ {a} : spent'[b] = spent[b]
  BY <1>1
<1>3. ASSUME NEW b \in Agents
      PROVE  SumTo(Charges(b)', Len(turn[b])) <= spent'[b] /\ spent'[b] <= Limit
  <2> DEFINE f == Charges(b)
             g == Charges(b)'
             n == Len(turn[b])
             k == IF b = a THEN i ELSE 0
             m == IF b = a THEN d ELSE 0
  <2>1. n \in Nat /\ Index(b) = 1..n /\ \A j \in 1..n : f[j] \in Nat /\ f[j] = Charge(b, j)
    BY SizesAreNumbers
  <2>2. \A j \in 1..n : g[j] = Charge(b, j)' BY <2>1 DEF Charges, Index
  <2>3. /\ \A j \in 1..n : f[j] \in Nat /\ g[j] \in Nat
        /\ \A j \in 1..n : j # k => g[j] <= f[j]
        /\ k \in 1..n => g[k] <= f[k] + m
        /\ m \in Nat
    <3> HIDE DEF f, g, n
    <3>1. \A j \in 1..n : f[j] \in Nat /\ g[j] \in Nat BY <2>1, <2>2
    <3>2. \A j \in 1..n : b # a \/ j # i => g[j] <= f[j] BY <2>1, <2>2
    <3>3. CASE b = a
      <4>1. i \in 1..n => g[i] <= f[i] + d BY <2>1, <2>2, <3>3
      <4> QED BY <3>1, <3>2, <3>3, <4>1
    <3>4. CASE b # a BY <3>1, <3>2, <3>4
    <3> QED BY <3>3, <3>4
  <2>4. SumTo(f, n) <= spent[b] /\ spent[b] <= Limit /\ spent[b] \in Nat /\ Limit \in Nat
    BY <1>1, ToolsAssumption DEF BudgetHolds
  <2>5. spent'[b] = spent[b] + m /\ spent[b] + m <= Limit
    <3>1. CASE b = a BY <1>2, <3>1
    <3>2. CASE b # a BY <1>2, <2>4, <3>2
    <3> QED BY <3>1, <3>2
  <2> HIDE DEF f, g, n, k, m
  <2>6. SumTo(f, n) \in Nat /\ SumTo(g, n) \in Nat /\ SumTo(g, n) <= SumTo(f, n) + m
    BY <2>1, <2>3, SumGrows
  <2>7. SumTo(g, n) <= spent'[b] /\ spent'[b] <= Limit BY ONLY <2>3, <2>4, <2>5, <2>6
  <2> QED BY <2>7 DEF g, n
<1> QED BY <1>2, <1>3 DEF BudgetHolds

LEMMA OneSet ==
  ASSUME ToolTypes, NEW a \in Agents, NEW i \in Index(a), NEW c, SetCall(a, i, c)
  PROVE  /\ calls'[a][i] = c
         /\ \A b \in Agents : \A j \in Index(b) : b # a \/ j # i => calls'[b][j] = calls[b][j]
  BY DEF ToolTypes, SetCall

\* What becomes of a call that is charged nothing.
LEMMA NothingCharged ==
  ASSUME ToolTypes, BudgetHolds, turn' = turn, spent' = spent,
         \A b \in Agents : \A j \in Index(b) :
           \/ calls'[b][j].phase \notin {"telling", "done"}
           \/ /\ calls'[b][j].size = calls[b][j].size
              /\ calls[b][j].phase \in {"telling", "done"}
  PROVE  BudgetHolds'
<1> SUFFICES ASSUME NEW a \in Agents PROVE BudgetHolds'
  <2>1. CASE Agents = {} BY <2>1 DEF BudgetHolds
  <2> QED BY <2>1
<1>1. ASSUME NEW b \in Agents, NEW j \in Index(b)
      PROVE  Charge(b, j)' \in Nat /\ Charge(b, j)' <= Charge(b, j)
  <2>1. Charge(b, j) \in Nat BY SizesAreNumbers
  <2>2. Charge(b, j)' = 0 \/ Charge(b, j)' = Charge(b, j) BY DEF Charge
  <2> QED BY <2>1, <2>2
<1>2. spent \in [Agents -> Nat] /\ spent[a] <= Limit BY DEF BudgetHolds
<1>3. spent' = [spent EXCEPT ![a] = @ + 0] /\ spent[a] + 0 <= Limit BY <1>2
<1> DEFINE d == 0
<1>4. d \in Nat /\ spent' = [spent EXCEPT ![a] = @ + d] /\ spent[a] + d <= Limit BY <1>3
<1>5. 0 \in Index(a) => Charge(a, 0)' <= Charge(a, 0) + d
  <2>1. 0 \notin Index(a) BY SizesAreNumbers
  <2> QED BY <2>1
<1> HIDE DEF d
<1> QED BY <1>1, <1>4, <1>5, ChargesStay

\* _finish() charges a call what it then returns.
LEMMA TellCharges ==
  ASSUME ToolTypes, BudgetHolds, turn' = turn, NEW a \in Agents, NEW i \in Index(a),
         calls[a][i].phase \notin {"telling", "done"}, NEW o, NEW r, Tell(a, i, o, r)
  PROVE  BudgetHolds'
<1>0. PICK n \in Sizes(a, i) :
        LET charged == IF Fits(a, n) THEN n ELSE 0
            ended == IF Fits(a, n) THEN o ELSE "budget"
        IN  /\ SetCall(a, i, [phase |-> "telling", outcome |-> ended, runs |-> r, size |-> charged])
            /\ spent' = [spent EXCEPT ![a] = @ + charged]
  BY DEF Tell
<1> DEFINE d == IF Fits(a, n) THEN n ELSE 0
           c == [phase |-> "telling", outcome |-> IF Fits(a, n) THEN o ELSE "budget",
                 runs |-> r, size |-> d]
<1>1. SetCall(a, i, c) /\ spent' = [spent EXCEPT ![a] = @ + d]
  BY <1>0
<1>2. c.phase = "telling" /\ c.size = d OBVIOUS
<1>3. \A b \in Agents : \A j \in Index(b) : Charge(b, j) \in Nat
  BY SizesAreNumbers
<1>4. spent \in [Agents -> Nat] /\ spent[a] <= Limit /\ Limit \in Nat
  BY ToolsAssumption DEF BudgetHolds
<1>5. d \in Nat /\ spent[a] + d <= Limit
  <2>1. n \in Nat /\ spent[a] \in Nat BY <1>4, SizesAreNumbers
  <2>2. CASE Fits(a, n)
    <3>1. n <= Limit - spent[a] BY <2>2 DEF Fits
    <3> HIDE DEF c
    <3>2. spent[a] + n <= Limit BY ONLY <1>4, <2>1, <3>1
    <3> QED BY <2>1, <2>2, <3>2
  <2>3. CASE ~Fits(a, n)
    <3>1. spent[a] + 0 <= Limit BY <1>4, <2>1
    <3> QED BY <2>3, <3>1
  <2> QED BY <2>2, <2>3
<1> HIDE DEF c, d
<1>6. calls'[a][i] = c
      /\ \A b \in Agents : \A j \in Index(b) : b # a \/ j # i => calls'[b][j] = calls[b][j]
  BY <1>1, OneSet
<1>7. \A b \in Agents : \A j \in Index(b) : b # a \/ j # i => Charge(b, j)' = Charge(b, j)
  BY <1>6 DEF Charge
<1>8. Charge(a, i)' = d /\ Charge(a, i) = 0
  BY <1>2, <1>6 DEF Charge
<1>9. \A b \in Agents : \A j \in Index(b) :
        Charge(b, j)' \in Nat /\ (b # a \/ j # i => Charge(b, j)' <= Charge(b, j))
  BY <1>3, <1>5, <1>7, <1>8
<1>10. i \in Index(a) => Charge(a, i)' <= Charge(a, i) + d BY <1>5, <1>8
<1> QED BY <1>1, <1>5, <1>9, <1>10, ChargesStay

LEMMA OneUncharged ==
  ASSUME ToolTypes, BudgetHolds, turn' = turn, spent' = spent, NEW a \in Agents,
         NEW i \in Index(a), NEW c, SetCall(a, i, c),
         \/ c.phase \notin {"telling", "done"}
         \/ c.size = calls[a][i].size /\ calls[a][i].phase = "telling"
  PROVE  BudgetHolds'
<1>1. calls'[a][i] = c
      /\ \A b \in Agents : \A j \in Index(b) : b # a \/ j # i => calls'[b][j] = calls[b][j]
  BY OneSet
<1>2. \A b \in Agents : \A j \in Index(b) :
        \/ calls'[b][j].phase \notin {"telling", "done"}
        \/ /\ calls'[b][j].size = calls[b][j].size
           /\ calls[b][j].phase \in {"telling", "done"}
  BY <1>1
<1> QED BY <1>2, NothingCharged

LEMMA CallsAsBefore ==
  ASSUME ToolTypes, BudgetHolds, turn' = turn, spent' = spent, calls' = calls
  PROVE  BudgetHolds'
<1>1. \A b \in Agents : \A j \in Index(b) :
        \/ calls'[b][j].phase \notin {"telling", "done"}
        \/ /\ calls'[b][j].size = calls[b][j].size
           /\ calls[b][j].phase \in {"telling", "done"}
  OBVIOUS
<1> QED BY <1>1, NothingCharged

LEMMA CallKeepsBudget ==
  ASSUME ToolTypes, BudgetHolds, NEW a \in Agents, NEW i \in Index(a),
         OfCall(a, i) \/ Decided(a, i) \/ Backstop(a, i)
  PROVE  BudgetHolds'
<1>0. calls[a][i] \in CallType BY CallHasType
<1> DEFINE was == calls[a][i]
           Moved(c) == SetCall(a, i, c) /\ c.phase \notin {"telling", "done"} /\ spent' = spent
<1>1. turn' = turn
  BY DEF OfCall, Enter, Ran, TimedOut, Collect, Retry, Told, TooLong, ShellReturns, Stopped, Decided,
         Backstop
<1>2. ASSUME NEW c, Moved(c) PROVE BudgetHolds' BY <1>1, <1>2, OneUncharged
<1>3. Run(a, i) => Moved([was EXCEPT !.phase = "running", !.runs = @ + 1])
  BY <1>0 DEF Run, CallType
<1>4. ASSUME NEW p \in {"asking", "ran", "resting", "stopping"}, NEW o
      PROVE  /\ SetCall(a, i, [was EXCEPT !.phase = p, !.outcome = o]) /\ spent' = spent =>
                  Moved([was EXCEPT !.phase = p, !.outcome = o])
             /\ SetCall(a, i, [was EXCEPT !.phase = p]) /\ spent' = spent =>
                  Moved([was EXCEPT !.phase = p])
  BY <1>0 DEF CallType
<1> HIDE DEF Moved
<1>5. CASE Enter(a, i)
  <2>1. CASE Tell(a, i, "invalid", 0) BY <1>1, <1>5, <2>1, TellCharges DEF Enter
  <2>2. CASE SetCall(a, i, [was EXCEPT !.phase = "asking"]) /\ spent' = spent BY <1>2, <1>4, <2>2
  <2>3. CASE Run(a, i) BY <1>2, <1>3, <2>3
  <2> QED BY <1>5, <2>1, <2>2, <2>3 DEF Enter
<1>6. CASE Decided(a, i)
  <2>1. CASE Tell(a, i, "denied", 0) BY <1>1, <1>6, <2>1, TellCharges DEF Decided
  <2>2. CASE Run(a, i) BY <1>2, <1>3, <2>2
  <2> QED BY <1>6, <2>1, <2>2 DEF Decided
<1>7. CASE Collect(a, i)
  <2>1. CASE Tell(a, i, was.outcome, was.runs) BY <1>1, <1>7, <2>1, TellCharges DEF Collect
  <2>2. CASE SetCall(a, i, [was EXCEPT !.phase = "resting"]) /\ spent' = spent BY <1>2, <1>4, <2>2
  <2> QED BY <1>7, <2>1, <2>2 DEF Collect
<1>8. CASE Retry(a, i) BY <1>2, <1>3, <1>8 DEF Retry
<1>9. CASE Told(a, i)
  <2>1. was.phase = "telling" /\ SetCall(a, i, [was EXCEPT !.phase = "done"]) /\ spent' = spent
    BY <1>9 DEF Told
  <2>2. [was EXCEPT !.phase = "done"].size = was.size BY <1>0 DEF CallType
  <2> QED BY <1>1, <2>1, <2>2, OneUncharged
<1>10. CASE TooLong(a, i) BY <1>1, <1>10, CallsAsBefore DEF TooLong
<1>11. CASE Ran(a, i) \/ TimedOut(a, i) \/ ShellReturns(a, i) \/ Stopped(a, i)
  <2>1. spent' = spent /\ \E o : SetCall(a, i, [was EXCEPT !.phase = "ran", !.outcome = o])
    BY <1>11 DEF Ran, TimedOut, ShellReturns, Stopped
  <2> QED BY <1>2, <1>4, <2>1
<1>12. CASE Backstop(a, i)
  <2>1. SetCall(a, i, [was EXCEPT !.phase = "stopping"]) /\ spent' = spent BY <1>12 DEF Backstop
  <2> QED BY <1>2, <1>4, <2>1
<1> QED BY <1>5, <1>6, <1>7, <1>8, <1>9, <1>10, <1>11, <1>12 DEF OfCall

LEMMA CutKeepsBudget ==
  ASSUME ToolTypes, BudgetHolds, NEW a \in Agents, NEW reason, Cut(a, reason)
  PROVE  BudgetHolds'
<1>1. turn' = turn /\ spent' = spent
      /\ calls' = [calls EXCEPT ![a] = [i \in Index(a) |->
           IF @[i].phase \in InCall THEN [@[i] EXCEPT !.phase = "cut"] ELSE @[i]]]
  BY DEF Cut
<1>2. ASSUME NEW b \in Agents, NEW j \in Index(b)
      PROVE  \/ calls'[b][j] = calls[b][j]
             \/ calls'[b][j].phase = "cut"
  <2>1. calls[b][j] \in CallType BY CallHasType
  <2>2. [calls[b][j] EXCEPT !.phase = "cut"].phase = "cut" BY <2>1 DEF CallType
  <2>3. calls'[b][j] = calls[b][j] \/ calls'[b][j] = [calls[b][j] EXCEPT !.phase = "cut"]
    BY <1>1 DEF ToolTypes
  <2> QED BY <2>2, <2>3
<1>3. \A b \in Agents : \A j \in Index(b) :
        \/ calls'[b][j].phase \notin {"telling", "done"}
        \/ /\ calls'[b][j].size = calls[b][j].size
           /\ calls[b][j].phase \in {"telling", "done"}
  BY <1>2
<1> QED BY <1>1, <1>3, NothingCharged

LEMMA BudgetStays ==
  ASSUME ToolTypes, BudgetHolds, [Next]_vars
  PROVE  BudgetHolds'
<1>1. ASSUME NEW a \in Agents, NEW i \in Index(a),
             OfCall(a, i) \/ Decided(a, i) \/ Backstop(a, i)
      PROVE  BudgetHolds'
  BY <1>1, CallKeepsBudget
<1>2. ASSUME NEW a \in Agents, Interrupt(a) \/ CancelStep(a) PROVE BudgetHolds'
  BY <1>2, CutKeepsBudget DEF Interrupt, CancelStep
<1>3. CASE UNCHANGED <<turn, spent, calls>> BY <1>3, CallsAsBefore
<1>4. CASE Machine
  <2>1. ASSUME NEW k \in Keys, Grace(k) \/ CleanUp(k) PROVE BudgetHolds'
    BY <1>3, <2>1 DEF Grace, CleanUp
  <2>2. ASSUME NEW a \in Agents, Dispatch(a) \/ Drain(a) \/ EndStep(a) PROVE BudgetHolds'
    BY <1>3, <2>2 DEF Dispatch, Drain, EndStep
  <2>3. ASSUME NEW a \in Agents, NEW i \in Index(a), Spawn(a, i) PROVE BudgetHolds'
    BY <1>3, <2>3 DEF Spawn
  <2> QED BY <1>1, <1>4, <2>1, <2>2, <2>3 DEF Machine
<1>5. CASE Others
  <2>1. ASSUME NEW k \in Keys, Exits(k) PROVE BudgetHolds' BY <1>3, <2>1 DEF Exits
  <2>2. ASSUME NEW a \in Agents, CancelBody(a) PROVE BudgetHolds' BY <1>3, <2>2 DEF CancelBody
  <2> QED BY <1>1, <1>2, <1>5, <2>1, <2>2 DEF Others
<1>6. CASE Idle \/ UNCHANGED vars BY <1>3, <1>6 DEF Idle, vars
<1> QED BY <1>4, <1>5, <1>6 DEF Next

LEMMA NothingIsSpent ==
  ASSUME Init, ToolTypes
  PROVE  BudgetHolds
<1>1. spent = [a \in Agents |-> 0] /\ calls = [a \in Agents |-> [i \in 1..Len(turn[a]) |-> NewCall]]
  BY DEF Init
<1>2. ASSUME NEW a \in Agents PROVE SumTo(Charges(a), Len(turn[a])) <= spent[a] /\ spent[a] <= Limit
  <2> DEFINE f == Charges(a)
             n == Len(turn[a])
  <2>1. n \in Nat /\ Index(a) = 1..n /\ \A i \in 1..n : f[i] = Charge(a, i) BY SizesAreNumbers
  <2>2. \A i \in 1..n : calls[a][i].phase = "waiting" BY <1>1 DEF NewCall
  <2>3. \A i \in 1..n : f[i] = 0 /\ f[i] \in Nat BY <2>1, <2>2 DEF Charge
  <2> HIDE DEF f, n
  <2>4. PICK u : Sums(f, n, u) BY <2>1, <2>3, SumsExist
  <2> DEFINE G == {i \in Nat : i <= n => u[i] = 0}
  <2>5. 0 \in G BY <2>4 DEF Sums
  <2>6. ASSUME NEW i \in Nat, i \in G PROVE i + 1 \in G
    <3> SUFFICES ASSUME i + 1 <= n PROVE u[i + 1] = 0 OBVIOUS
    <3>1. i + 1 \in 1..n /\ (i + 1) - 1 = i /\ u[i] = 0 BY <2>1, <2>6
    <3>2. u[i + 1] = u[(i + 1) - 1] + f[i + 1] BY <2>4, <3>1 DEF Sums
    <3> QED BY <2>3, <3>1, <3>2
  <2> HIDE DEF G
  <2>7. n \in G BY <2>1, <2>5, <2>6, Induction
  <2>8. SumTo(f, n) = 0 BY <2>1, <2>4, <2>7 DEF Sums, G
  <2>9. spent[a] = 0 /\ Limit \in Nat BY <1>1, ToolsAssumption
  <2> QED BY <2>8, <2>9 DEF f, n
<1> QED BY <1>1, <1>2 DEF BudgetHolds

\* What is kept was charged.
LEMMA KeptIsCharged ==
  ASSUME ToolTypes, ToldHold, BudgetHolds
  PROVE  WithinBudget
<1> SUFFICES ASSUME NEW a \in Agents PROVE SumTo(Returned(a), Len(turn[a])) <= Limit
  BY DEF WithinBudget
<1> DEFINE f == Charges(a)
           g == Returned(a)
           n == Len(turn[a])
           d == 0
<1>1. n \in Nat /\ Index(a) = 1..n /\ \A i \in 1..n : f[i] \in Nat /\ f[i] = Charge(a, i)
  BY SizesAreNumbers
<1>2. ASSUME NEW i \in 1..n PROVE g[i] \in Nat /\ g[i] <= f[i]
  <2>1. g[i] = IF i \in DOMAIN kept[a] THEN calls[a][i].size ELSE 0 BY <1>1 DEF Returned
  <2>2. CASE i \in DOMAIN kept[a]
    <3>1. calls[a][i].phase = "done"
      BY <2>2 DEF ToldHold, ToldOf
    <3>2. g[i] = f[i] BY <1>1, <2>1, <2>2, <3>1 DEF Charge
    <3> QED BY <1>1, <3>2
  <2>3. CASE i \notin DOMAIN kept[a] BY <1>1, <2>1, <2>3
  <2> QED BY <2>2, <2>3
<1>3. SumTo(f, n) <= spent[a] /\ spent[a] <= Limit /\ spent[a] \in Nat /\ Limit \in Nat
  BY ToolsAssumption DEF BudgetHolds
<1>4. d \in Nat /\ \A k : k \in 1..n => g[k] <= f[k] + d BY <1>1, <1>2
<1>6. d = 0 OBVIOUS
<1> HIDE DEF f, g, n, d
<1>5. SumTo(f, n) \in Nat /\ SumTo(g, n) \in Nat /\ SumTo(g, n) <= SumTo(f, n) + d
  BY <1>1, <1>2, <1>4, SumGrows
<1>7. SumTo(g, n) <= Limit BY ONLY <1>3, <1>5, <1>6
<1> QED BY <1>7 DEF g, n

-----------------------------------------------------------------------------
(* The theorems *)

\* Whatever order the calls of a turn come back in, are cut or are retried in: a call begins
\* when what it may not run with is over, what changes the world is done only when allowed,
\* once or as often as its own override of that rule declares, and no more run together than the semaphore lets in (dispatch(),
\* _call_limited(), _run_with_retries()).
THEOREM EffectsAreInTurn == Spec => []EffectsInTurn
<1>1. ToolTypes /\ EffectsInv => EffectsInTurn
  <2> SUFFICES ASSUME ToolTypes, EffectsInv PROVE EffectsInTurn
    OBVIOUS
  <2>1. OneAtATime
    <3> SUFFICES ASSUME NEW a \in Agents, NEW i \in Index(a), NEW j \in Index(a),
                        i < j, ~SameRun(a, i, j), calls[a][j].phase # "waiting"
                 PROVE  \/ calls[a][i].phase = "done" /\ tree[<<a, i>>].root # "alive"
                        \/ calls[a][i].phase = "cut"
      BY DEF OneAtATime
    <3>1. calls[a][i].phase \in {"done", "cut"}
      BY DEF EffectsInv, BehindOver
    <3>2. TreeHolds(tree[<<a, i>>], calls[a][i].phase, Tool(a, i))
      BY DEF EffectsInv, CallsHold
    <3> QED  BY <3>1, <3>2 DEF TreeHolds
  <2>2. EffectOnce
    <3> SUFFICES ASSUME NEW a \in Agents, NEW i \in Index(a)
                 PROVE  /\ Tool(a, i) \in {"edit", "shell"} => calls[a][i].runs <= 1
                        /\ calls[a][i].runs <= 1 + Retries
                        /\ calls[a][i].outcome \in {"denied", "invalid"} => calls[a][i].runs = 0
      BY DEF EffectOnce
    <3>1. CallHolds(calls[a][i], Tool(a, i)) /\ calls[a][i].runs \in Nat
      BY CallHasType DEF EffectsInv, CallsHold
    <3>2. /\ Allowed(Tool(a, i)) \in Nat /\ Allowed(Tool(a, i)) <= Retries /\ Retries \in Nat
          /\ Tool(a, i) \in {"edit", "shell"} => Allowed(Tool(a, i)) = 0
      BY AllowedIsBounded, ToolsAssumption
    <3> QED  BY <3>1, <3>2 DEF CallHolds
  <2> QED  BY <2>1, <2>2 DEF EffectsInTurn, EffectsInv
<1> QED  BY <1>1, EffectsInvHolds, PTL

\* An agent that has a dispatcher of its own declares no step finished while a command one
\* of its calls started is alive, unless the killing was cut short: the drain waits for the
\* cleanup of every call that was cut (_run_once(), drain_cleanups(), _tool_step()).  Of
\* the processes that command started, a killing leaves only one that ignores SIGTERM while
\* the command itself does not (_kill_tree_posix()).
THEOREM StepsEndClean == ASSUME ~Shared PROVE Spec => []StepEndsClean
<1>1. Init => CleanupsHold
  BY NothingHasBegun
<1>2. ToolTypes /\ EffectsInv /\ LateIsQuiet /\ CleanupsHold /\ [Next]_vars => CleanupsHold'
  BY CleanupsStay
<1>3. EffectsInv /\ LateIsQuiet /\ CleanupsHold => StepEndsClean
  <2> SUFFICES ASSUME EffectsInv, LateIsQuiet, CleanupsHold, NEW a \in Agents, at[a] = "over",
                      NEW i \in Index(a), tree[<<a, i>>].kill # "aborted"
               PROVE  /\ tree[<<a, i>>].root # "alive"
                      /\ LeafHolds(tree[<<a, i>>])
    BY DEF StepEndsClean, KilledWhole, LeafHolds
  <2>0. LeafHolds(tree[<<a, i>>])
    BY DEF EffectsInv, CallsHold, TreeHolds
  <2>1. calls[a][i].phase \notin InCall
    BY DEF LateIsQuiet
  <2>2. tree[<<a, i>>].root = "alive" => calls[a][i].phase = "cut"
    BY <2>1 DEF EffectsInv, CallsHold, TreeHolds, InCall
  <2> QED  BY <2>0, <2>2 DEF CleanupsHold
<1> QED  BY <1>1, <1>2, <1>3, EffectsInvHolds, PTL DEF Spec

\* When a step is over, whatever finished, failed, was refused or was cut, and in whatever
\* order: the transcript has a result for every call of the turn, in call order, and it is
\* the one the screen was told last (record(), finalize_turn(), _tool_step()).
THEOREM ScreenAndTranscriptAgree == Spec => []ScreenAgrees
<1>1. Init => ToldHold
  BY NothingIsTold
<1>2. ToolTypes /\ EffectsInv /\ LateIsQuiet /\ ToldHold /\ [Next]_vars => ToldHold'
  BY ToldStays
<1>3. ToldHold => ScreenAgrees
  <2> SUFFICES ASSUME ToldHold, NEW a \in Agents, at[a] = "over"
               PROVE  /\ Len(message[a]) = Len(turn[a])
                      /\ \A i \in Index(a) :
                           LET told == heard[<<a, i>>] IN
                           /\ told # <<>>
                           /\ told[Len(told)] = CASE message[a][i] = "ok" -> "completed"
                                                  [] message[a][i] = "cancelled" -> "cancelled"
                                                  [] OTHER -> "failed"
                           /\ calls[a][i].phase = "done" => Len(told) = 1
    BY DEF ScreenAgrees
  <2>1. ToldOf(a)
    BY DEF ToldHold
  <2>2. \A o : Shows(o) = CASE o = "ok" -> "completed"
                            [] o = "cancelled" -> "cancelled"
                            [] OTHER -> "failed"
    BY DEF Shows, Said
  <2> QED  BY <2>1, <2>2 DEF ToldOf
<1> QED  BY <1>1, <1>2, <1>3, EffectsInvHolds, PTL DEF Spec

\* The person and the transcript are told the same of every call of a step that is over,
\* and what the model is given of a turn fits its budget, in whatever order the calls come
\* back, are cut or are retried in (TurnBudget.charge(), _finish(), record()).
THEOREM ResultsAreWhole == Spec => []ResultsHold
<1>1. Init => ToolTypes /\ BudgetHolds
  BY NothingHasBegun, NothingIsSpent
<1>2. ToolTypes /\ BudgetHolds /\ [Next]_vars => BudgetHolds'
  BY BudgetStays
<1>3. ToolTypes /\ ToldHold /\ BudgetHolds /\ ScreenAgrees => ResultsHold
  BY KeptIsCharged DEF ResultsHold
<1>4. Init => ToldHold
  BY NothingIsTold
<1>5. ToolTypes /\ EffectsInv /\ LateIsQuiet /\ ToldHold /\ [Next]_vars => ToldHold'
  BY ToldStays
<1> QED  BY <1>1, <1>2, <1>3, <1>4, <1>5, EffectsInvHolds, ScreenAndTranscriptAgree, PTL DEF Spec
=============================================================================
