-------------------------- MODULE RunControlProofs --------------------------
(***************************************************************************)
(* Theorems about RunControl for every number of agents, turns and calls,  *)
(* every set of commands and every plan.                                   *)
(***************************************************************************)
EXTENDS RunControlProps, TLAPS

\* _settle_pause() leaves the run where it was or declares PAUSED, and the latter
\* only for a pause that is requested.
LEMMA SettledFacts ==
  ASSUME NEW r \in RunStates, NEW ph, NEW req \in BOOLEAN
  PROVE  /\ Settled(r, ph, req) \in RunStates
         /\ Settled(r, ph, req) = "paused" => r = "paused" \/ req
  BY DEF Settled, RunStates

LEMMA StatesFacts ==
  /\ TerminalStates \subseteq RunStates
  /\ {"created", "running", "pausing", "paused", "waiting_approval"} \subseteq RunStates
  BY DEF TerminalStates, RunStates

\* What the updates of turns rest on.
LEMMA TurnsFacts ==
  ASSUME TypeOK
  PROVE  /\ turns \in [Agents -> Nat] /\ \A b \in Agents : turns[b] <= MaxTurns[b]
         /\ \A b \in Agents : MaxTurns[b] \in Nat /\ 1 <= MaxTurns[b]
  <1>1. \A b \in Agents : MaxTurns[b] \in Nat \ {0}
    BY BoundsAssumption
  <1> QED BY <1>1 DEF TypeOK

\* phase() keeps the types, whatever agent it is about.
LEMMA MoveToType ==
  ASSUME TypeOK, NEW a \in Agents, NEW l \in Locs, NEW p \in AgentPhases \cup {"gone"},
         MoveTo(a, l, p)
  PROVE  /\ run' \in RunStates
         /\ phase' \in [Agents -> AgentPhases \cup {"gone"}]
         /\ loc' \in [Agents -> Locs]
  <1>1. phase' \in [Agents -> AgentPhases \cup {"gone"}] /\ loc' \in [Agents -> Locs]
    BY DEF TypeOK, MoveTo
  <1>2. run' = Settled(run, phase', requested) /\ run \in RunStates /\ requested \in BOOLEAN
    BY DEF TypeOK, MoveTo
  <1> QED BY <1>1, <1>2, SettledFacts

LEMMA LeaveType ==
  ASSUME TypeOK, NEW a \in Agents, Leave(a)
  PROVE  /\ run' \in RunStates
         /\ phase' \in [Agents -> AgentPhases \cup {"gone"}]
         /\ loc' \in [Agents -> Locs]
  <1>1. MoveTo(a, "exited", "gone") BY DEF Leave
  <1> QED BY <1>1, MoveToType DEF Locs

LEMMA NextTurnType ==
  ASSUME TypeOK, NEW a \in Agents, NextTurn(a)
  PROVE  /\ run' \in RunStates
         /\ phase' \in [Agents -> AgentPhases \cup {"gone"}]
         /\ loc' \in [Agents -> Locs]
         /\ turns' \in [Agents -> Nat]
         /\ \A b \in Agents : turns'[b] <= MaxTurns[b]
  <1>1. CASE turns[a] < MaxTurns[a]
    <2>1. MoveTo(a, "turn", "running") /\ turns' = [turns EXCEPT ![a] = @ + 1]
      BY <1>1 DEF NextTurn
    <2>2. turns' \in [Agents -> Nat] /\ \A b \in Agents : turns'[b] <= MaxTurns[b]
      BY <1>1, <2>1, TurnsFacts
    <2> QED BY <2>1, <2>2, MoveToType DEF Locs, AgentPhases
  <1>2. CASE ~(turns[a] < MaxTurns[a])
    BY <1>2, LeaveType DEF NextTurn, TypeOK
  <1> QED BY <1>1, <1>2

LEMMA PassSafePointType ==
  ASSUME TypeOK, NEW a \in Agents, PassSafePoint(a)
  PROVE  /\ run' \in RunStates
         /\ phase' \in [Agents -> AgentPhases \cup {"gone"}]
         /\ loc' \in [Agents -> Locs]
         /\ turns' \in [Agents -> Nat]
         /\ \A b \in Agents : turns'[b] <= MaxTurns[b]
  <1>1. CASE MoveTo(a, "model", "blocked_io") /\ UNCHANGED turns
    BY <1>1, MoveToType DEF Locs, AgentPhases, TypeOK
  <1>2. CASE MoveTo(a, "tools", "blocked_io") /\ UNCHANGED turns
    BY <1>2, MoveToType DEF Locs, AgentPhases, TypeOK
  <1>3. CASE Leave(a) /\ UNCHANGED turns
    BY <1>3, LeaveType DEF TypeOK
  <1>4. CASE NextTurn(a)
    BY <1>4, NextTurnType
  <1> QED BY <1>1, <1>2, <1>3, <1>4 DEF PassSafePoint

LEMMA AnswerType ==
  ASSUME TypeOK, NEW R \in SUBSET pending, NEW approved \in BOOLEAN, Answer(R, approved)
  PROVE  /\ run' \in RunStates
         /\ pending' \subseteq (0..MaxTurns[Main]) \X Calls
         /\ phase' \in [Agents -> AgentPhases \cup {"gone"}]
         /\ call' \in [Agents -> [Calls -> CallStates]]
  <1>1. run' \in RunStates
    BY StatesFacts DEF Answer, AfterApproval, TypeOK
  <1>2. pending' \subseteq (0..MaxTurns[Main]) \X Calls
    BY DEF Answer, TypeOK
  <1>3. phase' \in [Agents -> AgentPhases \cup {"gone"}]
    BY DEF Answer, TypeOK, AgentPhases
  <1>4. call' \in [Agents -> [Calls -> CallStates]]
    BY AgentsAssumption DEF Answer, TypeOK, CallStates
  <1> QED BY <1>1, <1>2, <1>3, <1>4

LEMMA CutStepsType ==
  ASSUME TypeOK, NEW A
  PROVE  CutSteps(A) \in [Agents -> {"no", "step", "agent"}]
  BY DEF CutSteps, TypeOK

LEMMA OpenGateType ==
  ASSUME TypeOK
  PROVE  /\ OpenGate \in [Agents -> {"no", "parking", "open"}]
         /\ OpenGate \in [Agents -> {"no", "parking", "waiting", "open"}]
  BY DEF OpenGate, TypeOK

LEMMA ForgetType ==
  ASSUME TypeOK, NEW a \in Agents, ForgetCalls(a)
  PROVE  /\ plan' \in [Agents -> [Calls -> Kinds]]
         /\ call' \in [Agents -> [Calls -> CallStates]]
         /\ child' \in [Agents -> [Calls -> Agents \cup {NoAgent}]]
  BY DEF ForgetCalls, NoCalls, TypeOK, Kinds, CallStates

-----------------------------------------------------------------------------
LEMMA InitType == Init => TypeOK
  <1> SUFFICES ASSUME Init PROVE TypeOK OBVIOUS
  <1>1. /\ phase \in [Agents -> AgentPhases \cup {"gone"}]
        /\ loc \in [Agents -> Locs]
        /\ gate \in [Agents -> {"no", "parking", "waiting", "open"}]
        /\ cut \in [Agents -> {"no", "step", "agent"}]
    BY DEF Init, Locs
  <1>2. turns \in [Agents -> Nat] /\ \A a \in Agents : turns[a] <= MaxTurns[a]
    BY BoundsAssumption DEF Init
  <1>3. /\ plan \in [Agents -> [Calls -> Kinds]]
        /\ call \in [Agents -> [Calls -> CallStates]]
        /\ child \in [Agents -> [Calls -> Agents \cup {NoAgent}]]
    BY DEF Init, NoCalls, Kinds, CallStates
  <1>4. /\ run \in RunStates
        /\ intr \in [on : BOOLEAN, previous : RunStates]
        /\ mode \in {"manual", "auto"}
    BY CommandsAssumption DEF Init, NoIntr, RunStates
  <1> QED BY <1>1, <1>2, <1>3, <1>4 DEF TypeOK, Init

LEMMA NextType == TypeOK /\ [Next]_vars => TypeOK'
  <1> SUFFICES ASSUME TypeOK, [Next]_vars PROVE TypeOK' OBVIOUS
  <1> USE AgentsAssumption
  <1>1. CASE UNCHANGED vars
    BY <1>1 DEF TypeOK, vars, runVars, agentVars
  <1>2. CASE BodyStart
    <2>1. turns' \in [Agents -> Nat] /\ \A b \in Agents : turns'[b] <= MaxTurns[b]
      BY <1>2, TurnsFacts DEF BodyStart
    <2> QED BY <1>2, <2>1 DEF BodyStart, TypeOK, Locs, AgentPhases
  <1>3. CASE BodyDone
    BY <1>3, StatesFacts DEF BodyDone, TypeOK, agentVars, TerminalStates
  <1>4. CASE InterruptApply
    <2>1. (IF run = "interrupting" THEN intr.previous ELSE run) \in RunStates
      BY DEF TypeOK
    <2>2. run' \in RunStates
      BY <1>4, <2>1, SettledFacts DEF InterruptApply, TypeOK
    <2>3. intr' \in [on : BOOLEAN, previous : RunStates]
      BY <1>4, StatesFacts DEF InterruptApply, NoIntr
    <2>4. PICK t \in Agents : cut' = CutSteps({t})
      BY <1>4 DEF InterruptApply
    <2>5. cut' \in [Agents -> {"no", "step", "agent"}]
      BY <2>4, CutStepsType
    <2> QED BY <1>4, <2>2, <2>3, <2>5 DEF InterruptApply, TypeOK
  <1>5. CASE Start
    BY <1>5, StatesFacts DEF Start, TypeOK, agentVars
  <1>6. ASSUME NEW hard \in BOOLEAN, Pause(hard) PROVE TypeOK'
    <2>1. (IF run \in {"running", "waiting_approval"} THEN "pausing" ELSE run) \in RunStates
      BY StatesFacts DEF TypeOK
    <2>2. run' \in RunStates
      BY <1>6, <2>1, SettledFacts DEF Pause
    <2> QED BY <1>6, <2>2, CutStepsType DEF Pause, TypeOK
  <1>7. CASE Resume
    <2>1. run' \in RunStates
      BY <1>7, StatesFacts DEF Resume, ResumeTarget, TypeOK
    <2> QED BY <1>7, <2>1, OpenGateType DEF Resume, TypeOK
  <1>8. CASE Cancel
    <2>1. cut' \in [Agents -> {"no", "step", "agent"}]
      BY <1>8 DEF Cancel, TypeOK
    <2>2. run' \in RunStates /\ task' \in {"none", "created", "running", "done"}
      BY <1>8, StatesFacts DEF Cancel, TypeOK, TerminalStates
    <2> QED BY <1>8, <2>1, <2>2, OpenGateType DEF Cancel, TypeOK
  <1>9. CASE InterruptBegin
    BY <1>9 DEF InterruptBegin, TypeOK, RunStates, agentVars
  <1>10. ASSUME NEW t \in Agents, InterruptQuietly(t) PROVE TypeOK'
    <2>1. run' \in RunStates
      BY <1>10, SettledFacts DEF InterruptQuietly, TypeOK
    <2> QED BY <1>10, <2>1, CutStepsType DEF InterruptQuietly, TypeOK
  <1>11. ASSUME NEW q \in pending, NEW approved \in BOOLEAN, Resolve(q, approved)
         PROVE TypeOK'
    <2>1. {q} \in SUBSET pending /\ Answer({q}, approved)
      BY <1>11 DEF Resolve
    <2> QED BY <1>11, <2>1, AnswerType, ZenonT(40) DEF Resolve, TypeOK
  <1>12. ASSUME NEW m \in {"manual", "auto"}, SetMode(m) PROVE TypeOK'
    <2>1. CASE m = "auto" /\ mode # m
      <3>1. pending \in SUBSET pending /\ Answer(pending, TRUE)
        BY <1>12, <2>1 DEF SetMode
      <3> QED BY <1>12, <3>1, AnswerType DEF SetMode, TypeOK
    <2>2. CASE ~(m = "auto" /\ mode # m)
      BY <1>12, <2>2, StatesFacts DEF SetMode, TypeOK, AfterApproval
    <2> QED BY <2>1, <2>2
  <1>13. ASSUME NEW a \in Agents, AgentStep(a) PROVE TypeOK'
    <2>1. CASE ChildStart(a)
      <3>1. turns' \in [Agents -> Nat] /\ \A b \in Agents : turns'[b] <= MaxTurns[b]
        BY <2>1, TurnsFacts DEF ChildStart
      <3> QED BY <2>1, <3>1 DEF ChildStart, TypeOK, runVars, Locs, AgentPhases
    <2>2. CASE SafePoint(a)
      <3>1. CASE requested
        <4>1. /\ phase' = [phase EXCEPT ![a] = "parked"]
              /\ gate' = [gate EXCEPT ![a] = "parking"]
              /\ UNCHANGED <<run, loc, turns>>
          BY <2>2, <3>1 DEF SafePoint
        <4> QED BY <2>2, <4>1 DEF SafePoint, TypeOK, AgentPhases
      <3>2. CASE ~requested
        BY <2>2, <3>2, PassSafePointType DEF SafePoint, TypeOK
      <3> QED BY <3>1, <3>2
    <2>3. CASE Wake(a)
      BY <2>3, PassSafePointType DEF Wake, TypeOK
    <2>16. CASE ParkOn(a)
      <3>1. CASE requested
        <4>1. run' = Settled(run, phase, requested) BY <2>16, <3>1 DEF ParkOn
        <4>2. run' \in RunStates BY <4>1, SettledFacts DEF TypeOK
        <4> QED BY <2>16, <3>1, <4>2 DEF ParkOn, TypeOK
      <3>2. CASE ~requested
        <4>1. PassSafePoint(a) /\ gate' = [gate EXCEPT ![a] = "no"]
          BY <2>16, <3>2 DEF ParkOn
        <4> QED BY <2>16, <4>1, PassSafePointType DEF ParkOn, TypeOK
      <3> QED BY <3>1, <3>2
    <2>4. CASE ModelDone(a)
      <3>1. MoveTo(a, "post", "running") BY <2>4 DEF ModelDone
      <3>2. PICK p \in Plans : plan' = [plan EXCEPT ![a] = p] BY <2>4 DEF ModelDone
      <3>3. plan' \in [Agents -> [Calls -> Kinds]] BY <3>2, PlansAssumption DEF TypeOK
      <3>4. /\ call' \in [Agents -> [Calls -> CallStates]]
            /\ child' \in [Agents -> [Calls -> Agents \cup {NoAgent}]]
            /\ cut' \in [Agents -> {"no", "step", "agent"}]
        BY <2>4 DEF ModelDone, TypeOK, CallStates
      <3> QED BY <2>4, <3>1, <3>3, <3>4, MoveToType DEF ModelDone, TypeOK, Locs, AgentPhases
    <2>5. CASE ModelFail(a)
      <3>1. Leave(a) /\ cut' = [cut EXCEPT ![a] = "no"] BY <2>5 DEF ModelFail
      <3>2. failed' \in BOOLEAN BY <2>5 DEF ModelFail, TypeOK
      <3>3. cut' \in [Agents -> {"no", "step", "agent"}] BY <3>1 DEF TypeOK
      <3>4. UNCHANGED <<task, intr, requested, seen, mode, pending, cancelling,
                        gate, turns, plan, call, child>>
        BY <2>5 DEF ModelFail
      <3>5. /\ run' \in RunStates
            /\ phase' \in [Agents -> AgentPhases \cup {"gone"}]
            /\ loc' \in [Agents -> Locs]
        BY <3>1, LeaveType
      <3> QED BY <3>2, <3>3, <3>4, <3>5 DEF TypeOK
    <2>6. CASE ModelCut(a)
      BY <2>6, NextTurnType DEF ModelCut, TypeOK
    <2>7. ASSUME NEW i \in Calls, RunCall(a, i) PROVE TypeOK'
      <3>1. call' \in [Agents -> [Calls -> CallStates]]
        <4>1. \E s \in CallStates : call' = [call EXCEPT ![a][i] = s]
          BY <2>7 DEF RunCall, SetCall, CallStates
        <4> QED BY <4>1 DEF TypeOK
      <3>2. UNCHANGED <<runVars, phase, loc, gate, cut, turns, plan, child>>
        BY <2>7 DEF RunCall
      <3> QED BY <3>1, <3>2 DEF TypeOK, runVars
    <2>8. ASSUME NEW i \in Calls, Delegate(a, i) PROVE TypeOK'
      <3>1. PICK c \in Agents \ {Main} :
               /\ child' = [child EXCEPT ![a][i] = c]
               /\ loc' = [loc EXCEPT ![c] = "spawned"]
               /\ phase' = [phase EXCEPT ![c] = "running", ![a] = "blocked_on_child"]
        BY <2>8 DEF Delegate
      <3>2. run' \in RunStates
        BY <2>8, SettledFacts DEF Delegate, TypeOK
      <3>3. phase' \in [Agents -> AgentPhases \cup {"gone"}] /\ loc' \in [Agents -> Locs]
        BY <3>1 DEF TypeOK, AgentPhases, Locs
      <3>4. child' \in [Agents -> [Calls -> Agents \cup {NoAgent}]]
        BY <2>8, <3>1 DEF TypeOK
      <3>5. call' \in [Agents -> [Calls -> CallStates]]
        BY <2>8 DEF Delegate, SetCall, TypeOK, CallStates
      <3> QED BY <2>8, <3>2, <3>3, <3>4, <3>5 DEF Delegate, TypeOK
    <2>9. ASSUME NEW i \in Calls, FinishCall(a, i) PROVE TypeOK'
      BY <2>9 DEF FinishCall, SetCall, TypeOK, runVars, CallStates
    <2>10. ASSUME NEW i \in Calls, CollectChild(a, i) PROVE TypeOK'
      <3>1. MoveTo(a, "tools", "running") BY <2>10 DEF CollectChild
      <3>2. call' \in [Agents -> [Calls -> CallStates]]
        BY <2>10 DEF CollectChild, SetCall, TypeOK, CallStates
      <3> QED BY <2>10, <3>1, <3>2, MoveToType DEF CollectChild, TypeOK, Locs, AgentPhases
    <2>11. ASSUME NEW i \in Calls, Ask(i) PROVE TypeOK'
      <3>1. run' \in RunStates
        <4>1. Settled(run, phase', requested) \in RunStates
          BY SettledFacts DEF TypeOK
        <4> QED BY <2>11, <4>1, StatesFacts DEF Ask
      <3>2. pending' \subseteq (0..MaxTurns[Main]) \X Calls
        BY <2>11, BoundsAssumption DEF Ask, TypeOK
      <3>3. call' \in [Agents -> [Calls -> CallStates]]
        BY <2>11 DEF Ask, SetCall, TypeOK, CallStates
      <3> QED BY <2>11, <3>1, <3>2, <3>3 DEF Ask, TypeOK, AgentPhases
    <2>12. ASSUME NEW i \in Calls, AskHandler(i) PROVE TypeOK'
      BY <2>12 DEF AskHandler, SetCall, TypeOK, runVars, CallStates
    <2>13. CASE FinishBatch(a)
      <3>1. MoveTo(a, "after", "running") /\ ForgetCalls(a) BY <2>13 DEF FinishBatch
      <3> QED BY <2>13, <3>1, MoveToType, ForgetType DEF FinishBatch, TypeOK, Locs, AgentPhases
    <2>14. CASE Propagate(a)
      <3>1. call' \in [Agents -> [Calls -> CallStates]]
        BY <2>14 DEF Propagate, TypeOK, CallStates
      <3>2. cut' \in [Agents -> {"no", "step", "agent"}]
        BY <2>14 DEF Propagate, TypeOK
      <3>3. pending' \subseteq (0..MaxTurns[Main]) \X Calls
        BY <2>14 DEF Propagate, TypeOK
      <3> QED BY <2>14, <3>1, <3>2, <3>3 DEF Propagate, TypeOK
    <2>15. CASE Unwind(a)
      <3>1. ForgetCalls(a) BY <2>15 DEF Unwind
      <3>2. CASE loc[a] = "spawned"
        BY <2>15, <3>1, <3>2, ForgetType DEF Unwind, TypeOK, Locs
      <3>3. CASE loc[a] # "spawned"
        BY <2>15, <3>1, <3>3, ForgetType, LeaveType DEF Unwind, TypeOK
      <3> QED BY <3>2, <3>3
    <2> QED
      BY <1>13, <2>1, <2>2, <2>3, <2>4, <2>5, <2>6, <2>7, <2>8, <2>9, <2>10, <2>11,
         <2>12, <2>13, <2>14, <2>15, <2>16
      DEF AgentStep, Turn, Model, Tools, Unwinding
  <1> QED
    BY <1>1, <1>2, <1>3, <1>4, <1>5, <1>6, <1>7, <1>8, <1>9, <1>10, <1>11, <1>12, <1>13
    DEF Next, Command, SoftPause, HardPause, Answering, Finished

\* Every behaviour of the run keeps its types: Settled, the interrupt's restored
\* state and resume()'s target never leave the enum of run states.
THEOREM TypeCorrect == Spec => []TypeOK
  <1>1. Init => TypeOK BY InitType
  <1>2. TypeOK /\ [Next]_vars => TypeOK' BY NextType
  <1> QED BY <1>1, <1>2, PTL DEF Spec

-----------------------------------------------------------------------------
(* Wakeups and PAUSED *)

\* What an interrupt restores is as justified as what it interrupted: without this
\* PausedOnRequest is not inductive, because interrupt() remembers a state.
RestoresOnRequest == intr.previous = "paused" => requested \/ cancelling

PauseInv == NoLostWakeup /\ PausedOnRequest /\ RestoresOnRequest

\* No step of an agent touches the pause request, and it declares PAUSED or puts
\* an agent to sleep at the gate only while a pause is requested.
LEMMA AgentStepPause ==
  ASSUME TypeOK, NEW a \in Agents, AgentStep(a)
  PROVE  /\ UNCHANGED <<intr, requested, cancelling>>
         /\ run' = "paused" => run = "paused" \/ requested
         /\ \A b \in Agents : gate'[b] = "waiting" => gate[b] = "waiting" \/ requested
  <1> DEFINE Goal == /\ UNCHANGED <<intr, requested, cancelling>>
                     /\ run' = "paused" => run = "paused" \/ requested
                     /\ \A b \in Agents :
                          gate'[b] = "waiting" => gate[b] = "waiting" \/ requested
  <1>a. run \in RunStates /\ requested \in BOOLEAN /\ gate \in [Agents -> {"no", "parking", "waiting", "open"}]
    BY DEF TypeOK
  <1>b. ASSUME NEW l, NEW p, MoveTo(a, l, p)
        PROVE  run' = "paused" => run = "paused" \/ requested
    BY <1>b, <1>a, SettledFacts DEF MoveTo
  <1>c. ASSUME Leave(a) PROVE run' = "paused" => run = "paused" \/ requested
    BY <1>b, <1>c DEF Leave
  <1>d. ASSUME NextTurn(a) PROVE run' = "paused" => run = "paused" \/ requested
    BY <1>b, <1>c, <1>d DEF NextTurn
  <1>e. ASSUME PassSafePoint(a) PROVE run' = "paused" => run = "paused" \/ requested
    BY <1>b, <1>c, <1>d, <1>e DEF PassSafePoint
  <1>1. CASE ChildStart(a)
    BY <1>1 DEF ChildStart, runVars
  <1>2. CASE SafePoint(a)
    <2>1. CASE requested
      BY <1>2, <2>1 DEF SafePoint
    <2>2. CASE ~requested
      BY <1>2, <2>2, <1>e DEF SafePoint
    <2> QED BY <2>1, <2>2
  <1>3. CASE Wake(a)
    BY <1>3, <1>e, <1>a DEF Wake
  <1>16. CASE ParkOn(a)
    <2>1. CASE requested
      BY <1>16, <2>1, <1>a DEF ParkOn
    <2>2. CASE ~requested
      BY <1>16, <2>2, <1>a, <1>e DEF ParkOn
    <2> QED BY <2>1, <2>2
  <1>4. CASE ModelDone(a)
    BY <1>4, <1>b DEF ModelDone
  <1>5. CASE ModelFail(a)
    BY <1>5, <1>c DEF ModelFail
  <1>6. CASE ModelCut(a)
    BY <1>6, <1>d DEF ModelCut
  <1>7. ASSUME NEW i \in Calls, RunCall(a, i) PROVE Goal
    BY <1>7 DEF RunCall, runVars
  <1>8. ASSUME NEW i \in Calls, Delegate(a, i) PROVE Goal
    <2>1. run' = Settled(run, phase', requested) /\ UNCHANGED <<intr, requested, cancelling, gate>>
      BY <1>8 DEF Delegate
    <2> QED BY <2>1, <1>a, SettledFacts
  <1>9. ASSUME NEW i \in Calls, FinishCall(a, i) PROVE Goal
    BY <1>9 DEF FinishCall, runVars
  <1>10. ASSUME NEW i \in Calls, CollectChild(a, i) PROVE Goal
    BY <1>10, <1>b DEF CollectChild
  <1>11. ASSUME NEW i \in Calls, Ask(i) PROVE Goal
    <2>1. Settled(run, phase', requested) = "paused" => run = "paused" \/ requested
      BY <1>a, SettledFacts
    <2>2. run' = "paused" => Settled(run, phase', requested) = "paused"
      BY <1>11 DEF Ask
    <2>3. UNCHANGED <<intr, requested, cancelling, gate>>
      BY <1>11 DEF Ask
    <2> QED BY <2>1, <2>2, <2>3
  <1>12. ASSUME NEW i \in Calls, AskHandler(i) PROVE Goal
    BY <1>12 DEF AskHandler, runVars
  <1>13. CASE FinishBatch(a)
    BY <1>13, <1>b DEF FinishBatch
  <1>14. CASE Propagate(a)
    BY <1>14 DEF Propagate
  <1>15. CASE Unwind(a)
    <2>1. UNCHANGED <<intr, requested, cancelling>> /\ gate' = [gate EXCEPT ![a] = "no"]
      BY <1>15 DEF Unwind
    <2>2. run' = run \/ Leave(a)
      BY <1>15 DEF Unwind
    <2> QED BY <2>1, <2>2, <1>a, <1>c
  <1> QED
    BY <1>1, <1>2, <1>3, <1>4, <1>5, <1>6, <1>7, <1>8, <1>9, <1>10, <1>11, <1>12,
       <1>13, <1>14, <1>15, <1>16
    DEF AgentStep, Turn, Model, Tools, Unwinding

LEMMA PauseStep == TypeOK /\ PauseInv /\ [Next]_vars => PauseInv'
  <1> SUFFICES ASSUME TypeOK, PauseInv, [Next]_vars PROVE PauseInv' OBVIOUS
  <1>a. run \in RunStates /\ requested \in BOOLEAN BY DEF TypeOK
  <1>b. ASSUME UNCHANGED <<intr, requested, cancelling, gate>>,
               run' = "paused" => run = "paused" \/ requested
        PROVE  PauseInv'
    BY <1>b DEF PauseInv, NoLostWakeup, PausedOnRequest, RestoresOnRequest
  <1>1. CASE UNCHANGED vars
    BY <1>1, <1>b DEF vars, runVars, agentVars
  <1>2. CASE BodyStart
    BY <1>2, <1>b DEF BodyStart
  <1>3. CASE BodyDone
    BY <1>3, <1>b DEF BodyDone, agentVars
  <1>4. CASE InterruptApply
    <2>1. (IF run = "interrupting" THEN intr.previous ELSE run) \in RunStates
      BY DEF TypeOK
    <2>2. run' = "paused" =>
            (IF run = "interrupting" THEN intr.previous ELSE run) = "paused" \/ requested
      BY <1>4, <2>1, <1>a, SettledFacts DEF InterruptApply
    <2>3. run' = "paused" => requested \/ cancelling
      BY <2>2 DEF PauseInv, PausedOnRequest, RestoresOnRequest
    <2>4. intr'.previous # "paused"
      BY <1>4 DEF InterruptApply, NoIntr
    <2>5. UNCHANGED <<requested, cancelling, gate>>
      BY <1>4 DEF InterruptApply
    <2> QED BY <2>3, <2>4, <2>5 DEF PauseInv, NoLostWakeup, PausedOnRequest, RestoresOnRequest
  <1>5. CASE Start
    BY <1>5, <1>b DEF Start, agentVars
  <1>6. ASSUME NEW hard \in BOOLEAN, Pause(hard) PROVE PauseInv'
    BY <1>6 DEF Pause, PauseInv, NoLostWakeup, PausedOnRequest, RestoresOnRequest
  <1>7. CASE Resume
    <2>1. run' # "paused"
      BY <1>7 DEF Resume, ResumeTarget
    <2>2. \A b \in Agents : gate'[b] # "waiting"
      BY <1>7, OpenGateType DEF Resume
    <2>3. intr' = NoIntr
      BY <1>7 DEF Resume, LockFree
    <2> QED BY <2>1, <2>2, <2>3 DEF PauseInv, NoLostWakeup, PausedOnRequest, RestoresOnRequest, NoIntr
  <1>8. CASE Cancel
    <2>1. \A b \in Agents : gate'[b] # "waiting"
      BY <1>8, OpenGateType DEF Cancel
    <2> QED BY <1>8, <2>1 DEF Cancel, PauseInv, NoLostWakeup, PausedOnRequest, RestoresOnRequest
  <1>9. CASE InterruptBegin
    BY <1>9 DEF InterruptBegin, agentVars, PauseInv, NoLostWakeup, PausedOnRequest, RestoresOnRequest
  <1>10. ASSUME NEW t \in Agents, InterruptQuietly(t) PROVE PauseInv'
    BY <1>10, <1>a, <1>b, SettledFacts DEF InterruptQuietly
  <1>11. ASSUME NEW q \in pending, NEW approved \in BOOLEAN, Resolve(q, approved)
         PROVE PauseInv'
    BY <1>11, <1>b DEF Resolve, Answer, AfterApproval
  <1>12. ASSUME NEW m \in {"manual", "auto"}, SetMode(m) PROVE PauseInv'
    BY <1>12, <1>b DEF SetMode, Answer, AfterApproval
  <1>13. ASSUME NEW a \in Agents, AgentStep(a) PROVE PauseInv'
    BY <1>13, AgentStepPause DEF PauseInv, NoLostWakeup, PausedOnRequest, RestoresOnRequest
  <1> QED
    BY <1>1, <1>2, <1>3, <1>4, <1>5, <1>6, <1>7, <1>8, <1>9, <1>10, <1>11, <1>12, <1>13
    DEF Next, Command, SoftPause, HardPause, Answering, Finished

LEMMA PauseInvHolds == Spec => []PauseInv
  <1>1. Init => PauseInv
    BY DEF Init, NoIntr, PauseInv, NoLostWakeup, PausedOnRequest, RestoresOnRequest
  <1>2. TypeOK /\ PauseInv /\ [Next]_vars => PauseInv' BY PauseStep
  <1> QED BY <1>1, <1>2, TypeCorrect, PTL DEF Spec

\* No agent ever sleeps behind an open gate, whatever the order of pauses,
\* resumes, interrupts and cancels (QuiescenceTracker.release, Controller._park).
THEOREM WakeupsAreNotLost == Spec => []NoLostWakeup
  <1>1. PauseInv => NoLostWakeup BY DEF PauseInv
  <1> QED BY <1>1, PauseInvHolds, PTL

\* The run is PAUSED only while a pause is in force (Controller._settle_pause,
\* Controller.interrupt, Controller.resume).
THEOREM PausedIsRequested == Spec => []PausedOnRequest
  <1>1. PauseInv => PausedOnRequest BY DEF PauseInv
  <1> QED BY <1>1, PauseInvHolds, PTL

\* Agents live only while the body's task does, and the run ends only with it.
TaskFrames ==
  /\ task \in {"none", "created"} => \A a \in Agents : loc[a] = "unborn"
  /\ task = "done" => \A a \in Agents : ~Live(a)
  /\ Terminal => task \in {"none", "done"} /\ pending = {}

\* What an interrupt found it may put back; the run does not end under its lock.
LockHolds ==
  ~LockFree => /\ run \in {"interrupting", "paused"}
               /\ intr.previous \in {"running", "paused", "waiting_approval"}

GateAtSafePoint == \A a \in Agents : gate[a] # "no" => loc[a] \in SafeLocs

\* A batch starts with nothing begun; a delegate call that runs is one of the batch the
\* agent is in, and has a child that was born; only a gated call waits for an answer.
BatchesKept ==
  \A a \in Agents, i \in Calls :
    /\ loc[a] = "post" => call[a][i] = "queued"
    /\ call[a][i] \in {"requesting", "asking"} => plan[a][i] = "gated"
    /\ plan[a][i] = "delegate" /\ call[a][i] = "running" =>
         loc[a] = "tools" /\ child[a][i] \in Agents \ {Main} /\ loc[child[a][i]] # "unborn"

\* No live agents wait for each other in a circle, nor down a chain without end: a set of
\* live agents each awaited from within the set is empty.
Rooted ==
  \A S \in SUBSET (Agents \ {Main}) :
    (\A c \in S : Live(c) /\ \E a \in S, i \in Calls : Awaits(a, i, c)) => S = {}

Tree == GateAtSafePoint /\ BatchesKept /\ NoOrphan /\ Rooted
TreeInv == TaskFrames /\ LockHolds /\ Tree

\* What one step of an agent does to the run: nothing, unless PAUSED is declared for a
\* request that everybody has answered, or its own approval begins.
RunMoves ==
  \/ run' = run
  \/ /\ run \in {"pausing", "waiting_approval", "interrupting"} /\ run' = "paused"
     /\ requested /\ Quiet(phase')
  \/ run = "running" /\ run' = "waiting_approval"

LEMMA SettledMoves ==
  ASSUME NEW r \in RunStates, NEW ph, NEW req \in BOOLEAN
  PROVE  \/ Settled(r, ph, req) = r
         \/ /\ r \in {"pausing", "waiting_approval", "interrupting"} /\ req /\ Quiet(ph)
            /\ Settled(r, ph, req) = "paused"
  BY DEF Settled

LEMMA AgentRun ==
  ASSUME TypeOK, Tree, NEW a \in Agents, AgentStep(a)
  PROVE  Live(a) /\ UNCHANGED <<task, intr, requested, cancelling>> /\ RunMoves
  <1> DEFINE Goal == Live(a) /\ UNCHANGED <<task, intr, requested, cancelling>> /\ RunMoves
  <1>a. run \in RunStates /\ requested \in BOOLEAN BY DEF TypeOK
  <1>b. ASSUME NEW l, NEW p, MoveTo(a, l, p) PROVE RunMoves
    BY <1>a, <1>b, SettledMoves DEF MoveTo, RunMoves
  <1>c. ASSUME Leave(a) PROVE RunMoves BY <1>b, <1>c DEF Leave
  <1>d. ASSUME NextTurn(a) PROVE RunMoves BY <1>b, <1>c, <1>d DEF NextTurn
  <1>e. ASSUME PassSafePoint(a) PROVE RunMoves BY <1>b, <1>c, <1>d, <1>e DEF PassSafePoint
  <1>1. CASE ChildStart(a) BY <1>1 DEF ChildStart, runVars, Live, RunMoves
  <1>2. CASE SafePoint(a)
    <2>1. RunMoves BY <1>2, <1>e DEF SafePoint, RunMoves
    <2> QED BY <1>2, <2>1 DEF SafePoint, Live, SafeLocs
  <1>16. CASE ParkOn(a)
    <2>1. Live(a) BY <1>16 DEF ParkOn, Tree, GateAtSafePoint, SafeLocs, Live
    <2>2. CASE requested
      <3>1. run' = Settled(run, phase', requested) BY <1>16, <2>2 DEF ParkOn
      <3> QED BY <1>16, <1>a, <2>1, <3>1, SettledMoves DEF ParkOn, RunMoves
    <2>3. CASE ~requested BY <1>16, <1>e, <2>1, <2>3 DEF ParkOn
    <2> QED BY <2>2, <2>3
  <1>3. CASE Wake(a)
    <2>1. Live(a) BY <1>3 DEF Wake, PassSafePoint, Live
    <2> QED BY <1>3, <1>e, <2>1 DEF Wake
  <1>4. CASE ModelDone(a) BY <1>4, <1>b DEF ModelDone, Live
  <1>5. CASE ModelFail(a) BY <1>5, <1>c DEF ModelFail, Live
  <1>6. CASE ModelCut(a) BY <1>6, <1>d DEF ModelCut, Live
  <1>7. ASSUME NEW i \in Calls, RunCall(a, i) PROVE Goal
    BY <1>7 DEF RunCall, StartCall, runVars, Live, RunMoves
  <1>8. ASSUME NEW i \in Calls, Delegate(a, i) PROVE Goal
    <2>1. run' = Settled(run, phase', requested) /\ UNCHANGED <<task, intr, requested, cancelling>>
      BY <1>8 DEF Delegate
    <2>2. Live(a) BY <1>8 DEF Delegate, StartCall, Live
    <2> QED BY <2>1, <2>2, <1>a, SettledMoves DEF RunMoves
  <1>9. ASSUME NEW i \in Calls, FinishCall(a, i) PROVE Goal
    BY <1>9 DEF FinishCall, runVars, Live, RunMoves
  <1>10. ASSUME NEW i \in Calls, CollectChild(a, i) PROVE Goal
    BY <1>10, <1>b DEF CollectChild, Live
  <1>11. ASSUME NEW i \in Calls, a = Main, Ask(i) PROVE Goal
    <2>1. Live(a) /\ UNCHANGED <<task, intr, requested, cancelling>>
      BY <1>11 DEF Ask, StartCall, Live
    <2>2. run' = IF Settled(run, phase', requested) = "running" THEN "waiting_approval"
                 ELSE Settled(run, phase', requested)
      BY <1>11 DEF Ask
    <2> QED BY <2>1, <2>2, <1>a, SettledMoves DEF RunMoves
  <1>12. ASSUME NEW i \in Calls, a = Main, AskHandler(i) PROVE Goal
    BY <1>12 DEF AskHandler, runVars, Live, RunMoves
  <1>13. CASE FinishBatch(a) BY <1>13, <1>b DEF FinishBatch, Live
  <1>14. CASE Propagate(a) BY <1>14 DEF Propagate, Live, RunMoves
  <1>15. CASE Unwind(a)
    <2>1. Live(a) /\ UNCHANGED <<task, intr, requested, cancelling>>
      BY <1>15 DEF Unwind, Live
    <2>2. run' = run \/ Leave(a) BY <1>15 DEF Unwind
    <2> QED BY <2>1, <2>2, <1>c DEF RunMoves
  <1> QED
    BY <1>1, <1>2, <1>3, <1>4, <1>5, <1>6, <1>7, <1>8, <1>9, <1>10, <1>11, <1>12,
       <1>13, <1>14, <1>15, <1>16
    DEF AgentStep, Turn, Model, Tools, Unwinding

-----------------------------------------------------------------------------
(* The tree of agents *)

\* Live agents stay awaited by the same calls, or are not live any more.
LEMMA Kept ==
  ASSUME NoOrphan, Rooted,
         \A c \in Agents \ {Main} : Live(c)' =>
            Live(c) /\ \A a \in Agents, i \in Calls : Awaits(a, i, c)' <=> Awaits(a, i, c)
  PROVE  NoOrphan' /\ Rooted'
  <1>1. NoOrphan' BY DEF NoOrphan
  <1>2. ASSUME NEW S \in SUBSET (Agents \ {Main}),
               \A c \in S : Live(c)' /\ \E a \in S, i \in Calls : Awaits(a, i, c)'
        PROVE  S = {}
    <2>1. \A c \in S : Live(c) /\ \E a \in S, i \in Calls : Awaits(a, i, c)
      BY <1>2
    <2> QED BY <2>1 DEF Rooted
  <1> QED BY <1>1, <1>2 DEF Rooted

\* A step that moves no agent and starts or ends no delegate call.
LEMMA SameTree ==
  ASSUME NoOrphan, Rooted, UNCHANGED <<loc, plan, child>>,
         \A a \in Agents, i \in Calls : plan[a][i] = "delegate" =>
            (call'[a][i] = "running" <=> call[a][i] = "running")
  PROVE  NoOrphan' /\ Rooted'
  <1>1. \A c \in Agents : Live(c)' <=> Live(c) BY DEF Live
  <1>2. \A c \in Agents, a \in Agents, i \in Calls : Awaits(a, i, c)' <=> Awaits(a, i, c)
    BY DEF Awaits
  <1> QED BY <1>1, <1>2, Kept

\* A step of an agent that waits for no child, before or after.
LEMMA MovedTree ==
  ASSUME TypeOK, NoOrphan, Rooted, NEW a \in Agents,
         Live(a) \/ a = Main,
         \A b \in Agents : b # a =>
            loc'[b] = loc[b] /\ plan'[b] = plan[b] /\ call'[b] = call[b] /\ child'[b] = child[b],
         \A i \in Calls : ~(loc[a] = "tools" /\ plan[a][i] = "delegate" /\ call[a][i] = "running"),
         \A i \in Calls : ~(loc'[a] = "tools" /\ plan'[a][i] = "delegate" /\ call'[a][i] = "running")
  PROVE  NoOrphan' /\ Rooted'
  <1>1. \A c \in Agents \ {Main} : Live(c)' => Live(c) BY DEF Live
  <1>2. \A b \in Agents, i \in Calls, c \in Agents : Awaits(b, i, c)' <=> Awaits(b, i, c)
    BY DEF Awaits
  <1> QED BY <1>1, <1>2, Kept

\* The agent goes to another place of its loop, with its batch as it was.
LEMMA MovedOn ==
  ASSUME TypeOK, Tree, NEW a \in Agents, NEW l \in Locs, Live(a),
         loc' = [loc EXCEPT ![a] = l], UNCHANGED <<plan, call, child>>,
         \A b \in Agents : b # a => gate'[b] = gate[b],
         gate'[a] # "no" => l \in SafeLocs, l \notin {"unborn", "post"},
         loc[a] = "tools" => AllDone(a), l = "tools" => loc[a] = "post"
  PROVE  Tree'
  <1>1. loc \in [Agents -> Locs] BY DEF TypeOK
  <1>2. \A i \in Calls : ~(loc[a] = "tools" /\ plan[a][i] = "delegate" /\ call[a][i] = "running")
    BY DEF AllDone, CallsOf
  <1>3. \A i \in Calls : ~(plan[a][i] = "delegate" /\ call[a][i] = "running")
    BY <1>2 DEF Tree, BatchesKept
  <1>4. NoOrphan' /\ Rooted'
    <2>1. \A b \in Agents : b # a =>
            loc'[b] = loc[b] /\ plan'[b] = plan[b] /\ call'[b] = call[b] /\ child'[b] = child[b]
      BY <1>1
    <2>2. \A i \in Calls : ~(loc'[a] = "tools" /\ plan'[a][i] = "delegate" /\ call'[a][i] = "running")
      BY <1>3
    <2> QED BY <1>2, <2>1, <2>2, MovedTree DEF Tree
  <1>5. GateAtSafePoint' BY <1>1 DEF Tree, GateAtSafePoint
  <1>6. BatchesKept'
    <2> SUFFICES ASSUME NEW b \in Agents, NEW i \in Calls
                 PROVE  /\ loc'[b] = "post" => call[b][i] = "queued"
                        /\ call[b][i] \in {"requesting", "asking"} => plan[b][i] = "gated"
                        /\ plan[b][i] = "delegate" /\ call[b][i] = "running" =>
                             loc'[b] = "tools" /\ child[b][i] \in Agents \ {Main}
                             /\ loc'[child[b][i]] # "unborn"
      BY DEF BatchesKept
    <2>1. loc'[b] = "post" => loc[b] = "post" BY <1>1
    <2>2. plan[b][i] = "delegate" /\ call[b][i] = "running" => b # a BY <1>3
    <2> QED BY <1>1, <2>1, <2>2 DEF Tree, BatchesKept
  <1> QED BY <1>4, <1>5, <1>6 DEF Tree

\* The agent is done with its batch, if it had one, and forgets its calls.
LEMMA Forgotten ==
  ASSUME TypeOK, Tree, NEW a \in Agents, NEW l \in {"after", "exited"}, Live(a),
         loc' = [loc EXCEPT ![a] = l], ForgetCalls(a),
         \A b \in Agents : b # a => gate'[b] = gate[b],
         gate'[a] = "no", loc[a] = "tools" => AllDone(a)
  PROVE  Tree'
  <1>1. loc \in [Agents -> Locs] BY DEF TypeOK
  <1>2. \A i \in Calls : ~(loc[a] = "tools" /\ plan[a][i] = "delegate" /\ call[a][i] = "running")
    BY DEF AllDone, CallsOf
  <1>3. /\ loc'[a] = l
        /\ \A i \in Calls : plan'[a][i] = "none" /\ call'[a][i] = "done"
    BY <1>1 DEF ForgetCalls, NoCalls, TypeOK
  <1>4. \A b \in Agents : b # a =>
            loc'[b] = loc[b] /\ plan'[b] = plan[b] /\ call'[b] = call[b] /\ child'[b] = child[b]
    BY <1>1 DEF ForgetCalls, TypeOK
  <1>5. NoOrphan' /\ Rooted' BY <1>2, <1>3, <1>4, MovedTree DEF Tree
  <1>6. GateAtSafePoint' BY <1>4 DEF Tree, GateAtSafePoint
  <1>7. \A x \in Agents : loc'[x] = "unborn" => loc[x] = "unborn" BY <1>3, <1>4
  <1>8. ASSUME NEW b \in Agents, NEW i \in Calls
        PROVE  /\ loc'[b] = "post" => call'[b][i] = "queued"
               /\ call'[b][i] \in {"requesting", "asking"} => plan'[b][i] = "gated"
               /\ plan'[b][i] = "delegate" /\ call'[b][i] = "running" =>
                    loc'[b] = "tools" /\ child'[b][i] \in Agents \ {Main}
                    /\ loc'[child'[b][i]] # "unborn"
    <2>1. CASE b = a BY <1>3, <2>1
    <2>2. CASE b # a BY <1>4, <1>7, <2>2 DEF Tree, BatchesKept
    <2> QED BY <2>1, <2>2
  <1> QED BY <1>5, <1>6, <1>8 DEF Tree, BatchesKept

\* A step within batches: agents stay where they are.
LEMMA SameBatches ==
  ASSUME Tree, UNCHANGED <<loc, plan, child>>,
         \A a \in Agents : gate'[a] = gate[a] \/ gate'[a] = "no" \/ gate[a] # "no",
         \A a \in Agents, i \in Calls :
            /\ plan[a][i] = "delegate" => (call'[a][i] = "running" <=> call[a][i] = "running")
            /\ call'[a][i] \in {"requesting", "asking"} => plan[a][i] = "gated"
            /\ loc[a] = "post" => call'[a][i] = call[a][i]
  PROVE  Tree'
  <1>1. NoOrphan' /\ Rooted' BY SameTree DEF Tree
  <1>2. GateAtSafePoint' BY DEF Tree, GateAtSafePoint
  <1>3. BatchesKept' BY DEF Tree, BatchesKept
  <1> QED BY <1>1, <1>2, <1>3 DEF Tree

LEMMA PassSafePointTree ==
  ASSUME TypeOK, Tree, NEW a \in Agents, Live(a), PassSafePoint(a),
         gate'[a] = "no", \A b \in Agents : b # a => gate'[b] = gate[b],
         UNCHANGED <<plan, call, child>>
  PROVE  Tree'
  <1> USE DEF Locs, SafeLocs
  <1>1. CASE loc[a] = "turn" /\ MoveTo(a, "model", "blocked_io")
    <2>1. loc' = [loc EXCEPT ![a] = "model"] BY <1>1 DEF MoveTo
    <2> QED BY <1>1, <2>1, MovedOn
  <1>2. CASE loc[a] = "post" /\ MoveTo(a, "tools", "blocked_io")
    <2>1. loc' = [loc EXCEPT ![a] = "tools"] BY <1>2 DEF MoveTo
    <2> QED BY <1>2, <2>1, MovedOn
  <1>3. CASE loc[a] \in {"post", "after"} /\ Leave(a)
    <2>1. loc' = [loc EXCEPT ![a] = "exited"] BY <1>3 DEF MoveTo, Leave
    <2> QED BY <1>3, <2>1, MovedOn
  <1>4. CASE loc[a] \in {"post", "after"} /\ MoveTo(a, "turn", "running")
    <2>1. loc' = [loc EXCEPT ![a] = "turn"] BY <1>4 DEF MoveTo
    <2> QED BY <1>4, <2>1, MovedOn
  <1> QED BY <1>1, <1>2, <1>3, <1>4 DEF PassSafePoint, NextTurn

LEMMA DelegateTree ==
  ASSUME TypeOK, Tree, NEW a \in Agents, NEW i \in Calls, Delegate(a, i)
  PROVE  Tree'
  <1>1. PICK c \in Agents \ {Main} :
          /\ loc[c] = "unborn"
          /\ child' = [child EXCEPT ![a][i] = c]
          /\ loc' = [loc EXCEPT ![c] = "spawned"]
    BY DEF Delegate
  <1>2. /\ loc[a] = "tools" /\ plan[a][i] = "delegate" /\ call[a][i] = "queued"
        /\ call' = [call EXCEPT ![a][i] = "running"] /\ UNCHANGED <<gate, plan>>
    BY DEF Delegate, StartCall, SetCall
  <1>3. /\ loc \in [Agents -> Locs] /\ call \in [Agents -> [Calls -> CallStates]]
        /\ child \in [Agents -> [Calls -> Agents \cup {NoAgent}]]
    BY DEF TypeOK
  <1>4. GateAtSafePoint' BY <1>1, <1>2, <1>3 DEF Tree, GateAtSafePoint, SafeLocs
  <1>5. ASSUME NEW b \in Agents, NEW j \in Calls, b # a \/ j # i
        PROVE  call'[b][j] = call[b][j] /\ child'[b][j] = child[b][j]
    BY <1>1, <1>2, <1>3, <1>5
  <1>6. call'[a][i] = "running" /\ child'[a][i] = c BY <1>1, <1>2, <1>3
  <1>7. BatchesKept'
    <2> SUFFICES ASSUME NEW b \in Agents, NEW j \in Calls
                 PROVE  /\ loc'[b] = "post" => call'[b][j] = "queued"
                        /\ call'[b][j] \in {"requesting", "asking"} => plan[b][j] = "gated"
                        /\ plan[b][j] = "delegate" /\ call'[b][j] = "running" =>
                             loc'[b] = "tools" /\ child'[b][j] \in Agents \ {Main}
                             /\ loc'[child'[b][j]] # "unborn"
      BY <1>2 DEF BatchesKept
    <2>1. CASE b = a /\ j = i BY <1>1, <1>2, <1>3, <1>6, <2>1
    <2>2. CASE b # a \/ j # i BY <1>1, <1>2, <1>3, <1>5, <2>2 DEF Tree, BatchesKept
    <2> QED BY <2>1, <2>2
  \* Nobody waited for c before, and c waits for nobody.
  <1>8. \A b \in Agents, j \in Calls : ~Awaits(b, j, c)
    BY <1>1 DEF Tree, BatchesKept, Awaits
  <1>9. \A b \in Agents, j \in Calls, x \in Agents :
          Awaits(b, j, x)' <=> (Awaits(b, j, x) \/ (b = a /\ j = i /\ x = c))
    <2> SUFFICES ASSUME NEW b \in Agents, NEW j \in Calls, NEW x \in Agents
                 PROVE  Awaits(b, j, x)' <=> (Awaits(b, j, x) \/ (b = a /\ j = i /\ x = c))
      OBVIOUS
    <2>1. loc'[b] = "tools" <=> loc[b] = "tools" BY <1>1, <1>3
    <2>2. CASE b = a /\ j = i BY <1>2, <1>6, <2>1, <2>2 DEF Awaits
    <2>3. CASE b # a \/ j # i BY <1>2, <1>5, <2>1, <2>3 DEF Awaits
    <2> QED BY <2>2, <2>3
  <1>10. \A x \in Agents : Live(x)' <=> Live(x) \/ x = c
    BY <1>1, <1>3 DEF Live
  <1>11. NoOrphan'
    <2> SUFFICES ASSUME NEW x \in Agents \ {Main}, Live(x)'
                 PROVE  /\ \E b \in Agents, j \in Calls : Awaits(b, j, x)'
                        /\ \A b1, b2 \in Agents, j1, j2 \in Calls :
                             Awaits(b1, j1, x)' /\ Awaits(b2, j2, x)' => b1 = b2 /\ j1 = j2
      BY DEF NoOrphan
    <2>1. CASE x = c BY <1>8, <1>9, <2>1
    <2>2. CASE x # c
      <3>1. Live(x) BY <1>10, <2>2
      <3> QED BY <1>9, <2>2, <3>1 DEF Tree, NoOrphan
    <2> QED BY <2>1, <2>2
  <1>12. Rooted'
    <2> SUFFICES ASSUME NEW S \in SUBSET (Agents \ {Main}),
                        \A x \in S : Live(x)' /\ \E b \in S, j \in Calls : Awaits(b, j, x)'
                 PROVE  S = {}
      BY DEF Rooted
    <2>1. \A j \in Calls, x \in Agents : ~Awaits(c, j, x)'
      BY <1>1, <1>3 DEF Awaits
    <2>2. \A x \in S \ {c} : Live(x) /\ \E b \in S \ {c}, j \in Calls : Awaits(b, j, x)
      BY <1>9, <1>10, <2>1
    <2>3. S \ {c} = {} BY <2>2 DEF Tree, Rooted
    <2> QED BY <2>1, <2>3
  <1> QED BY <1>4, <1>7, <1>11, <1>12 DEF Tree

\* The parent's call is over when its child is: nobody live is left without a parent.
LEMMA CollectTree ==
  ASSUME TypeOK, Tree, NEW a \in Agents, NEW i \in Calls, CollectChild(a, i)
  PROVE  Tree'
  <1>1. /\ loc \in [Agents -> Locs] /\ call \in [Agents -> [Calls -> CallStates]]
        /\ loc[a] = "tools" /\ loc[child[a][i]] = "exited"
        /\ call' = [call EXCEPT ![a][i] = "done"] /\ UNCHANGED <<gate, plan, child>>
    BY DEF CollectChild, TypeOK, SetCall
  <1>2. UNCHANGED loc BY <1>1 DEF CollectChild, MoveTo
  <1>3. \A b \in Agents, j \in Calls :
          call'[b][j] = IF b = a /\ j = i THEN "done" ELSE call[b][j]
    BY <1>1
  <1>4. GateAtSafePoint' BY <1>1, <1>2 DEF Tree, GateAtSafePoint
  <1>5. BatchesKept' BY <1>1, <1>2, <1>3 DEF Tree, BatchesKept
  <1>6. \A c \in Agents : Live(c)' <=> Live(c) BY <1>2 DEF Live
  <1>7. ASSUME NEW c \in Agents, Live(c)
        PROVE  \A b \in Agents, j \in Calls : Awaits(b, j, c)' <=> Awaits(b, j, c)
    BY <1>1, <1>2, <1>3, <1>7 DEF Awaits, Live
  <1>8. NoOrphan' /\ Rooted' BY <1>6, <1>7, Kept DEF Tree
  <1> QED BY <1>4, <1>5, <1>8 DEF Tree

LEMMA AgentTree ==
  ASSUME TypeOK, Tree, NEW a \in Agents, AgentStep(a)
  PROVE  Tree'
  <1> USE DEF Locs, SafeLocs
  <1>a. Live(a) BY AgentRun
  <1>b. /\ loc \in [Agents -> Locs] /\ call \in [Agents -> [Calls -> CallStates]]
        /\ gate \in [Agents -> {"no", "parking", "waiting", "open"}]
    BY DEF TypeOK
  <1>c. ASSUME NEW i \in Calls, NEW s \in CallStates, SetCall(a, i, s),
               UNCHANGED <<loc, plan, child, gate>>, loc[a] = "tools",
               plan[a][i] = "delegate" => call[a][i] # "running" /\ s # "running",
               s \in {"requesting", "asking"} => plan[a][i] = "gated"
        PROVE  Tree'
    <2>1. \A b \in Agents, j \in Calls :
            call'[b][j] = IF b = a /\ j = i THEN s ELSE call[b][j]
      BY <1>c, <1>b DEF SetCall
    <2> QED BY <1>c, <2>1, SameBatches DEF Tree, BatchesKept
  <1>1. CASE ChildStart(a)
    <2>1. loc' = [loc EXCEPT ![a] = "turn"] /\ UNCHANGED <<gate, plan, call, child>> /\ loc[a] = "spawned"
      BY <1>1 DEF ChildStart
    <2> QED BY <1>a, <2>1, MovedOn
  <1>2. CASE SafePoint(a)
    <2>1. loc[a] \in SafeLocs /\ gate[a] = "no" /\ UNCHANGED <<plan, call, child>>
      BY <1>2 DEF SafePoint
    <2>2. CASE requested
      <3>1. UNCHANGED loc /\ gate' = [gate EXCEPT ![a] = "parking"]
        BY <1>2, <2>2 DEF SafePoint
      <3>2. UNCHANGED loc BY <3>1
      <3>3. GateAtSafePoint' BY <2>1, <3>1, <3>2, <1>b DEF Tree, GateAtSafePoint
      <3>4. BatchesKept' BY <2>1, <3>2 DEF Tree, BatchesKept
      <3>5. NoOrphan' /\ Rooted' BY <2>1, <3>2, SameTree DEF Tree
      <3> QED BY <3>3, <3>4, <3>5 DEF Tree
    <2>3. CASE ~requested
      <3>1. PassSafePoint(a) /\ gate' = gate BY <1>2, <2>3 DEF SafePoint
      <3> QED BY <1>a, <2>1, <3>1, PassSafePointTree
    <2> QED BY <2>2, <2>3
  <1>16. CASE ParkOn(a)
    <2>1. UNCHANGED <<plan, call, child>> BY <1>16 DEF ParkOn
    <2>2. CASE requested
      <3>1. UNCHANGED loc /\ gate[a] = "parking" /\ gate' = [gate EXCEPT ![a] = "waiting"]
        BY <1>16, <2>2 DEF ParkOn
      <3>2. GateAtSafePoint' BY <3>1, <1>b DEF Tree, GateAtSafePoint
      <3>3. BatchesKept' BY <2>1, <3>1 DEF Tree, BatchesKept
      <3>4. NoOrphan' /\ Rooted' BY <2>1, <3>1, SameTree DEF Tree
      <3> QED BY <3>2, <3>3, <3>4 DEF Tree
    <2>3. CASE ~requested
      <3>1. PassSafePoint(a) /\ gate' = [gate EXCEPT ![a] = "no"]
        BY <1>16, <2>3 DEF ParkOn
      <3> QED BY <1>a, <1>b, <2>1, <3>1, PassSafePointTree
    <2> QED BY <2>2, <2>3
  <1>3. CASE Wake(a)
    <2>1. /\ PassSafePoint(a) /\ UNCHANGED <<plan, call, child>>
          /\ gate' = [gate EXCEPT ![a] = "no"]
      BY <1>3 DEF Wake
    <2> QED BY <1>a, <1>b, <2>1, PassSafePointTree
  <1>4. CASE ModelDone(a)
    <2>1. /\ loc[a] = "model" /\ loc' = [loc EXCEPT ![a] = "post"] /\ UNCHANGED gate
          /\ call' = [call EXCEPT ![a] = [i \in Calls |-> "queued"]]
          /\ child' = [child EXCEPT ![a] = [i \in Calls |-> NoAgent]]
          /\ \E p \in Plans : plan' = [plan EXCEPT ![a] = p]
      BY <1>4 DEF ModelDone, MoveTo
    <2>2. \A b \in Agents : b # a =>
            loc'[b] = loc[b] /\ plan'[b] = plan[b] /\ call'[b] = call[b] /\ child'[b] = child[b]
      BY <2>1, <1>b DEF TypeOK
    <2>3. loc'[a] = "post" /\ \A i \in Calls : call'[a][i] = "queued" BY <2>1, <1>b
    <2>4. NoOrphan' /\ Rooted' BY <1>a, <2>1, <2>2, <2>3, MovedTree DEF Tree
    <2>5. GateAtSafePoint' BY <2>1, <1>b DEF Tree, GateAtSafePoint
    <2>6. BatchesKept'
      <3>1. \A x \in Agents : loc'[x] = "unborn" => loc[x] = "unborn" BY <2>2, <2>3
      <3>2. ASSUME NEW b \in Agents, NEW i \in Calls
            PROVE  /\ loc'[b] = "post" => call'[b][i] = "queued"
                   /\ call'[b][i] \in {"requesting", "asking"} => plan'[b][i] = "gated"
                   /\ plan'[b][i] = "delegate" /\ call'[b][i] = "running" =>
                        loc'[b] = "tools" /\ child'[b][i] \in Agents \ {Main}
                        /\ loc'[child'[b][i]] # "unborn"
        <4>1. CASE b = a BY <2>3, <4>1
        <4>2. CASE b # a BY <2>2, <3>1, <4>2 DEF Tree, BatchesKept
        <4> QED BY <4>1, <4>2
      <3> QED BY <3>2 DEF BatchesKept
    <2> QED BY <2>4, <2>5, <2>6 DEF Tree
  <1>5. CASE ModelFail(a)
    <2>1. loc[a] = "model" /\ loc' = [loc EXCEPT ![a] = "exited"] /\ UNCHANGED <<gate, plan, call, child>>
      BY <1>5 DEF ModelFail, Leave, MoveTo
    <2>2. gate'[a] = "no" BY <2>1, <1>b DEF Tree, GateAtSafePoint
    <2> QED BY <1>a, <2>1, <2>2, MovedOn
  <1>6. CASE ModelCut(a)
    <2>1. loc[a] = "model" /\ UNCHANGED <<gate, plan, call, child>> /\ NextTurn(a)
      BY <1>6 DEF ModelCut
    <2>2. gate'[a] = "no" BY <2>1, <1>b DEF Tree, GateAtSafePoint
    <2>3. CASE loc' = [loc EXCEPT ![a] = "turn"] BY <1>a, <2>1, <2>2, <2>3, MovedOn
    <2>4. CASE loc' = [loc EXCEPT ![a] = "exited"] BY <1>a, <2>1, <2>2, <2>4, MovedOn
    <2> QED BY <2>1, <2>3, <2>4 DEF NextTurn, Leave, MoveTo
  <1>7. ASSUME NEW i \in Calls, RunCall(a, i) PROVE Tree'
    <2>1. /\ loc[a] = "tools" /\ call[a][i] = "queued" /\ UNCHANGED <<loc, gate, plan, child>>
          /\ \E s \in {"running", "done"} :
               SetCall(a, i, s) /\ (plan[a][i] = "delegate" => s = "done")
      BY <1>7 DEF RunCall, StartCall
    <2> QED BY <2>1, <1>c DEF CallStates
  <1>8. ASSUME NEW i \in Calls, Delegate(a, i) PROVE Tree' BY <1>8, DelegateTree
  <1>9. ASSUME NEW i \in Calls, FinishCall(a, i) PROVE Tree'
    <2>1. /\ loc[a] = "tools" /\ plan[a][i] # "delegate" /\ UNCHANGED <<loc, gate, plan, child>>
          /\ SetCall(a, i, "done")
      BY <1>9 DEF FinishCall
    <2> QED BY <2>1, <1>c DEF CallStates
  <1>10. ASSUME NEW i \in Calls, CollectChild(a, i) PROVE Tree' BY <1>10, CollectTree
  <1>11. ASSUME NEW i \in Calls, a = Main, Ask(i) PROVE Tree'
    <2>1. /\ loc[a] = "tools" /\ plan[a][i] = "gated" /\ UNCHANGED <<loc, gate, plan, child>>
          /\ SetCall(a, i, "requesting")
      BY <1>11 DEF Ask, StartCall
    <2> QED BY <2>1, <1>c DEF CallStates
  <1>12. ASSUME NEW i \in Calls, a = Main, AskHandler(i) PROVE Tree'
    <2>1. /\ loc[a] = "tools" /\ call[a][i] = "requesting" /\ UNCHANGED <<loc, gate, plan, child>>
          /\ SetCall(a, i, "asking")
      BY <1>12 DEF AskHandler
    <2>2. plan[a][i] = "gated" BY <2>1 DEF Tree, BatchesKept
    <2> QED BY <2>1, <2>2, <1>c DEF CallStates
  <1>13. CASE FinishBatch(a)
    <2>1. /\ loc[a] = "tools" /\ AllDone(a) /\ loc' = [loc EXCEPT ![a] = "after"]
          /\ UNCHANGED gate /\ ForgetCalls(a)
      BY <1>13 DEF FinishBatch, MoveTo
    <2>2. gate'[a] = "no" BY <1>b, <2>1 DEF Tree, GateAtSafePoint
    <2> QED BY <1>a, <2>1, <2>2, Forgotten
  <1>14. CASE Propagate(a)
    <2>1. /\ loc[a] = "tools" /\ UNCHANGED <<loc, gate, plan, child>>
          /\ \A b \in Agents, i \in Calls :
               call'[b][i] = IF b # a \/ (plan[a][i] = "delegate" /\ call[a][i] = "running")
                             THEN call[b][i] ELSE "done"
      BY <1>14, <1>b DEF Propagate
    <2> QED BY <2>1, SameBatches DEF Tree, BatchesKept
  <1>15. CASE Unwind(a)
    <2>1. /\ loc[a] = "tools" => AllDone(a)
          /\ gate' = [gate EXCEPT ![a] = "no"] /\ ForgetCalls(a)
          /\ loc' = [loc EXCEPT ![a] = "exited"]
      BY <1>15 DEF Unwind, Leave, MoveTo
    <2> QED BY <1>a, <1>b, <2>1, Forgotten
  <1> QED
    BY <1>1, <1>2, <1>3, <1>4, <1>5, <1>6, <1>7, <1>8, <1>9, <1>10, <1>11, <1>12,
       <1>13, <1>14, <1>15, <1>16
    DEF AgentStep, Turn, Model, Tools, Unwinding

\* A step of an agent is one of a run whose task goes on.
LEMMA AgentFrames ==
  ASSUME TypeOK, TaskFrames, LockHolds, Tree, NEW a \in Agents, AgentStep(a)
  PROVE  TaskFrames' /\ LockHolds' /\ ~Terminal
  <1>1. Live(a) /\ UNCHANGED <<task, intr, requested, cancelling>> /\ RunMoves BY AgentRun
  <1>2. task = "running" BY <1>1 DEF TypeOK, TaskFrames, Live
  <1>3. ~Terminal BY <1>2 DEF TaskFrames
  <1>4. ~Terminal' BY <1>1, <1>3 DEF RunMoves, Terminal, TerminalStates
  <1>5. TaskFrames' BY <1>1, <1>2, <1>4 DEF TaskFrames
  <1>6. LockHolds' BY <1>1 DEF RunMoves, LockHolds, LockFree
  <1> QED BY <1>3, <1>5, <1>6

\* A step that moves no agent.
LEMMA Unmoved ==
  ASSUME Tree, UNCHANGED <<loc, plan, call, child>>,
         \A a \in Agents : gate'[a] = "no" \/ gate[a] # "no"
  PROVE  Tree'
  <1>1. NoOrphan' /\ Rooted' BY SameTree DEF Tree
  <1> QED BY <1>1 DEF Tree, GateAtSafePoint, BatchesKept

LEMMA AnswerTree ==
  ASSUME TypeOK, Tree, NEW R, NEW approved \in BOOLEAN, Answer(R, approved),
         UNCHANGED <<loc, gate, plan, child>>
  PROVE  Tree'
  <1>1. \A a \in Agents, i \in Calls :
          \/ call'[a][i] = call[a][i]
          \/ call[a][i] \in {"requesting", "asking"} /\ call'[a][i] \in {"running", "done"}
    BY DEF Answer, TypeOK
  <1>2. \A a \in Agents, i \in Calls : call[a][i] \in {"requesting", "asking"} =>
          plan[a][i] = "gated" /\ loc[a] # "post"
    BY DEF Tree, BatchesKept
  <1>3. \A a \in Agents, i \in Calls :
            /\ plan[a][i] = "delegate" => (call'[a][i] = "running" <=> call[a][i] = "running")
            /\ call'[a][i] \in {"requesting", "asking"} => plan[a][i] = "gated"
            /\ loc[a] = "post" => call'[a][i] = call[a][i]
    BY <1>1, <1>2
  <1> QED BY <1>3, SameBatches

\* When the main agent is over everybody is: nobody is left without a parent.
LEMMA MainIsLast ==
  ASSUME Tree, ~Live(Main)
  PROVE  \A a \in Agents : ~Live(a)
  <1> DEFINE S == {a \in Agents : Live(a)}
  <1>1. S \in SUBSET (Agents \ {Main}) OBVIOUS
  <1>2. ASSUME NEW c \in S PROVE \E a \in S, i \in Calls : Awaits(a, i, c)
    <2>1. PICK a \in Agents, i \in Calls : Awaits(a, i, c) BY <1>1 DEF Tree, NoOrphan
    <2>2. a \in S BY <2>1 DEF Awaits, Live
    <2> QED BY <2>1, <2>2
  <1>3. S = {} BY <1>1, <1>2 DEF Tree, Rooted
  <1> QED BY <1>3

LEMMA TreeStep == TypeOK /\ TreeInv /\ [Next]_vars => TreeInv'
  <1> SUFFICES ASSUME TypeOK, TreeInv, [Next]_vars PROVE TreeInv' OBVIOUS
  <1> USE DEF TreeInv
  <1>a. run \in RunStates /\ requested \in BOOLEAN /\ gate \in [Agents -> {"no", "parking", "waiting", "open"}]
    BY DEF TypeOK
  <1>b. TerminalStates \cap {"running", "pausing", "paused", "waiting_approval", "interrupting", "created"} = {}
    BY DEF TerminalStates
  <1>1. CASE UNCHANGED vars
    <2>1. UNCHANGED <<loc, plan, call, child, gate, task, run, pending, intr>>
      BY <1>1 DEF vars, runVars, agentVars
    <2>2. Tree' BY <2>1, Unmoved
    <2> QED BY <2>1, <2>2 DEF TaskFrames, LockHolds, LockFree, Terminal, Live
  <1>2. CASE BodyStart
    <2>1. /\ task = "created" /\ task' = "running" /\ loc' = [loc EXCEPT ![Main] = "turn"]
          /\ UNCHANGED <<run, intr, pending, gate, plan, call, child>>
      BY <1>2 DEF BodyStart
    <2>2. \A a \in Agents : loc[a] = "unborn" BY <2>1 DEF TaskFrames
    <2>3. loc \in [Agents -> Locs] BY DEF TypeOK
    <2>4. NoOrphan' /\ Rooted'
      BY <2>1, <2>2, <2>3, AgentsAssumption, MovedTree DEF Tree
    <2>5. GateAtSafePoint' /\ BatchesKept'
      BY <2>1, <2>2, <2>3, AgentsAssumption DEF Tree, GateAtSafePoint, BatchesKept, SafeLocs
    <2>6. ~Terminal' BY <2>1 DEF TaskFrames, Terminal
    <2> QED BY <2>1, <2>4, <2>5, <2>6 DEF Tree, TaskFrames, LockHolds, LockFree
  <1>3. CASE BodyDone
    <2>1. /\ loc[Main] = "exited" /\ LockFree /\ task' = "done" /\ pending' = {}
          /\ UNCHANGED <<intr, loc, gate, plan, call, child>>
      BY <1>3 DEF BodyDone, agentVars
    <2>2. \A a \in Agents : ~Live(a) BY <2>1, MainIsLast DEF Live
    <2>3. Tree' BY <2>1, Unmoved
    <2> QED BY <2>1, <2>2, <2>3 DEF TaskFrames, LockHolds, LockFree, Live
  <1>4. CASE InterruptApply
    <2>1. /\ ~LockFree /\ intr' = NoIntr
          /\ run' = Settled(IF run = "interrupting" THEN intr.previous ELSE run, phase, requested)
          /\ UNCHANGED <<task, pending, loc, gate, plan, call, child>>
      BY <1>4 DEF InterruptApply
    <2>2. Tree' BY <2>1, Unmoved
    <2>3. (IF run = "interrupting" THEN intr.previous ELSE run)
             \in {"running", "paused", "waiting_approval"}
      BY <2>1 DEF LockHolds
    <2>4. run' \in {"running", "paused", "waiting_approval"} BY <2>1, <2>3 DEF Settled
    <2> QED BY <2>1, <2>2, <2>4, <1>b DEF TaskFrames, LockHolds, LockFree, Terminal, Live
  <1>5. CASE Start
    <2>1. /\ task = "none" /\ task' = "created" /\ ~Terminal
          /\ run' \in {run, "running", "pausing"} /\ (run' # run => run = "created")
          /\ UNCHANGED <<intr, pending, loc, gate, plan, call, child>>
      BY <1>5 DEF Start, agentVars
    <2>2. Tree' BY <2>1, Unmoved
    <2> QED BY <2>1, <2>2, <1>b DEF TaskFrames, LockHolds, LockFree, Terminal, Live
  <1>6. ASSUME NEW hard \in BOOLEAN, Pause(hard) PROVE TreeInv'
    <2>1. /\ LockFree /\ ~Terminal /\ UNCHANGED <<intr, task, pending, loc, gate, plan, call, child>>
          /\ run' = Settled(IF run \in {"running", "waiting_approval"} THEN "pausing" ELSE run,
                            phase, TRUE)
      BY <1>6 DEF Pause
    <2>2. Tree' BY <2>1, Unmoved
    <2>3. ~Terminal' BY <2>1, <1>b DEF Settled, Terminal
    <2> QED BY <2>1, <2>2, <2>3 DEF TaskFrames, LockHolds, LockFree, Live
  <1>7. CASE Resume
    <2>1. /\ LockFree /\ ~Terminal /\ UNCHANGED <<intr, pending, loc, plan, call, child>>
          /\ gate' = OpenGate /\ task' = IF task = "none" THEN "created" ELSE task
          /\ run' \in {run, "running", "waiting_approval"}
      BY <1>7 DEF Resume, ResumeTarget
    <2>2. \A a \in Agents : gate'[a] = "no" \/ gate[a] # "no" BY <2>1, <1>a DEF OpenGate
    <2>3. Tree' BY <2>1, <2>2, Unmoved
    <2> QED BY <2>1, <2>3, <1>b DEF TaskFrames, LockHolds, LockFree, Terminal, Live
  <1>8. CASE Cancel
    <2>1. /\ ~Terminal /\ pending' = {} /\ gate' = OpenGate
          /\ UNCHANGED <<intr, loc, plan, call, child>>
      BY <1>8 DEF Cancel
    <2>2. \A a \in Agents : gate'[a] = "no" \/ gate[a] # "no" BY <2>1, <1>a DEF OpenGate
    <2>3. Tree' BY <2>1, <2>2, Unmoved
    <2>4. CASE task \in {"none", "done"} /\ LockFree /\ run' = "cancelled" /\ UNCHANGED task
      BY <2>1, <2>3, <2>4 DEF TaskFrames, LockHolds, LockFree, Terminal, Live
    <2>5. CASE /\ task = "created" \/ (task = "running" /\ loc[Main] = "exited" /\ ~LockFree)
               /\ task' = "done" /\ UNCHANGED run
      <3>1. \A a \in Agents : ~Live(a) BY <2>5, MainIsLast DEF TaskFrames, Live
      <3> QED BY <2>1, <2>3, <2>5, <3>1 DEF TaskFrames, LockHolds, LockFree, Terminal, Live
    <2>6. CASE UNCHANGED <<run, task>>
      BY <2>1, <2>3, <2>6 DEF TaskFrames, LockHolds, LockFree, Terminal, Live
    <2> QED BY <1>8, <2>4, <2>5, <2>6 DEF Cancel
  <1>9. CASE InterruptBegin
    <2>1. /\ ~Terminal /\ "interrupting" \in LegalTransitions[run] /\ run' = "interrupting"
          /\ intr' = [on |-> TRUE, previous |-> run]
          /\ UNCHANGED <<task, pending, loc, gate, plan, call, child>>
      BY <1>9 DEF InterruptBegin, agentVars
    <2>2. Tree' BY <2>1, Unmoved
    <2>3. run \in {"running", "paused", "waiting_approval"}
      BY <1>a, <2>1 DEF LegalTransitions, RunStates, TerminalStates
    <2> QED BY <2>1, <2>2, <2>3, <1>b DEF TaskFrames, LockHolds, Terminal, Live
  <1>10. ASSUME NEW t \in Agents, InterruptQuietly(t) PROVE TreeInv'
    <2>1. /\ LockFree /\ ~Terminal /\ run' = Settled(run, phase, requested)
          /\ UNCHANGED <<intr, task, pending, loc, gate, plan, call, child>>
      BY <1>10 DEF InterruptQuietly
    <2>2. Tree' BY <2>1, Unmoved
    <2> QED BY <2>1, <2>2, <1>b DEF Settled, TaskFrames, LockHolds, LockFree, Terminal, Live
  <1>11. ASSUME NEW q \in pending, NEW approved \in BOOLEAN, Resolve(q, approved)
         PROVE TreeInv'
    <2>1. Answer({q}, approved) /\ UNCHANGED <<intr, task, loc, gate, plan, child>>
      BY <1>11 DEF Resolve
    <2>2. Tree' BY <2>1, AnswerTree
    <2>3. run' \in {run, "running"} /\ (run' # run => run = "waiting_approval") /\ pending' \subseteq pending
      BY <2>1 DEF Answer, AfterApproval
    <2> QED BY <2>1, <2>2, <2>3, <1>b DEF TaskFrames, LockHolds, LockFree, Terminal, Live
  <1>12. ASSUME NEW m \in {"manual", "auto"}, SetMode(m) PROVE TreeInv'
    <2>1. /\ Answer(pending, TRUE)
             \/ (run' = AfterApproval(run, pending) /\ UNCHANGED <<pending, call>>)
          /\ UNCHANGED <<intr, task, loc, gate, plan, child>>
      BY <1>12 DEF SetMode
    <2>2. Tree' BY <2>1, AnswerTree, Unmoved
    <2>3. run' \in {run, "running"} /\ (run' # run => run = "waiting_approval") /\ pending' \subseteq pending
      BY <2>1 DEF Answer, AfterApproval
    <2> QED BY <2>1, <2>2, <2>3, <1>b DEF TaskFrames, LockHolds, LockFree, Terminal, Live
  <1>13. ASSUME NEW a \in Agents, AgentStep(a) PROVE TreeInv'
    BY <1>13, AgentTree, AgentFrames
  <1> QED
    BY <1>1, <1>2, <1>3, <1>4, <1>5, <1>6, <1>7, <1>8, <1>9, <1>10, <1>11, <1>12, <1>13
    DEF Next, Command, SoftPause, HardPause, Answering, Finished

LEMMA TreeInit == Init => TreeInv
  <1> SUFFICES ASSUME Init PROVE TreeInv OBVIOUS
  <1>1. TaskFrames /\ LockHolds
    BY DEF Init, TaskFrames, LockHolds, LockFree, Terminal, TerminalStates
  <1>2. \A a \in Agents : ~Live(a) BY DEF Init, Live
  <1>3. NoOrphan /\ Rooted BY <1>2 DEF NoOrphan, Rooted
  <1>4. GateAtSafePoint /\ BatchesKept BY DEF Init, GateAtSafePoint, BatchesKept
  <1> QED BY <1>1, <1>3, <1>4 DEF TreeInv, Tree

LEMMA TreeHolds == Spec => []TreeInv
  <1>1. Init => TreeInv BY TreeInit
  <1>2. TypeOK /\ TreeInv /\ [Next]_vars => TreeInv' BY TreeStep
  <1> QED BY <1>1, <1>2, TypeCorrect, PTL DEF Spec

\* No live agent is left without the one call that waits for it, whatever is cut, fails or
\* is interrupted (AgentLoop._run_delegate, the task group of a batch).
THEOREM AgentsAreAwaited == Spec => []NoOrphan
  <1>1. TreeInv => NoOrphan BY DEF TreeInv, Tree
  <1> QED BY <1>1, TreeHolds, PTL

\* A run that has ended has nothing under way, waits for no answer and parks nobody
\* (_run_body, _finish).
THEOREM EndsQuiet == Spec => []TerminalIsQuiet
  <1>1. TypeOK /\ TreeInv => TerminalIsQuiet
    BY DEF TypeOK, TreeInv, Tree, TaskFrames, GateAtSafePoint, TerminalIsQuiet, Live, SafeLocs
  <1> QED BY <1>1, TreeHolds, TypeCorrect, PTL


-----------------------------------------------------------------------------
(* The run implements RunLifecycle *)

ModelPhase == \A a \in Agents : loc[a] = "model" => phase[a] = "blocked_io"

Spending == {a \in Agents : loc[a] = "model"}
Released == {a \in Agents : gate[a] = "open"}

LEMMA LifeStates ==
  /\ Life!RunStates = RunStates /\ Life!TerminalStates = TerminalStates
  /\ Life!LegalTransitions = LegalTransitions
  BY DEF Life!RunStates, RunStates, Life!TerminalStates, TerminalStates,
         Life!LegalTransitions, LegalTransitions

\* The entries of the table that the code goes through, one or two at a time.
LEMMA Reachable ==
  /\ \A r \in RunStates : Life!Reaches(r, r)
  /\ \A r, s \in RunStates : IsLegalTransition(r, s) => Life!Reaches(r, s)
  /\ \A r \in {"running", "pausing", "waiting_approval", "interrupting"} : Life!Reaches(r, "paused")
  /\ Life!Reaches("created", "pausing") /\ Life!Reaches("created", "running")
  /\ Life!Reaches("running", "waiting_approval") /\ Life!Reaches("waiting_approval", "running")
  /\ \A r \in {"running", "waiting_approval"} : Life!Reaches(r, "pausing")
  /\ \A r \in {"running", "waiting_approval"} : Life!Reaches("interrupting", r)
  /\ \A r \in RunStates \ TerminalStates, s \in TerminalStates : Life!Reaches(r, s)
  <1> DEFINE Legal(r, s) == Life!IsLegalTransition(r, s)
  <1>1. \A r, s, m \in RunStates : Legal(r, m) /\ Legal(m, s) => Life!Reaches(r, s)
    BY LifeStates DEF Life!Reaches
  <1>2. \A r \in RunStates : Legal(r, r) BY DEF Life!IsLegalTransition
  <1>3. \A r, s \in RunStates : Legal(r, s) <=> IsLegalTransition(r, s)
    BY LifeStates DEF Life!IsLegalTransition, IsLegalTransition
  <1>4. /\ Legal("created", "running") /\ Legal("running", "pausing")
        /\ Legal("running", "waiting_approval") /\ Legal("waiting_approval", "running")
        /\ Legal("waiting_approval", "pausing") /\ Legal("interrupting", "running")
        /\ Legal("interrupting", "waiting_approval")
        /\ \A r \in {"pausing", "waiting_approval", "interrupting"} : Legal(r, "paused")
        /\ \A r \in {"created", "paused", "pausing", "waiting_approval", "interrupting"} :
             Legal(r, "running")
        /\ \A s \in TerminalStates : Legal("running", s)
    BY LifeStates DEF Life!IsLegalTransition, LegalTransitions, RunStates, TerminalStates
  <1>5. /\ TerminalStates \subseteq RunStates
        /\ {"created", "running", "pausing", "paused", "waiting_approval", "interrupting"} \subseteq RunStates
        /\ RunStates \ TerminalStates =
             {"created", "running", "pausing", "paused", "waiting_approval", "interrupting"}
    BY DEF RunStates, TerminalStates
  <1> HIDE DEF Legal
  <1>6. \A r \in RunStates \ TerminalStates, s \in TerminalStates :
          Legal(r, "running") /\ Legal("running", s)
    BY <1>2, <1>4, <1>5
  <1>7. \A r, s \in RunStates : Legal(r, s) => Life!Reaches(r, s) BY <1>1, <1>2
  <1>8. \A r \in RunStates \ TerminalStates, s \in TerminalStates : Life!Reaches(r, s)
    BY <1>1, <1>5, <1>6
  <1>9. Life!Reaches("created", "pausing") /\ Life!Reaches("running", "paused")
    BY <1>1, <1>4, <1>5
  <1> QED BY <1>2, <1>3, <1>4, <1>5, <1>7, <1>8, <1>9

LEMMA QuietSpendsNothing ==
  ASSUME NEW ph, Quiet(ph), NEW a \in Agents
  PROVE  ph[a] # "blocked_io"
  BY DEF Quiet, IsQuiescent, QuiescentPhases

\* What every step but a model call's beginning keeps to.
LEMMA CommandedKind ==
  ASSUME TypeOK, TypeOK', cancelling => cancelling',
         run' = "interrupting" =>
            intr'.previous = IF run = "interrupting" THEN intr.previous ELSE run,
         Spending' \subseteq Spending,
         Released' \subseteq (IF requested' THEN Released ELSE Agents)
  PROVE  Life!Commanded
  <1>1. requested' \in BOOLEAN /\ cancelling' \in BOOLEAN /\ intr'.previous \in RunStates
    BY DEF TypeOK
  <1> QED BY <1>1, LifeStates DEF Life!Commanded, Spending, Released

\* The kinds of step of the lifecycle, each from what a step here shows of itself.
LEMMA MoveKind ==
  ASSUME TypeOK', Life!Commanded, run' # "paused", run' \notin TerminalStates,
         Life!Reaches(run, run'),
         run = "paused" => ~requested' \/ run' = "interrupting" \/ cancelling
  PROVE  Life!Next
  <1>1. run' \in RunStates BY DEF TypeOK
  <1> QED BY <1>1, LifeStates DEF Life!Next, Life!Move

LEMMA LandKind ==
  ASSUME Life!Commanded, run # "paused", run' = "paused", Life!Reaches(run, "paused"),
         \/ cancelling
         \/ requested' /\ (Spending' = {} \/ (run = "interrupting" /\ intr.previous = "paused"))
  PROVE  Life!Next
  BY DEF Life!Next, Life!Land, Life!PutsBack, Spending

LEMMA StayKind ==
  ASSUME Life!Commanded, run = "paused", run' = run, requested' # requested => cancelling'
  PROVE  Life!Next
  BY DEF Life!Next, Life!Stay

LEMMA EndKind ==
  ASSUME TypeOK, Life!Commanded, run \notin TerminalStates, run' \in TerminalStates,
         Spending' = {}, Released' = {}
  PROVE  Life!Next
  <1>1. Life!Reaches(run, run') BY Reachable DEF TypeOK
  <1> QED BY <1>1, LifeStates DEF Life!Next, Life!End, Spending, Released

LEMMA MovePhase ==
  ASSUME TypeOK, ModelPhase, NEW a \in Agents, NEW l, NEW p, MoveTo(a, l, p),
         l = "model" => p = "blocked_io"
  PROVE  /\ ModelPhase' /\ loc'[a] = l
         /\ \A b \in Agents : b # a => loc'[b] = loc[b]
         /\ run' = Settled(run, phase', requested)
  BY DEF MoveTo, ModelPhase, TypeOK

\* An agent enters a model call while no pause is requested, or because a resume woke it;
\* nothing else happens to the run then, and nobody else is let go.
Enters(a) ==
  /\ ModelPhase'
  /\ \A b \in Agents : b # a => gate'[b] = gate[b]
  /\ gate'[a] = "open" => gate[a] = "open"
  /\ \A b \in Agents : b # a /\ loc'[b] = "model" => loc[b] = "model"
  /\ loc'[a] = "model" => \/ loc[a] = "model"
                          \/ /\ requested => gate[a] = "open"
                             /\ gate'[a] # "open" /\ run' = run
                             /\ \A b \in Agents : b # a => loc'[b] = loc[b]

LEMMA PassEnters ==
  ASSUME TypeOK, ModelPhase, NEW a \in Agents, PassSafePoint(a),
         requested => gate[a] = "open",
         gate'[a] = "no", \A b \in Agents : b # a => gate'[b] = gate[b]
  PROVE  Enters(a)
  <1>1. PICK l, p : MoveTo(a, l, p) /\ (l = "model" => p = "blocked_io")
    BY DEF PassSafePoint, NextTurn, Leave
  <1>2. /\ ModelPhase' /\ loc'[a] = l
        /\ \A b \in Agents : b # a => loc'[b] = loc[b]
        /\ run' = Settled(run, phase', requested)
    BY <1>1, MovePhase
  <1>3. l = "model" => run' = run
    <2> SUFFICES ASSUME l = "model" PROVE run' = run OBVIOUS
    <2>1. phase'[a] = "blocked_io" BY <1>1 DEF MoveTo, TypeOK
    <2>2. ~Quiet(phase') BY <2>1, QuietSpendsNothing
    <2> QED BY <1>2, <2>2 DEF Settled
  <1> QED BY <1>2, <1>3 DEF Enters

LEMMA AgentEnters ==
  ASSUME TypeOK, ModelPhase, GateAtSafePoint, NEW a \in Agents, AgentStep(a)
  PROVE  Enters(a)
  <1>a. gate \in [Agents -> {"no", "parking", "waiting", "open"}] /\ loc \in [Agents -> Locs]
        /\ phase \in [Agents -> AgentPhases \cup {"gone"}] /\ requested \in BOOLEAN
    BY DEF TypeOK
  <1>b. ASSUME NEW l, NEW p, MoveTo(a, l, p), l # "model",
               \A b \in Agents : b # a => gate'[b] = gate[b],
               gate'[a] = "open" => gate[a] = "open"
        PROVE  Enters(a)
    BY <1>b, MovePhase DEF Enters
  <1>c. ASSUME UNCHANGED <<phase, loc, gate>> PROVE Enters(a)
    BY <1>c DEF Enters, ModelPhase
  <1>1. CASE ChildStart(a) BY <1>1, <1>a DEF ChildStart, Enters, ModelPhase
  <1>2. CASE SafePoint(a)
    <2>1. CASE requested
      <3>1. /\ UNCHANGED loc /\ gate' = [gate EXCEPT ![a] = "parking"] /\ loc[a] # "model"
            /\ phase' = [phase EXCEPT ![a] = "parked"]
        BY <1>2, <2>1 DEF SafePoint, SafeLocs
      <3> QED BY <1>a, <3>1 DEF Enters, ModelPhase
    <2>2. CASE ~requested
      <3>1. PassSafePoint(a) /\ UNCHANGED gate /\ gate[a] = "no"
        BY <1>2, <2>2 DEF SafePoint
      <3> QED BY <2>2, <3>1, PassEnters
    <2> QED BY <2>1, <2>2
  <1>16. CASE ParkOn(a)
    <2>1. CASE requested
      <3>1. UNCHANGED <<phase, loc>> /\ gate' = [gate EXCEPT ![a] = "waiting"]
        BY <1>16, <2>1 DEF ParkOn
      <3> QED BY <1>a, <3>1 DEF Enters, ModelPhase
    <2>2. CASE ~requested
      <3>1. PassSafePoint(a) /\ gate' = [gate EXCEPT ![a] = "no"]
        BY <1>16, <2>2 DEF ParkOn
      <3> QED BY <1>a, <2>2, <3>1, PassEnters
    <2> QED BY <2>1, <2>2
  <1>3. CASE Wake(a)
    <2>1. PassSafePoint(a) /\ gate' = [gate EXCEPT ![a] = "no"] /\ gate[a] = "open"
      BY <1>3 DEF Wake
    <2> QED BY <1>a, <2>1, PassEnters
  <1>4. CASE ModelDone(a) BY <1>4, <1>b DEF ModelDone
  <1>5. CASE ModelFail(a) BY <1>5, <1>b DEF ModelFail, Leave
  <1>6. CASE ModelCut(a) BY <1>6, <1>b DEF ModelCut, NextTurn, Leave
  <1>7. ASSUME NEW i \in Calls, RunCall(a, i) PROVE Enters(a) BY <1>7, <1>c DEF RunCall
  <1>8. ASSUME NEW i \in Calls, Delegate(a, i) PROVE Enters(a)
    <2>1. PICK c \in Agents \ {Main} :
            /\ loc[c] = "unborn" /\ loc' = [loc EXCEPT ![c] = "spawned"]
            /\ phase' = [phase EXCEPT ![c] = "running", ![a] = "blocked_on_child"]
      BY <1>8 DEF Delegate
    <2>2. loc[a] = "tools" /\ UNCHANGED gate BY <1>8 DEF Delegate, StartCall
    <2>3. ModelPhase' BY <1>a, <2>1, <2>2 DEF ModelPhase
    <2> QED BY <1>a, <2>1, <2>2, <2>3 DEF Enters
  <1>9. ASSUME NEW i \in Calls, FinishCall(a, i) PROVE Enters(a) BY <1>9, <1>c DEF FinishCall
  <1>10. ASSUME NEW i \in Calls, CollectChild(a, i) PROVE Enters(a)
    BY <1>10, <1>b DEF CollectChild
  <1>11. ASSUME NEW i \in Calls, a = Main, Ask(i) PROVE Enters(a)
    <2>1. /\ loc[a] = "tools" /\ UNCHANGED <<loc, gate>>
          /\ phase' = [phase EXCEPT ![a] = "waiting_approval"]
      BY <1>11 DEF Ask, StartCall
    <2> QED BY <1>a, <2>1 DEF Enters, ModelPhase
  <1>12. ASSUME NEW i \in Calls, a = Main, AskHandler(i) PROVE Enters(a)
    BY <1>12, <1>c DEF AskHandler
  <1>13. CASE FinishBatch(a) BY <1>13, <1>b DEF FinishBatch
  <1>14. CASE Propagate(a) BY <1>14, <1>c DEF Propagate
  <1>15. CASE Unwind(a)
    <2>1. gate' = [gate EXCEPT ![a] = "no"] BY <1>15 DEF Unwind
    <2>2. CASE loc' = [loc EXCEPT ![a] = "exited"] /\ UNCHANGED phase
      BY <1>a, <2>1, <2>2 DEF Enters, ModelPhase
    <2>3. CASE Leave(a) BY <1>a, <1>b, <2>1, <2>3 DEF Leave
    <2> QED BY <1>15, <2>2, <2>3 DEF Unwind
  <1> QED
    BY <1>1, <1>2, <1>3, <1>4, <1>5, <1>6, <1>7, <1>8, <1>9, <1>10, <1>11, <1>12,
       <1>13, <1>14, <1>15, <1>16
    DEF AgentStep, Turn, Model, Tools, Unwinding

LEMMA AgentLife ==
  ASSUME TypeOK, TypeOK', TaskFrames, LockHolds, Tree, ModelPhase, NEW a \in Agents, AgentStep(a)
  PROVE  ModelPhase' /\ Life!Next
  <1>1. Live(a) /\ UNCHANGED <<task, intr, requested, cancelling>> /\ RunMoves BY AgentRun
  <1>2. ~Terminal BY AgentFrames
  <1>3. Enters(a) BY AgentEnters DEF Tree
  <1>4. ModelPhase' BY <1>3 DEF Enters
  <1>5. run \in RunStates /\ run' \in RunStates BY DEF TypeOK
  <1>6. run' = "interrupting" => run = "interrupting" BY <1>1 DEF RunMoves
  <1>7. CASE loc'[a] = "model" /\ loc[a] # "model"
    <2>1. /\ requested => gate[a] = "open"
          /\ gate'[a] # "open" /\ run' = run
          /\ \A b \in Agents : b # a => loc'[b] = loc[b] /\ gate'[b] = gate[b]
      BY <1>3, <1>7 DEF Enters
    <2>2. Spending' = Spending \cup {a} /\ a \notin Spending BY <1>7, <2>1 DEF Spending
    <2>3. Released' = Released \ {a} /\ (requested => a \in Released) BY <2>1 DEF Released
    <2>4. Life!Spend(a)
      BY <1>1, <1>2, <2>1, <2>2, <2>3, LifeStates DEF Life!Spend, Spending, Released, Terminal
    <2> QED BY <1>4, <2>4 DEF Life!Next
  <1>8. CASE ~(loc'[a] = "model" /\ loc[a] # "model")
    <2>1. Spending' \subseteq Spending /\ Released' \subseteq Released
      BY <1>3, <1>8 DEF Enters, Spending, Released
    <2>2. Released \subseteq Agents BY DEF Released
    <2>3. Life!Commanded BY <1>1, <1>6, <2>1, <2>2, CommandedKind
    <2>4. CASE run' = run
      <3>1. CASE run = "paused" BY <1>1, <1>4, <2>3, <2>4, <3>1, StayKind
      <3>2. CASE run # "paused"
        <4>1. Life!Reaches(run, run') /\ run' \notin TerminalStates
          BY <1>2, <1>5, <2>4, Reachable DEF Terminal
        <4> QED BY <1>4, <2>3, <2>4, <3>2, <4>1, MoveKind
      <3> QED BY <3>1, <3>2
    <2>5. CASE /\ run \in {"pausing", "waiting_approval", "interrupting"} /\ run' = "paused"
               /\ requested /\ Quiet(phase')
      <3>1. Spending' = {} BY <1>4, <2>5, QuietSpendsNothing DEF Spending, ModelPhase
      <3>2. Life!Reaches(run, "paused") /\ requested' /\ run # "paused"
        BY <1>1, <2>5, Reachable
      <3> QED BY <1>4, <2>3, <2>5, <3>1, <3>2, LandKind
    <2>6. CASE run = "running" /\ run' = "waiting_approval"
      <3>1. /\ run # "paused" /\ run' # "paused" /\ run' \notin TerminalStates
            /\ Life!Reaches(run, run')
        BY <2>6, Reachable DEF TerminalStates
      <3> QED BY <1>4, <2>3, <3>1, MoveKind
    <2> QED BY <1>1, <2>4, <2>5, <2>6 DEF RunMoves
  <1> QED BY <1>4, <1>7, <1>8

\* A step that leaves the agents where they are and the pause as it is.
LEMMA CommandLife ==
  ASSUME TypeOK, TypeOK', ~Terminal, ~Terminal',
         UNCHANGED <<loc, gate, requested, cancelling, intr>>,
         \/ run' = run
         \/ /\ run # "paused" /\ Life!Reaches(run, run') /\ run' # "interrupting"
            /\ run' = "paused" => requested /\ \A a \in Agents : loc[a] # "model"
  PROVE  Life!Next
  <1>1. /\ run' \notin TerminalStates /\ run \notin TerminalStates /\ run \in RunStates
    BY DEF TypeOK, Terminal
  <1>2. Spending' = Spending /\ Released' = Released /\ Released \subseteq Agents
    BY DEF Spending, Released
  <1>3. Life!Commanded BY <1>2, CommandedKind
  <1>4. CASE run' = "paused" /\ run = "paused" BY <1>3, <1>4, StayKind
  <1>5. CASE run' = "paused" /\ run # "paused"
    <2>1. requested' /\ Spending' = {} /\ Life!Reaches(run, "paused") BY <1>5 DEF Spending
    <2> QED BY <1>3, <1>5, <2>1, LandKind
  <1>6. CASE run' # "paused"
    <2>1. Life!Reaches(run, run') /\ run # "paused" BY <1>1, <1>6, Reachable
    <2> QED BY <1>1, <1>3, <1>6, <2>1, MoveKind
  <1> QED BY <1>4, <1>5, <1>6

LifeSame == UNCHANGED <<run, requested, Spending, Released, intr.previous, cancelling>>

LEMMA LifeStep ==
  ASSUME TypeOK, TypeOK', TreeInv, TreeInv', PauseInv, ModelPhase, [Next]_vars
  PROVE  ModelPhase' /\ (Life!Next \/ LifeSame)
  <1> DEFINE Goal == ModelPhase' /\ (Life!Next \/ LifeSame)
  <1>a. /\ run \in RunStates /\ run' \in RunStates /\ requested \in BOOLEAN /\ requested' \in BOOLEAN
        /\ cancelling \in BOOLEAN /\ cancelling' \in BOOLEAN
        /\ gate \in [Agents -> {"no", "parking", "waiting", "open"}]
        /\ phase \in [Agents -> AgentPhases \cup {"gone"}]
    BY DEF TypeOK
  <1>b. TaskFrames /\ LockHolds /\ Tree BY DEF TreeInv
  <1>c. Quiet(phase) => \A a \in Agents : loc[a] # "model"
    BY QuietSpendsNothing DEF ModelPhase
  <1>d. (run = "paused" \/ intr.previous = "paused") /\ ~cancelling => requested
    BY DEF PauseInv, PausedOnRequest, RestoresOnRequest
  <1>e. Released \subseteq Agents BY DEF Released
  \* Steps that leave the agents and the interrupt alone.
  <1>f. ASSUME UNCHANGED <<loc, gate, intr>>, cancelling => cancelling', run' # "interrupting" \/ run' = run
        PROVE  Life!Commanded /\ Spending' = Spending
    <2>1. Spending' = Spending /\ Released' = Released BY <1>f DEF Spending, Released
    <2> QED BY <1>e, <1>f, <2>1, CommandedKind
  <1>1. CASE UNCHANGED vars
    BY <1>1 DEF vars, runVars, agentVars, ModelPhase, Spending, Released, LifeSame
  <1>2. CASE BodyStart
    <2>1. /\ task = "created" /\ loc' = [loc EXCEPT ![Main] = "turn"]
          /\ phase' = [phase EXCEPT ![Main] = "running"]
          /\ UNCHANGED <<run, requested, cancelling, intr, gate>>
      BY <1>2 DEF BodyStart
    <2>2. \A a \in Agents : loc[a] = "unborn" BY <1>b, <2>1 DEF TaskFrames
    <2>3. \A a \in Agents : loc'[a] # "model" BY <2>1, <2>2 DEF TypeOK
    <2>4. Spending' = Spending BY <2>2, <2>3 DEF Spending
    <2>5. Released' = Released BY <2>1 DEF Released
    <2>6. ModelPhase' BY <2>3 DEF ModelPhase
    <2> QED BY <2>1, <2>4, <2>5, <2>6 DEF LifeSame
  <1>3. CASE BodyDone
    <2>1. /\ task = "running" /\ run' \in TerminalStates
          /\ UNCHANGED <<requested, cancelling, intr, gate, phase, loc>>
      BY <1>3 DEF BodyDone, agentVars, TerminalStates
    <2>2. \A a \in Agents : ~Live(a)
      BY <1>3, MainIsLast DEF BodyDone, TreeInv, Live
    <2>3. Spending' = {} BY <2>1, <2>2 DEF Spending, Live
    <2>4. run \notin TerminalStates BY <1>b, <2>1 DEF TaskFrames, Terminal
    <2>5. Released' = {}
      BY <1>a, <1>b, <2>1, <2>2 DEF Released, Tree, GateAtSafePoint, Live, SafeLocs
    <2>6. Life!Commanded BY <1>f, <2>1 DEF TerminalStates
    <2>7. ModelPhase' BY <2>1 DEF ModelPhase
    <2> QED BY <2>1, <2>3, <2>4, <2>5, <2>6, <2>7, EndKind
  <1>4. CASE InterruptApply
    <2> DEFINE back == IF run = "interrupting" THEN intr.previous ELSE run
    <2>1. /\ ~LockFree /\ intr' = NoIntr /\ run' = Settled(back, phase, requested)
          /\ UNCHANGED <<requested, cancelling, phase, loc, gate>>
      BY <1>4 DEF InterruptApply
    <2>2. /\ run \in {"interrupting", "paused"}
          /\ intr.previous \in {"running", "paused", "waiting_approval"}
      BY <1>b, <2>1 DEF LockHolds
    <2>3. \/ run' = back
          \/ run' = "paused" /\ requested /\ Quiet(phase) /\ back = "waiting_approval"
      BY <2>1, <2>2 DEF Settled
    <2>4. ModelPhase' BY <2>1 DEF ModelPhase
    <2>5. Spending' = Spending /\ Released' = Released BY <2>1 DEF Spending, Released
    <2>6. run' # "interrupting" BY <2>2, <2>3
    <2>7. Life!Commanded BY <1>e, <2>1, <2>5, <2>6, CommandedKind
    <2>8. CASE run = "paused"
      <3>1. run' = run BY <2>3, <2>8
      <3> QED BY <2>1, <2>4, <2>7, <2>8, <3>1, StayKind
    <2>9. CASE run # "paused" /\ run' = "paused"
      <3>1. run = "interrupting" /\ Life!Reaches(run, "paused") BY <2>2, <2>9, Reachable
      <3>2. \/ cancelling
            \/ requested' /\ (Spending' = {} \/ (run = "interrupting" /\ intr.previous = "paused"))
        <4>1. CASE intr.previous = "paused" BY <1>d, <2>1, <3>1, <4>1
        <4>2. CASE intr.previous # "paused"
          <5>1. requested /\ Quiet(phase) BY <2>3, <2>9, <3>1, <4>2
          <5>2. Spending' = {} BY <1>c, <2>5, <5>1 DEF Spending
          <5> QED BY <2>1, <5>1, <5>2
        <4> QED BY <4>1, <4>2
      <3> QED BY <2>4, <2>7, <2>9, <3>1, <3>2, LandKind
    <2>10. CASE run # "paused" /\ run' # "paused"
      <3>1. run' \in {"running", "waiting_approval"} /\ run = "interrupting"
        BY <2>2, <2>3, <2>10
      <3>2. Life!Reaches(run, run') /\ run' \notin TerminalStates
        BY <3>1, Reachable DEF TerminalStates
      <3> QED BY <2>4, <2>7, <2>10, <3>2, MoveKind
    <2> QED BY <2>8, <2>9, <2>10
  <1>5. CASE Start
    <2>1. /\ ~Terminal /\ UNCHANGED <<requested, cancelling, intr, gate, phase, loc>>
          /\ run' = run \/ (run = "created" /\ run' \in {"pausing", "running"})
      BY <1>5 DEF Start, agentVars
    <2>2. ModelPhase' BY <2>1 DEF ModelPhase
    <2>3. ~Terminal' BY <2>1 DEF Terminal, TerminalStates
    <2>4. run' = run \/ (run # "paused" /\ Life!Reaches(run, run') /\ run' \notin {"paused", "interrupting"})
      BY <2>1, Reachable
    <2> QED BY <2>1, <2>2, <2>3, <2>4, CommandLife
  <1>6. ASSUME NEW hard \in BOOLEAN, Pause(hard) PROVE Goal
    <2> DEFINE r == IF run \in {"running", "waiting_approval"} THEN "pausing" ELSE run
    <2>1. /\ ~Terminal /\ requested' = TRUE /\ run' = Settled(r, phase, TRUE)
          /\ UNCHANGED <<cancelling, intr, gate, phase, loc>>
      BY <1>6 DEF Pause
    <2>2. \/ run' = r
          \/ run' = "paused" /\ run \in {"running", "pausing", "waiting_approval", "interrupting"}
             /\ \A a \in Agents : loc[a] # "model"
      BY <1>c, <2>1 DEF Settled
    <2>3. Life!Commanded /\ Spending' = Spending BY <1>f, <2>1, <2>2
    <2>4. ModelPhase' BY <2>1 DEF ModelPhase
    <2>5. CASE run' = "paused" /\ run = "paused"
      <3>1. requested' # requested => cancelling' BY <1>a, <1>d, <2>1, <2>5
      <3> QED BY <2>3, <2>4, <2>5, <3>1, StayKind
    <2>6. CASE run' = "paused" /\ run # "paused"
      <3>1. Spending' = {} /\ Life!Reaches(run, "paused")
        BY <2>2, <2>3, <2>6, Reachable DEF Spending
      <3> QED BY <2>1, <2>3, <2>4, <2>6, <3>1, LandKind
    <2>7. CASE run' # "paused"
      <3>1. run' = r /\ run # "paused" /\ Life!Reaches(run, run')
        BY <1>a, <2>2, <2>7, Reachable
      <3>2. run' \notin TerminalStates BY <2>1, <3>1 DEF Terminal, TerminalStates
      <3> QED BY <2>3, <2>4, <2>7, <3>1, <3>2, MoveKind
    <2> QED BY <2>5, <2>6, <2>7
  <1>7. CASE Resume
    <2>1. /\ ~Terminal /\ requested' = FALSE
          /\ IsLegalTransition(run, ResumeTarget)
          /\ run' = IF run = "created" THEN "running" ELSE ResumeTarget
          /\ UNCHANGED <<cancelling, intr, phase, loc>>
      BY <1>7 DEF Resume
    <2>2. ResumeTarget # "paused" /\ ResumeTarget \in RunStates \ TerminalStates
      BY <1>a, <2>1 DEF ResumeTarget, Terminal, RunStates, TerminalStates
    <2>3. Life!Reaches(run, run') /\ run' # "paused" /\ run' \notin TerminalStates
      BY <1>a, <2>1, <2>2, Reachable DEF TerminalStates
    <2>4. ModelPhase' BY <2>1 DEF ModelPhase
    <2>5. Spending' = Spending /\ Released' \subseteq Agents BY <2>1 DEF Spending, Released
    <2>6. run' = "interrupting" => run = "interrupting" BY <2>1 DEF ResumeTarget
    <2>7. Life!Commanded BY <2>1, <2>5, <2>6, CommandedKind
    <2> QED BY <2>1, <2>3, <2>4, <2>7, MoveKind
  <1>8. CASE Cancel
    <2>1. /\ ~Terminal /\ cancelling' = TRUE /\ requested' = FALSE
          /\ UNCHANGED <<intr, phase, loc>> /\ gate' = OpenGate
          /\ run' = run \/ (run' = "cancelled" /\ task \in {"none", "done"})
      BY <1>8 DEF Cancel
    <2>2. ModelPhase' BY <2>1 DEF ModelPhase
    <2>3. Spending' = Spending /\ Released' \subseteq Agents BY <2>1 DEF Spending, Released
    <2>4. Life!Commanded BY <2>1, <2>3, CommandedKind
    <2>5. CASE run' = "cancelled" /\ task \in {"none", "done"}
      <3>1. \A a \in Agents : ~Live(a) BY <1>b, <2>5 DEF TaskFrames, Live
      <3>2. Spending' = {} BY <2>3, <3>1 DEF Live, Spending
      <3>3. Released' = {}
        BY <1>a, <1>b, <2>1, <3>1
        DEF Released, OpenGate, Tree, GateAtSafePoint, Live, SafeLocs
      <3>4. run \notin TerminalStates /\ run' \in TerminalStates
        BY <2>1, <2>5 DEF Terminal, TerminalStates
      <3> QED BY <2>2, <2>4, <3>2, <3>3, <3>4, EndKind
    <2>6. CASE run' = run /\ run = "paused" BY <2>1, <2>2, <2>4, <2>6, StayKind
    <2>7. CASE run' = run /\ run # "paused"
      <3>1. run' \notin TerminalStates /\ Life!Reaches(run, run')
        BY <1>a, <2>1, <2>7, Reachable DEF Terminal
      <3> QED BY <2>2, <2>4, <2>7, <3>1, MoveKind
    <2> QED BY <2>1, <2>5, <2>6, <2>7
  <1>9. CASE InterruptBegin
    <2>1. /\ ~Terminal /\ "interrupting" \in LegalTransitions[run] /\ run' = "interrupting"
          /\ intr' = [on |-> TRUE, previous |-> run]
          /\ UNCHANGED <<requested, cancelling, gate, phase, loc>>
      BY <1>9 DEF InterruptBegin, agentVars
    <2>2. run # "interrupting"
      BY <1>a, <2>1 DEF LegalTransitions, RunStates, TerminalStates
    <2>3. ModelPhase' BY <2>1 DEF ModelPhase
    <2>4. Spending' = Spending /\ Released' = Released BY <2>1 DEF Spending, Released
    <2>5. Life!Commanded BY <1>e, <2>1, <2>2, <2>4, CommandedKind
    <2>6. Life!Reaches(run, "interrupting") /\ "interrupting" \in RunStates \ TerminalStates
      BY <1>a, <2>1, Reachable DEF IsLegalTransition, RunStates, TerminalStates
    <2> QED BY <2>1, <2>3, <2>5, <2>6, MoveKind
  <1>10. ASSUME NEW t \in Agents, InterruptQuietly(t) PROVE Goal
    <2>1. /\ ~Terminal /\ run' = Settled(run, phase, requested)
          /\ UNCHANGED <<requested, cancelling, intr, gate, phase, loc>>
      BY <1>10 DEF InterruptQuietly
    <2>2. \/ run' = run
          \/ run' = "paused" /\ run \in {"pausing", "waiting_approval", "interrupting"}
             /\ requested /\ \A a \in Agents : loc[a] # "model"
      BY <1>c, <2>1 DEF Settled
    <2>3. ModelPhase' BY <2>1 DEF ModelPhase
    <2>4. ~Terminal' BY <2>1, <2>2 DEF Terminal, TerminalStates
    <2>5. run' = run \/ (/\ run # "paused" /\ Life!Reaches(run, run') /\ run' # "interrupting"
                         /\ run' = "paused" => requested /\ \A a \in Agents : loc[a] # "model")
      BY <2>2, Reachable
    <2> QED BY <2>1, <2>3, <2>4, <2>5, CommandLife
  <1>g. ASSUME UNCHANGED <<requested, cancelling, intr, gate, loc>>,
               phase' = phase \/ phase' = [phase EXCEPT ![Main] = "blocked_io"],
               run' = AfterApproval(run, pending')
        PROVE  Goal
    <2>1. ModelPhase' BY <1>a, <1>g DEF ModelPhase
    <2>2. run' = run \/ (run = "waiting_approval" /\ run' = "running")
      BY <1>g DEF AfterApproval
    <2>3. CASE Terminal
      <3>1. LifeSame
        BY <1>g, <2>2, <2>3 DEF Terminal, TerminalStates, Spending, Released, LifeSame
      <3> QED BY <2>1, <3>1
    <2>4. CASE ~Terminal
      <3>1. ~Terminal' BY <2>2, <2>4 DEF Terminal, TerminalStates
      <3>2. run' = run \/ (run # "paused" /\ Life!Reaches(run, run') /\ run' \notin {"paused", "interrupting"})
        BY <2>2, Reachable
      <3> QED BY <1>g, <2>1, <2>4, <3>1, <3>2, CommandLife
    <2> QED BY <2>3, <2>4
  <1>11. ASSUME NEW q \in pending, NEW approved \in BOOLEAN, Resolve(q, approved) PROVE Goal
    BY <1>11, <1>g DEF Resolve, Answer
  <1>12. ASSUME NEW m \in {"manual", "auto"}, SetMode(m) PROVE Goal
    BY <1>12, <1>g DEF SetMode, Answer
  <1>13. ASSUME NEW a \in Agents, AgentStep(a) PROVE Goal
    BY <1>13, <1>b, AgentLife
  <1> QED
    BY <1>1, <1>2, <1>3, <1>4, <1>5, <1>6, <1>7, <1>8, <1>9, <1>10, <1>11, <1>12, <1>13
    DEF Next, Command, SoftPause, HardPause, Answering, Finished

\* In what it reports, what it spends and when it halts, the run is one that RunLifecycle
\* allows, for any agents, plans and commands in any order.
THEOREM ImplementsLifecycle == Spec => Lifecycle
  <1>1. Init => Life!Init /\ ModelPhase
    BY DEF Init, Life!Init, ModelPhase, NoIntr
  <1>2. TypeOK /\ TypeOK' /\ TreeInv /\ TreeInv' /\ PauseInv /\ ModelPhase /\ [Next]_vars =>
          ModelPhase' /\ [Life!Next]_(Life!lifeVars)
    BY LifeStep DEF Life!lifeVars, Spending, Released, LifeSame
  <1> QED BY <1>1, <1>2, TypeCorrect, TreeHolds, PauseInvHolds, PTL DEF Spec, Lifecycle, Life!Spec

(***************************************************************************)
(* What follows for the run from the promises of RunLifecycle.             *)
(***************************************************************************)

\* None of the states a run ends in is PAUSED.
LEMMA PausedIsNotAnEnd == "paused" \notin TerminalStates
  BY DEF TerminalStates

LEMMA PausedIsHeldStep ==
  ASSUME Life!PausedIsHeld, [Life!Next]_(Life!lifeVars)
  PROVE  Life!PausedIsHeld'
  <1> DEFINE Goal == Life!PausedIsHeld'
  <1> SUFFICES Goal OBVIOUS
  <1>g. (run' = "paused" /\ ~cancelling' => requested') => Goal
    BY DEF Life!PausedIsHeld
  <1>p. run = "paused" /\ ~cancelling => requested
    BY DEF Life!PausedIsHeld
  <1> HIDE DEF Goal
  <1>1. ASSUME NEW a \in Agents, Life!Spend(a) PROVE Goal
    BY <1>1, <1>g, <1>p DEF Life!Spend
  <1>2. CASE Life!Move
    BY <1>2, <1>g DEF Life!Move
  <1>3. CASE Life!Land
    BY <1>3, <1>g DEF Life!Land, Life!Commanded
  <1>4. CASE Life!Stay
    BY <1>4, <1>g, <1>p DEF Life!Stay, Life!Commanded
  <1>5. CASE Life!End
    BY <1>5, <1>g, PausedIsNotAnEnd, LifeStates DEF Life!End
  <1>6. CASE Life!Ended
    BY <1>6, <1>g, PausedIsNotAnEnd, LifeStates DEF Life!Ended
  <1>7. CASE UNCHANGED Life!lifeVars
    BY <1>7, <1>g, <1>p DEF Life!lifeVars
  <1> QED BY <1>1, <1>2, <1>3, <1>4, <1>5, <1>6, <1>7 DEF Life!Next

\* The two promises about a pause, of one step.
LEMMA PauseIsFreeStep ==
  ASSUME Life!Next
  PROVE  Life!LandsFree /\ Life!HeldSpendsReleased
  <1>1. ASSUME NEW a \in Agents, Life!Spend(a) PROVE Life!LandsFree /\ Life!HeldSpendsReleased
    BY <1>1 DEF Life!Spend, Life!LandsFree, Life!HeldSpendsReleased
  <1>2. Life!Commanded /\ requested' => Spending' \subseteq Spending /\ Released' \subseteq Released
    BY DEF Life!Commanded, Spending, Released
  <1>3. ASSUME Life!Commanded \/ (UNCHANGED Spending /\ UNCHANGED Released)
        PROVE  Life!HeldSpendsReleased
    BY <1>2, <1>3 DEF Life!HeldSpendsReleased, Spending, Released
  <1>4. CASE Life!Move BY <1>3, <1>4 DEF Life!Move, Life!LandsFree
  <1>5. CASE Life!Land
    <2>1. ~cancelling' => ~cancelling BY <1>5 DEF Life!Land, Life!Commanded
    <2> QED BY <1>3, <1>5, <2>1 DEF Life!Land, Life!LandsFree
  <1>6. CASE Life!Stay BY <1>3, <1>6 DEF Life!Stay, Life!LandsFree
  <1>7. CASE Life!End BY <1>3, <1>7, PausedIsNotAnEnd, LifeStates DEF Life!End, Life!LandsFree
  <1>8. CASE Life!Ended BY <1>3, <1>8 DEF Life!Ended, Life!LandsFree
  <1> QED BY <1>1, <1>4, <1>5, <1>6, <1>7, <1>8 DEF Life!Next

\* PAUSED is reported only of a run that is held, and when it is declared nothing is being
\* spent; while a pause is in force only agents that the resume before it woke begin a
\* model call, each once (R-C-3, _settle_pause, QuiescenceTracker.release).
THEOREM PausedIsFree ==
  Spec => /\ []Life!PausedIsHeld
          /\ [][Life!LandsFree /\ Life!HeldSpendsReleased]_(Life!lifeVars)
  <1>1. Life!Init => Life!PausedIsHeld
    BY DEF Life!Init, Life!PausedIsHeld
  <1>2. Life!PausedIsHeld /\ [Life!Next]_(Life!lifeVars) => Life!PausedIsHeld'
    BY PausedIsHeldStep
  <1>3. Life!Spec => []Life!PausedIsHeld BY <1>1, <1>2, PTL DEF Life!Spec
  <1>4. [Life!Next]_(Life!lifeVars) =>
          [Life!LandsFree /\ Life!HeldSpendsReleased]_(Life!lifeVars)
    BY PauseIsFreeStep
  <1>5. Life!Spec => [][Life!LandsFree /\ Life!HeldSpendsReleased]_(Life!lifeVars)
    BY <1>4, PTL DEF Life!Spec
  <1> QED BY <1>3, <1>5, ImplementsLifecycle DEF Lifecycle

\* A run ends once: no command, and no agent, takes it out of a terminal state
\* (RunStateMachine.transition).
THEOREM EndsOnce ==
  Spec => [][(run \in TerminalStates) => (run' = run)]_(Life!lifeVars)
  <1>1. [Life!Next]_(Life!lifeVars) =>
          [(run \in TerminalStates) => (run' = run)]_(Life!lifeVars)
    <2> SUFFICES ASSUME Life!Next, run \in TerminalStates PROVE run' = run
      BY DEF Life!lifeVars
    <2>1. run # "paused" BY PausedIsNotAnEnd
    <2>2. \A s \in RunStates : Life!Reaches(run, s) => s = run
      BY LifeStates DEF Life!Reaches, Life!IsLegalTransition, LegalTransitions,
         TerminalStates, RunStates
    <2>3. CASE Life!Move BY <2>2, <2>3, LifeStates DEF Life!Move
    <2>4. CASE Life!Land
      <3>1. "paused" \in RunStates BY DEF RunStates
      <3> QED BY <2>1, <2>2, <2>4, <3>1 DEF Life!Land
    <2> QED BY <2>1, <2>3, <2>4, LifeStates
      DEF Life!Next, Life!Spend, Life!Stay, Life!End, Life!Ended
  <1>2. Life!Spec => [][(run \in TerminalStates) => (run' = run)]_(Life!lifeVars)
    BY <1>1, PTL DEF Life!Spec
  <1> QED BY <1>2, ImplementsLifecycle DEF Lifecycle
=============================================================================
