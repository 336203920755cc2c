------------------------------ MODULE ToolsProps ------------------------------
(* What the tool calls of a turn promise, in Tools. *)
EXTENDS Tools

\* When a step is over, the result of every call in the transcript is the one its last
\* event told: what finished before an interrupt keeps its real result, the rest is
\* cancelled, in call order whoever finished first (R-C-4, dispatch(), _tool_step()).
ScreenAgrees ==
  \A a \in Agents : at[a] = "over" =>
    /\ Len(message[a]) = Len(turn[a])
    /\ \A i \in Index(a) :
         LET told == heard[<<a, i>>] IN
         /\ told # <<>>
         /\ told[Len(told)] = CASE message[a][i] = "ok" -> "completed"
                                [] message[a][i] = "cancelled" -> "cancelled"
                                [] OTHER -> "failed"
         /\ calls[a][i].phase = "done" => Len(told) = 1

\* A call begins when the calls before it that it may not run with are over, and their
\* command with them: an edit separates the reads around it (delta 6).
OneAtATime ==
  \A a \in Agents : \A i, j \in Index(a) :
    i < j /\ ~SameRun(a, i, j) /\ calls[a][j].phase # "waiting" =>
      \/ calls[a][i].phase = "done" /\ tree[<<a, i>>].root # "alive"
      \/ calls[a][i].phase = "cut"

\* Changing the world is asked about and done once: not retried (R-T-4) unless the tool
\* overrides that by name and is no command, then as often as it declares; not done at all
\* when the answer or a check before it was no.
EffectOnce ==
  \A a \in Agents : \A i \in Index(a) :
    /\ Tool(a, i) \in {"edit", "shell"} => calls[a][i].runs <= 1
    /\ calls[a][i].runs <= 1 + Retries
    /\ calls[a][i].outcome \in {"denied", "invalid"} => calls[a][i].runs = 0

\* No more calls of a run of several are under way than ToolDispatcher.max_parallel.
InParallel ==
  \A a \in Agents :
    Cardinality({i \in Index(a) : Batched(a, i) /\ calls[a][i].phase \in InCall}) <= MaxParallel

\* What a call does to the world it does in its turn, in a bounded crowd, and as often as
\* its tool may.
EffectsInTurn == OneAtATime /\ EffectOnce /\ InParallel

\* What the results of a turn that go to the model take of its budget: good results and
\* failures alike; the notes for elided results and the fills of an interrupt are lines.
SumTo(sizes, n) ==
  LET upto[i \in 0..n] == IF i = 0 THEN 0 ELSE upto[i - 1] + sizes[i] IN upto[n]
Returned(a) ==
  [i \in Index(a) |-> IF i \in DOMAIN kept[a] THEN calls[a][i].size ELSE 0]

\* The results of a turn that go to the model fit its budget together, in whatever order
\* the calls came back (delta 8, TurnBudget).
WithinBudget == \A a \in Agents : SumTo(Returned(a), Len(turn[a])) <= Limit

\* What a turn gives back: to the person the result of every call, to the model as much
\* of them as fits.
ResultsHold == ScreenAgrees /\ WithinBudget

\* A killing of a command leaves none of its processes (kill_tree()), with three exceptions
\* the code has: it was itself cut short; the command was gone before it; or the command
\* went with SIGTERM and a descendant ignores that signal, which no SIGKILL follows.
KilledWhole(t) ==
  CASE t.kill = "aborted" -> TRUE
    [] t.kill = "eased" -> t.root # "alive" /\ (t.leaf = "alive" => "leaf" \in t.stubborn)
    [] t.kill = "killed" -> t.root # "alive" /\ t.leaf # "alive"
    [] OTHER -> t.root # "alive"
\* Once a step is declared finished the commands its calls started are gone (the drain in
\* _tool_step()), and what they started in turn as far as a killing reaches; of a command
\* that ended by itself nobody kills the descendants.
StepEndsClean ==
  \A a \in Agents : at[a] = "over" => \A i \in Index(a) : KilledWhole(tree[<<a, i>>])

\* A turn ends, or waits for the person who was asked.
TurnEnds ==
  \A a \in Agents : []<>(at[a] \in {"over", "gone"} \/ \E i \in Index(a) : calls[a][i].phase = "asking")
===============================================================================
