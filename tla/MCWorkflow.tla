----------------------------- MODULE MCWorkflow -----------------------------
EXTENDS WorkflowProps

CONSTANTS s, p, f, x, y, g

MCDeclared == <<g, s>>
MCChildren == [c \in {s, f} |-> IF c = s THEN <<p, f>> ELSE <<x, y>>]

Wiring(forG, forS) == [n \in {s, p, f, x, y, g} |->
    CASE n = g -> forG [] n = s -> forS [] n = f -> {p} [] OTHER -> {}]

\* g reads the subgraph's output, or a branch of the fan-out in it; or s reads
\* g. The last two are cycles that compile() refuses.
MCGraphs ==
    {[wiring |-> Wiring({s}, {}), policy |-> "fail", limit |-> 0],
     [wiring |-> Wiring({x}, {}), policy |-> "continue", limit |-> 0],
     [wiring |-> Wiring({}, {g}), policy |-> "fail", limit |-> 1],
     [wiring |-> Wiring({s}, {g}), policy |-> "fail", limit |-> 0],
     [wiring |-> Wiring({}, {x}), policy |-> "fail", limit |-> 0]}

\* A fan-out at the top and a node that reads one of its branches.
FlatDeclared == <<f, g>>
FlatChildren == [c \in {f} |-> <<x, y>>]
FlatGraphs ==
    {[wiring |-> [n \in {f, x, y, g} |-> IF n = g THEN {x} ELSE {}],
      policy |-> "fail", limit |-> 0]}
=============================================================================
