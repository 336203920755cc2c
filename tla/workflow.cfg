SPECIFICATION FairSpec
CONSTANTS
    s = s  p = p  f = f  x = x  y = y  g = g
    Leaves = {p, x, y, g}
    Fans = {f}
    Subgraphs = {s}
    Runner = Runner
    Declared <- MCDeclared
    Children <- MCChildren
    Graphs <- MCGraphs
    MaxFailures = 1
    MaxPauses = 2
    MaxCrashes = 1
INVARIANT InputsHold
INVARIANT PausedRunsNothing
PROPERTY KeptNotRerun
PROPERTY PauseLands
