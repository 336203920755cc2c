SPECIFICATION Spec
CONSTANTS
    s = s  p = p  f = f  x = x  y = y  g = g
    Leaves = {x, y, g}
    Fans = {f}
    Subgraphs = {}
    Runner = Runner
    Declared <- FlatDeclared
    Children <- FlatChildren
    Graphs <- FlatGraphs
    MaxFailures = 0
    MaxPauses = 0
    MaxCrashes = 1
INVARIANT BranchesReady
CHECK_DEADLOCK FALSE
