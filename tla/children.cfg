SPECIFICATION Spec
CONSTANTS
    s1 = s1  auto = auto  other = other
    Node = Node
    SessionPath = auto
    Saves = {s1}
    PathOf <- MCPathOf
    MaxKids = 2
    MaxPauses = 1
    MaxCuts = 1
    MaxCrashes = 1
CHECK_DEADLOCK FALSE
INVARIANT Structured
INVARIANT SaveKeepsWord
INVARIANT IdsNotReused
