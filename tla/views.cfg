SPECIFICATION Spec
CONSTANTS
  k1 = k1
  k2 = k2
  c1 = c1
  c2 = c2
  Calls = {c1, c2}
  a1 = a1
  a2 = a2
  a3 = a3
  n = n
  AgentSeq <- AgentChain
  Node = n
  ParentOf <- Parents
  Stage = s
  Children = {k1, k2}
  Room = 1
  MaxMoves = 2
  MaxRows = 1
  MaxBlocks = 1
SYMMETRY Alike
CHECK_DEADLOCK FALSE
INVARIANTS
  CallsShown
  RunShown
