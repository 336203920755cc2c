SPECIFICATION Spec
CONSTANTS
  Agents = {a, b}
  Paths = {p, q}
  MaxEntries = 1
  Shared = FALSE
  MaxWrites = 3
SYMMETRY Alike
PROPERTIES NoBlindWrite ApprovedIsDone
