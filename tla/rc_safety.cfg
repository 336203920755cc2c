SPECIFICATION Spec
CONSTANTS
  c1 = c1
  c2 = c2
  Main = main
  NoAgent = NoAgent
  Agents = {main, c1, c2}
  MaxTurns <- Turns21
  MaxCalls = 2
  Plans <- PlansAll
  SafeKinds <- SafeKindsDefault
  InitialMode = "manual"
  Commands <- AllCommands
SYMMETRY Subagents
INVARIANTS
  TypeOK
  NoLostWakeup
  PausedOnRequest
  NoOrphan
  TerminalIsQuiet
PROPERTY Lifecycle
