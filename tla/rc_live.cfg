SPECIFICATION FairSpec
CONSTANTS
  c1 = c1
  c2 = c2
  Main = main
  NoAgent = NoAgent
  Agents = {main, c1}
  MaxTurns <- Turns21
  MaxCalls = 2
  Plans <- PlansLive
  SafeKinds <- SafeKindsDefault
  InitialMode = "manual"
  Commands <- AllCommands
PROPERTIES PauseSettlesWhenCounted Terminates InterruptLands
