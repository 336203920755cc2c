SPECIFICATION FairSpec
CONSTANTS
  c1 = c1
  Main = main
  Agents = {main, c1}
  Kids <- OneKid
  MaxTurns <- Turns12
  Plans <- PlansTail
  Commands <- AllCommands
  MaxInputs = 1
  MaxCrashes = 1
INVARIANTS
  ConversationsHold
  AnswersHold
  InjectionKept
  OneApproval
PROPERTIES FreshChild DiskAdvances Finishes
