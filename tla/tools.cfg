SPECIFICATION FairSpec
CONSTANTS
  Agents = {a}
  Turns <- ManyTurns
  MaxParallel = 2
  Limit = 2
  Retries = 1
  Shared = FALSE
INVARIANTS ResultsHold EffectsInTurn StepEndsClean
PROPERTY TurnEnds
