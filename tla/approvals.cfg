SPECIFICATION FairSpec
CONSTANTS
  a = a  c = c  r1 = r1  None = None
  Calls <- MCCalls
  Subagents = {}
  Saved = {r1}
  Key <- MCKey
  MaxSwitches = 1
INVARIANTS AnsweredForItself CarriedOnce
PROPERTY RequestsSettle
