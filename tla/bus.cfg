SPECIFICATION FairSpec
CONSTANTS
  p1 = p1
  p2 = p2
  tui = tui
  recorder = recorder
  Publishers = {p1, p2}
  Subs = {tui, recorder}
  Room <- Narrow
  Early <- RecorderFirst
  Screens = {tui}
  DeltaKinds <- TextOnly
  MaxEvents = 3
INVARIANTS LifecycleDelivered StreamHolds
PROPERTIES PublishersGetOn
