SPECIFICATION Spec
CONSTANTS
  Attempts = 2
  Opens = 2
  Slots = {0, 1}
  Retained = 2
  MaxChunks = 3
INVARIANTS ResultIsWhatWasSent CallPaneShowsCall
PROPERTY PaidOnce
