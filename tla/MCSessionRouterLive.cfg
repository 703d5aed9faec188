CONSTANTS
  r = r
  w = w
  NoFile = NoFile
  NoHistory = NoHistory
  Sessions = {r}
  Workers = {}
  MaxPrompts = 3
  MaxCrashes = 1
  MaxStops = 1
  MaxPending <- OneAtATime
SPECIFICATION FairSpec
INVARIANTS
  CancelledPromptIsAnswered
PROPERTIES
  ServesInOrder
  SlotComesBack
CHECK_DEADLOCK FALSE
