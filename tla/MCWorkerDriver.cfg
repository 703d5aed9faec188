SPECIFICATION FairSpec
CONSTANTS
  MaxWorkers = 2
  Cap = 1
  Ceiling <- Ceilings
  Sizes = {2}
  Yolo = {TRUE}
  MaxBacklog = 1
  MaxDisturbances = 1
  MaxRestarts = 1
INVARIANTS
  TypeOK
  AckedIsDurable
  GrantFollowsResidency
  OneTruthfulReport
PROPERTIES
  TerminalIsForever
  KeepsTheLedger
  QueuedWorkerStarts
CHECK_DEADLOCK FALSE
