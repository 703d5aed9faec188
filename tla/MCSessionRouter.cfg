CONSTANTS
  r = r
  w = w
  NoFile = NoFile
  NoHistory = NoHistory
  Sessions = {r, w}
  Workers = {w}
  MaxPrompts = 2
  MaxCrashes = 1
  MaxStops = 1
  MaxPending <- Reordering
SPECIFICATION Spec
INVARIANTS
  TypeOK
  OneTurnPerSession
  RunningTurnIsCancellable
  RetiredSessionIsStopped
  NoTurnIsForgotten
  RememberedIsDurable
  ResidentHistoryIsValid
CHECK_DEADLOCK FALSE
