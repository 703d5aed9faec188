CONSTANTS
  v0 = v0
  bad = bad
  good = good
  None = None
  Torn = Torn
  Versions = {v0, bad, good}
  FirstVersion = v0
  Broken = {bad}
  CrashLoops = {v0, bad, good}
  MaxRequests = 2
  MaxPowerLoss = 1
SPECIFICATION FairSpec
INVARIANTS
  Recoverable
  ConfirmedTargetRan
  OneProbationPerConfirm
PROPERTIES
  BackupIsProven
  RequestIsSettled
CHECK_DEADLOCK FALSE
