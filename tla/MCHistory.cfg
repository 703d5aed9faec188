CONSTANTS
  MaxLines = 4
  MaxTurns = 4
  Budgets = {6, 12}
SPECIFICATION Spec
INVARIANTS
  RepairRestoresValidity
  RepairLeavesCleanFiles
  RepairKeepsContent
  TrimmedWindowIsUsable
  DroppedCountIsHonest
CHECK_DEADLOCK FALSE
