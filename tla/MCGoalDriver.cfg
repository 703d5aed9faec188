SPECIFICATION FairSpec
CONSTANTS
  MaxSteps = 2
  MaxBatches = 2
  MaxBacklog = 2
  MaxIncidents = 2
  MaxLags = 1
  MaxRestarts = 1
PROPERTIES
  HoldsForItsBatches
  FinishedStaysFinished
  GoalSettles
CHECK_DEADLOCK FALSE
