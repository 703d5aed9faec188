SPECIFICATION FairSpec
CONSTANTS
  MaxSteps = 2
  MaxBatches = 1
  MaxBacklog = 2
  MaxIncidents = 1
  MaxLags = 0
  MaxRestarts = 1
PROPERTIES
  ConductorRegainsControl
CHECK_DEADLOCK FALSE
