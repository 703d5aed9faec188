CONSTANTS
  r = r
  g = g
  c = c
  Roots = {r}
  Goals = {}
  Children = {c}
  Used = {"allow", "ask", "spawn"}
  MaxDepth = 1
  MaxCalls = 2
  MaxTurns = 1
  MaxAnswers = 1
  MaxCancels = 1
SPECIFICATION FairSpec
INVARIANTS
  ToldTheTruth
PROPERTIES
  WaitEnds
CHECK_DEADLOCK FALSE
