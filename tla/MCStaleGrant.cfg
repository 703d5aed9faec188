CONSTANTS
  r = r
  g = g
  c = c
  Roots = {r, g}
  Goals = {g}
  Children = {}
  Used = {"ask", "elevate"}
  MaxDepth = 1
  MaxCalls = 2
  MaxTurns = 2
  MaxAnswers = 2
  MaxCancels = 0
SPECIFICATION Spec
INVARIANTS
  LiveGrantHasAWaiter
CHECK_DEADLOCK FALSE
