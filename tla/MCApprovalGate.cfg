CONSTANTS
  r = r
  g = g
  c = c
  Roots = {r, g}
  Goals = {r, g}
  Children = {}
  Used = {"ask", "elevate"}
  MaxDepth = 1
  MaxCalls = 2
  MaxTurns = 2
  MaxAnswers = 2
  MaxCancels = 0
SYMMETRY RootSymmetry
SPECIFICATION Spec
INVARIANTS
  TypeOK
  GuardedRunHasAGrant
  CallRunsAtMostOnce
  EndedTurnLeavesNoGrant
CHECK_DEADLOCK FALSE
