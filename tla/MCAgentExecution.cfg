SPECIFICATION Spec
CONSTANTS
  None = None
  Trees <- MCTrees
  Base = "base"
  Within <- MCWithin
  Passing <- MCPassing
  MaxIterations = 2
  MaxReviews = 2
  MaxTurns = 5
  MaxTrouble = 1
INVARIANTS ExecutionInv ReadyIsEarned
PROPERTIES SettledStands
