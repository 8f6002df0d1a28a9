SPECIFICATION Spec
CONSTANTS
  p1 = p1
  p2 = p2
  None = None
  Procs = {p1, p2}
  MaxRetry = 1
  Budgets = {2, 6}
  MaxReviews = 4
  MaxStarts = 2
  MaxFaults = 2
SYMMETRY ProcSymmetry
INVARIANTS JobInv VerdictsHonest
PROPERTY JobStands
CHECK_DEADLOCK FALSE
