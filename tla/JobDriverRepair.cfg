SPECIFICATION Spec
CONSTANTS
  p1 = p1
  None = None
  Procs = {p1}
  MaxRetry = 1
  Budgets = {2, 6}
  MaxReviews = 4
  MaxStarts = 1
  MaxFaults = 0
INVARIANT RepairResumes
CHECK_DEADLOCK FALSE
