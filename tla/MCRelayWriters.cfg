SPECIFICATION WSpec
CONSTANTS
  Procs = {p1, p2, p3}
  MaxTicket = 4
  Free = Free
SYMMETRY ProcSymmetry
INVARIANTS
  WriterInv
  MutexUnlessOvertaken
CHECK_DEADLOCK FALSE
