SPECIFICATION FairSpec
CONSTANTS
  Procs = {p1, p2, p3}
  MaxTicket = 3
  Free = Free
CHECK_DEADLOCK FALSE
PROPERTY
  EverySeekerAnswered
