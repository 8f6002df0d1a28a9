SPECIFICATION Spec
CONSTANTS
  NoTime = NoTime
  NoAttempt = NoAttempt
  Kinds = {"EXECUTE_REGISTERED_PACK", "WAIT_WEB_VERDICT"}
  Requests = {r1, r2}
  MaxAttempts = 3
  MaxTotal = 4
  MaxElapsed = 5
  MaxTurns = 1
  MaxFailures = 2
  RetryDelays = {1, 2}
  CircuitOpenFor = 2
  Usages = {0, 1, 2}
  MaxTime = 6
SYMMETRY RequestSymmetry
INVARIANTS
  LedgerInv
  WritesAccepted
  ResumeAcceptedWhileWaiting
PROPERTIES
  RetriesRespectBackoff
  CondemnedStartsNothing
CHECK_DEADLOCK FALSE
