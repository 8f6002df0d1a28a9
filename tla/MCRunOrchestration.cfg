SPECIFICATION OSpec
CONSTANTS
  NoTime = NoTime
  NoAttempt = NoAttempt
  NoPack = NoPack
  Packs = {p1, p2}
  MaxRound = 2
  Kinds <- MCKinds
  Requests <- MCRequests
  MaxAttempts = 2
  MaxTotal = 8
  MaxElapsed = 1
  MaxTurns = 1
  MaxFailures = 2
  RetryDelays = {1}
  CircuitOpenFor = 1
  Usages = {0}
  MaxTime = 1
SYMMETRY PackSymmetry
INVARIANTS
  RunInv
PROPERTIES
  EffectsOnRecord
  WorkKept
  FollowsLifecycle
  KeepsLedger
CHECK_DEADLOCK FALSE
