SPECIFICATION FairSpec
CONSTANTS
  MaxCommits = 2
  NoCommit = NoCommit
  MaxPulls = 2
  MaxFaults = 3
  MaxInterference = 3
INVARIANTS
  OnlyApprovedLeaves
  OneRequest
  SealedAsPublished
PROPERTIES
  BranchNeverOverwritten
  KeepsPromise
  Delivered
CHECK_DEADLOCK FALSE
