SPECIFICATION FairSpec
CONSTANTS
  NumOps = 2
  Strategies = {"web", "model"}
  MaxGenerations = 3
  MaxEdits = 2
INVARIANTS
  ExecutorInv
  PublishedIsVerified
PROPERTIES
  ReadyIsExact
  OverwritesOnlyUnseen
  RunsEnd
CHECK_DEADLOCK FALSE
