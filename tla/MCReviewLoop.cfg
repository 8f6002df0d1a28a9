SPECIFICATION Spec
CONSTANTS
  p1 = p1
  p2 = p2
  old = old
  good = good
  weak = weak
  Procs = {p1, p2}
  Trees = {old, good, weak}
  Start = old
  Passing = {good, weak}
  Acceptable = {good}
  MaxRound = 3
  MaxTurns = 2
  MaxFaults = 1
  MaxInterference = 1
  MaxCommits = 3
SYMMETRY ProcSymmetry
INVARIANTS
  LoopInv
  PublishedWasReviewed
  NoTurnAfterLost
PROPERTIES
  VerdictStands
  KeepsChain
CHECK_DEADLOCK FALSE
