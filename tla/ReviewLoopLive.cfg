SPECIFICATION FairSpec
CONSTANTS
  p1 = p1
  p2 = p2
  old = old
  good = good
  weak = weak
  Procs = {p1, p2}
  Trees = {old, good, weak}
  Start = old
  Passing = {good}
  Acceptable = {good, weak}
  MaxRound = 2
  MaxTurns = 3
  MaxFaults = 2
  MaxInterference = 0
  MaxCommits = 4
PROPERTY ApprovedIsDelivered
CHECK_DEADLOCK FALSE
