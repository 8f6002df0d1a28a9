SPECIFICATION Spec
CONSTANTS
  p1 = p1
  p2 = p2
  a1 = a1
  a2 = a2
  a3 = a3
  br = br
  Procs <- MCProcs
  Archives <- MCArchives
  Flaw <- MCFlaw
  BranchOf <- MCBranchOf
  Branches = {br}
  Files = {"f"}
  MaxVersion = 1
  MaxTrouble = 1
  MaxCalls = 2
SYMMETRY MCSymmetry
INVARIANTS
  InboxInv
  ReadyOwnsItsBranch
  SkipsOnlyDecided
PROPERTIES
  KeepsForeignBranch
CHECK_DEADLOCK FALSE
