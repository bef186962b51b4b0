CONSTANTS
  Subnets = {s1, s2}
  NatAddresses = {n1}
  None = None
  MaxCommands = 3
  MaxLeft = 1
  Folders = 2
  Pids = {p1, p2}
SPECIFICATION AnySpec
INVARIANTS
  CreateIsExact
  DeleteLeavesOrphans
  KeySurvives
  CaIsComplete
  SpeaksOnce
PROPERTY UpdatesSpec
SYMMETRY Symmetric
CHECK_DEADLOCK FALSE
