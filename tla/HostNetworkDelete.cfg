CONSTANTS
  Subnets = {s1, s2}
  NatAddresses = {n1}
  None = None
  MaxCommands = 3
  MaxLeft = 1
SPECIFICATION NetworkSpec
INVARIANT DeleteLeavesNoRule
CHECK_DEADLOCK FALSE
