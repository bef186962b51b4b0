CONSTANTS
  Ports = {1, 2, 3, 4, 5, 6}
  Clients = {c1, c2}
  None = None
  MaxSwaps = 3
SPECIFICATION Spec
INVARIANTS
  NothingCutByStop
PROPERTIES
  ConnectionsSpec
  SwapEnds
