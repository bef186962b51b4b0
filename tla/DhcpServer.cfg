CONSTANTS
  Clients = {c1, c2}
  Size = 3
  Host = 0
  Hash <- SameHash
  LeaseTime = 2
  None = None
  MaxSent = 2
SPECIFICATION Spec
SYMMETRY ClientSymmetry
INVARIANTS
  NoDuplicateAddress
  LeaseBacksUse
  RenewalIsGranted
