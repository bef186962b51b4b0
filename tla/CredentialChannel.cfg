CONSTANTS
  RefreshWindow = 1
  RetryInterval = 1
  MaxAttempts = 2
  RefreshEnabled = TRUE
  Accounts = {a, b}
  Mounts = 2
  MaxDelay = 1
  MaxLife = 3
  MaxNow = 2
  MaxWrites = 2
  None = None
  a = a
  b = b
SPECIFICATION MCSpec
SYMMETRY AccountSymmetry
INVARIANTS
  WakesInTime
  GivesUpOnlyAfterAttempts
  AccountInSync
  ServesWhatWasRead
PROPERTY PathSpec
