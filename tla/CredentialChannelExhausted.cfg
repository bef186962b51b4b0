CONSTANTS
  RefreshWindow = 1
  RetryInterval = 2
  MaxAttempts = 2
  RefreshEnabled = TRUE
  Accounts = {"a"}
  Mounts = 1
  MaxDelay = 100
  MaxLife = 3
  MaxNow = 6
  MaxWrites = 1
  None = None
SPECIFICATION Spec
INVARIANT ExhaustedOnlyWhenDue
