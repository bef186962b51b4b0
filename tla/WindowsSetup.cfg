CONSTANTS
  PreSteps = 2
  PostSteps = 1
  DrainTimeout = 4
  CleanupBudget = 10
  DisposeTimeout = 3
  ExitDeadline = 15
  MaxTime = 15
  None = None
SPECIFICATION Spec
CHECK_DEADLOCK FALSE
INVARIANTS
  EndingFits
  LedgerIsTrue
  SuccessIsComplete
  NothingLeftRunning
PROPERTIES
  IsolationIsGated
  CtrlCIsAnswered
