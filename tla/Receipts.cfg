SPECIFICATION FairSpec
CONSTANTS
  e1 = e1
  e2 = e2
  Executor <- MCExecutor
  Careful <- MCCareful
  MaxToken = 2
  MaxMoment = 2
  MaxFiled = 2
INVARIANTS
  TypeOK
  LaterRunNeedsFailure
  ClaimTellsReports
  VerdictHasReport
  SuccessIsLearned
PROPERTIES
  GapIsReal
  ConfirmedStands
  Reconciled
CHECK_DEADLOCK FALSE
