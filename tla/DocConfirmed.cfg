SPECIFICATION Spec
CONSTANTS
  e1 = e1
  e2 = e2
  Executor <- MCExecutor
  Careful <- MCCareful
  MaxToken = 1
  MaxMoment = 2
  MaxFiled = 2
PROPERTY ConfirmedNeverFails
CHECK_DEADLOCK FALSE
