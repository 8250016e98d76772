\* One device of one fan.
SPECIFICATION FairSpec
CONSTANTS
  Device = {d1}
  MaxAttempts = 2
  MaxAsked = 1
INVARIANTS
  TypeOK
  DeliveredWasShown
  NoBlindResend
PROPERTIES
  PushKeepsPromise
  RowsEnd
CHECK_DEADLOCK FALSE
