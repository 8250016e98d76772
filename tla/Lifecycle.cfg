\* One action gated on an executor that a person may take over, one for
\* everybody, two worker loops.
CONSTANTS
  a1 = a1
  a2 = a2
  w1 = w1
  w2 = w2
  Action = {a1, a2}
  Worker = {w1, w2}
  Gated = {a1}
  Lane = {a1}
  Asked = {a2}
  MaxAttempts = 2
  BatchSize = 1
  MaxPrepares = 1
SPECIFICATION LiveSpec
INVARIANTS
  TypeOK
  AttemptsAddUp
  SingleRunner
  RanAtMostOnce
  CancelledNeverSent
PROPERTIES
  OperatorHolds
  HandIsFinal
  LedgerNeverRefuses
  Settles
