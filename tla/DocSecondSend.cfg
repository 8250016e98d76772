\* One ask that was emitted and not yet fanned out.
CONSTANTS
  a1 = a1
  a2 = a2
  w1 = w1
  w2 = w2
  Action = {a1}
  Worker = {w1}
  Gated = {a1}
  Lane = {a1}
  Asked = {}
  MaxAttempts = 2
  BatchSize = 1
  MaxPrepares = 1
SPECIFICATION Spec
INVARIANTS
  NeverSecondSend
