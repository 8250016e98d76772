\* One action whose executor does not come back, and room in the batch.
CONSTANTS
  a1 = a1
  a2 = a2
  w1 = w1
  w2 = w2
  Action = {a1}
  Worker = {w1}
  Gated = {a1}
  Lane = {}
  Asked = {}
  MaxAttempts = 2
  BatchSize = 2
  MaxPrepares = 1
SPECIFICATION FairSpec
PROPERTIES
  PassedOverIsReaped
