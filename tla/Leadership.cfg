\* Three processes and one deployment; all of them may end.
SPECIFICATION LiveSpec
CONSTANTS
  Worker = {w1, w2, w3}
  Nobody = Nobody
INVARIANTS
  TypeOK
  OverlapNeedsLapse
PROPERTIES
  Succession
CHECK_DEADLOCK FALSE
