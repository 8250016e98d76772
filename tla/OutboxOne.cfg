SPECIFICATION LiveSpec
CONSTANTS
  e1 = e1
  e2 = e2
  p1 = p1
  p2 = p2
  w1 = w1
  w2 = w2
  Nobody = Nobody
  a1 = a1
  Action = {a1}
  ActionOf <- MCActionOf
  Notice = {}
  Event = {e1}
  Endpoint = {p1}
  Worker = {w1, w2}
  Subscribed <- MCSubscribed
  AuthEvent = {e1}
  Linked = {}
  MaxEventAttempts = 1
  MaxDeliveryAttempts = 2
  BatchSize = 1
  Concurrency = 1
INVARIANTS
  TypeOK
  SingleDispatcher
  AttemptLedgerComplete
  
  DeliveredWasReceived
  AuthHasDelivery
PROPERTIES
  
  
  Settles
