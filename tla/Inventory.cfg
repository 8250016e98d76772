SPECIFICATION Spec
CONSTANTS
  s1 = s1
  s2 = s2
  o1 = o1
  o2 = o2
  c1 = c1
  k1 = k1
  m1 = m1
  p1 = p1
  p2 = p2
  Sku <- MCSku
  ByName <- MCByName
  ById <- MCById
  Unlimited = {s2}
  Session <- MCSession
  Order <- MCOrder
  Wants <- MCWants
  Campaign = {c1}
  Prize <- MCPrize
  Count = {k1}
  Target <- MCTarget
  Change = {m1}
  Move <- MCMove
INVARIANTS
  TypeOK
  PaidOnce
  ShortageAccounted
  PrizesBalance
  SortedRequestsNeverCircle
SYMMETRY MCSymmetry
CHECK_DEADLOCK FALSE
