SPECIFICATION FairSpec
CONSTANTS
  a = a
  b = b
  x = x
  y = y
  w1 = w1
  w2 = w2
  None = None
  IDs = {a}
  Contents = {x, y}
  Routable = {x}
  Workers = {w1, w2}
  Requests <- Single
  Legacy <- NoLegacy
  Lease = 1
  MaxRetryAfter = 0
  MaxCalls = 2
PROPERTIES
  GateIsServed
  ClaimsEnd
