SPECIFICATION Spec
CONSTANTS
  a = a
  b = b
  x = x
  y = y
  w1 = w1
  w2 = w2
  None = None
  IDs = {a, b}
  Contents = {x, y}
  Routable = {x}
  Workers = {w1, w2}
  Requests <- Pair
  Legacy <- NoLegacy
  Lease = 1
  MaxRetryAfter = 1
  MaxCalls = 3
SYMMETRY SwapIDs
INVARIANTS
  PersistAccepted
PROPERTIES
  CooldownRespected
