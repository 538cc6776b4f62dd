SPECIFICATION Spec
CONSTANTS
  a = a
  b = b
  x = x
  y = y
  w1 = w1
  w2 = w2
  None = None
  IDs = {a, b}
  Contents = {x, y}
  Routable = {x}
  Workers = {w1, w2}
  Requests <- Crossed
  Legacy <- OldRow
  Lease = 1
  MaxRetryAfter = 1
  MaxCalls = 2
SYMMETRY Swap
INVARIANTS
  AnswersAgree
  OneRecordPerDelivery
  AliasesSound
PROPERTIES
  InspectedConflictsAreReal
  ReplayNeverClaims
  DeliversAtMostOnce
