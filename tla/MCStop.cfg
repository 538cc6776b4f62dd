\* The deployed values, in ticks of five seconds: 15 s, 20 s and 30 s.
CONSTANTS
  Deliveries = {d1, d2, d3}
  None = none
  RequestTimeout = 3
  ShutdownTimeout = 4
  CloseTime = 1
  Grace = 6
SPECIFICATION Spec
INVARIANTS OneInterrupted StopSpares EndsInGrace
