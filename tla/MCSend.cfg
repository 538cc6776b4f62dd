SPECIFICATION FairSpec
CONSTANTS
  Protocols = {"HTTP/1.1", "HTTP/2"}
  Statuses <- Fewer
  Codes <- Edges
  RetryAfters <- Asked
  Second = 100
  Modulus = 256
CHECK_DEADLOCK FALSE
INVARIANTS
  RetryAfterMarked
PROPERTIES
  CallIsOneTry
  SendReturns
