SPECIFICATION FairStart
CONSTANTS
  A = A
  s1 = s1
  s2 = s2
  IDs = {d1, d2}
  Releases = {1, 2, 3}
  Bots = {A}
  Secrets = {s1, s2}
  Files <- Operator
  Unlimited = 40
INVARIANTS
  VersionIsTrue
  AlwaysOpens
  AllAliased
  Reachable
PROPERTIES
  UpdatesFlow
