CONSTANTS
  c1 = c1
  c2 = c2
  c3 = c3
  Client = {c1, c2, c3}
  Shard <- OneShard
  Workers = 2
  MaxSessions = 2
  MaxCalls = 5
SPECIFICATION FairSpec
CHECK_DEADLOCK FALSE
INVARIANTS
  MapsAgree
  EndedStaysEnded
  NothingRunsUnlisted
PROPERTIES
  CallReturns
