CONSTANTS
  e = e
  g = g
  Event = {e, g}
  Garbage = {g}
  MaxDeliver = 3
  Prefetch = 2
  Nothing = Nothing
  MaxFaults = 1
  s1 = s1
  s2 = s2
  Session = {s1, s2}
  empty = empty
  hello = hello
  Content = {empty, hello}
  Default = empty
  Missing = Missing
SPECIFICATION FairSpec
CHECK_DEADLOCK FALSE
INVARIANTS
  NothingGivenUpUnseen
PROPERTIES
  KeepsPromise
  FirstAttemptsInOrder
  AcceptedIsSettled
