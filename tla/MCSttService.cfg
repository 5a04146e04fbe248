CONSTANTS
  s1 = s1
  Session = {s1}
  NoSession = NoSession
  MaxDeliver = 2
  MaxEvents = 3
  MaxTexts = 1
SPECIFICATION FairSpec
CHECK_DEADLOCK FALSE
INVARIANTS
  EstablishedIsConnected
  AckedAudioIsKept
  AudioInOrder
  EndLeavesNothing
PROPERTIES
  HandlerReturns
