CONSTANTS
  s1 = s1
  Session = {s1}
  NoFrame = NoFrame
  Kinds = {"StartInterruption", "StopInterruption", "End", "Transcription"}
  Decodable = {"StartInterruption", "StopInterruption", "End", "OtherSystem", "Transcription", "OtherData"}
  ChannelCap = 1
  HasConnector = TRUE
  MaxPublished = 3
SPECIFICATION FairSpec
CHECK_DEADLOCK FALSE
INVARIANTS
  TypeOK
  InterruptedIsNotAnswered
  ConversationInOrder
  AnswersDoNotInterleave
PROPERTIES
  OnlyWedgeHoldsSystemFrames
  TranscriptionIsServed
