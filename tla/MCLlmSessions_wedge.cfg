CONSTANTS
  s1 = s1
  Session = {s1}
  NoFrame = NoFrame
  Kinds = {"StartInterruption", "StopInterruption", "Transcription"}
  Decodable = {"StartInterruption", "StopInterruption", "End", "OtherSystem", "Transcription", "OtherData"}
  ChannelCap = 1
  HasConnector = TRUE
  MaxPublished = 4
SPECIFICATION FairSpec
CHECK_DEADLOCK FALSE
PROPERTY
  SystemFrameIsHandled
