CONSTANTS
  s1 = s1
  Session = {s1}
  NoFrame = NoFrame
  Kinds = {"StartInterruption", "Transcription"}
  Decodable = {}
  ChannelCap = 2
  HasConnector = TRUE
  MaxPublished = 2
SPECIFICATION FairSpec
CHECK_DEADLOCK FALSE
PROPERTY
  FrameReachesHandler
