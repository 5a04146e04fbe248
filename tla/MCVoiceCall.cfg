CONSTANTS
  s1 = s1
  Session = {s1}
  HasConnector = TRUE
  MaxDeliver = 3
  ChannelCap = 1
  MaxTexts = 2
  MaxFaults = 2
  Nothing = Nothing
SPECIFICATION FairSpec
CHECK_DEADLOCK FALSE
INVARIANTS
  TypeOK
  NothingBeforeStart
  NoEchoWithoutRetry
  AnswersInOrder
  ConversationIsPaired
PROPERTIES
  TranscriptionIsAnswered
