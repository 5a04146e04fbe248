CONSTANTS
  w = w
  Worker = {w}
  Executor = w
  NoFrame = NoFrame
  NumProcessors = 2
  Kinds = {"StartInterruption", "StopInterruption", "End", "Control", "Data"}
  MaxFrames = 4
  MaxExtras = 1
  CountModulus = 4
SPECIFICATION FairRunSpec
INVARIANTS
  NoStaleFrame
  InterruptionOutbids
PROPERTIES
  ActsAtomically
  StopEndsRun
  QueueDrainsOncePushesEnd
