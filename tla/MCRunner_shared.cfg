CONSTANTS
  w1 = w1
  w2 = w2
  Worker = {w1, w2}
  NoFrame = NoFrame
  NumProcessors = 1
  Kinds = {"StartInterruption", "StopInterruption", "End", "OtherSystem", "Data"}
  MaxFrames = 3
  MaxExtras = 1
  CountModulus = 100
SPECIFICATION Spec
SYMMETRY Symmetry
INVARIANTS
  EveryFrameInOnePlace
  AtMostOneFrameAfterStop
