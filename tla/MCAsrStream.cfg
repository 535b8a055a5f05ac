SPECIFICATION Spec
CONSTANTS
  Hop = 2
  HalfWindow = 3
  MaxSamples = 10
  MaxPush = 3
  Streams <- MCStreams
INVARIANTS
  SamplesOnceInOrder
  AudioIsFresh
  SplitKeepsText
  FinalAnswerCurrent
PROPERTIES
  TextIsStable
CHECK_DEADLOCK FALSE
