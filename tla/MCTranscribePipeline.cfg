CONSTANTS
  Calls <- MCCalls
  Buffer = 2
  MaxSegments = 3
  Failing = {"loader", "vad", "recognizer"}
SPECIFICATION FairSpec
INVARIANTS
  EveryInputAnswered
  OkIsWhole
PROPERTIES
  CallReturns
\* The call has returned.
CHECK_DEADLOCK FALSE
