\* One of the tasks may panic.
CONSTANTS
  r1 = r1
  t1 = t1
  t2 = t2
  Tasks <- MCTasks
  Realtime <- MCRealtime
  MayDrop <- MCDrop
  MayPanic <- MCPanic
SPECIFICATION FairSpec
INVARIANTS
  SubmissionOrder
  NoLostWakeup
PROPERTIES
  RealtimeFirst
  ReturnsWhileWorkerLives
\* A dead worker leaves its callers waiting.
CHECK_DEADLOCK FALSE
