------------------------- MODULE MCInferenceScheduler --------------------------
\* A realtime task r1 and transcriptions t1, t2, each from a caller of its own.
EXTENDS InferenceScheduler

CONSTANTS r1, t1, t2

MCTasks    == {r1, t1, t2}
MCRealtime == {r1}
MCDrop     == {r1}
MCPanic    == {t1}
================================================================================
