-------------------------- MODULE MCContinuousBatch ---------------------------
\* Every batch of up to MaxBatch clients with the given prompt lengths and answers,
\* and batches of one client more with the short prompts only.
EXTENDS ContinuousBatch

CONSTANTS MaxBatch, Prompts, ShortPrompts, Stops, ShortStops

BatchesOf(n, prompts, stops) == [1 .. n -> [len : prompts, stop : stops]]

MCBatches ==
  UNION {BatchesOf(n, Prompts, Stops) : n \in 1 .. MaxBatch}
    \cup BatchesOf(MaxBatch + 1, ShortPrompts, ShortStops)

MCRequestIds == 0 .. MaxBatch
================================================================================
