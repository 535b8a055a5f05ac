---------------------------- MODULE MCGreedyDecode ----------------------------
\* Prompts of two instructions and two lengths of audio; the model answers a number of
\* tokens that is a property of the audio, each different for every audio and place.
EXTENDS GreedyDecode, AudioLengths

CONSTANTS MaxBatch, Stops

\* Ids: 0 and 9 end, 1 pads, 2 is audio, 3 .. 6 are text, and a speaker's n-th word is
Generated(who, n) == 1000 * who + n

Audios == {<<10>>, <<20, 21>>}
Prompt(head, audio) ==
  [ids |-> head \o [j \in DOMAIN audio |-> 2] \o <<6>>, audio |-> audio]
MCPrompts ==
  {Prompt(<<3, 4>>, a) : a \in Audios} \cup {Prompt(<<5>>, <<10>>), Prompt(<<3>>, <<>>)}

MCBatches == UNION {[1 .. n -> MCPrompts] : n \in 1 .. MaxBatch}

\* Who speaks: the first feature of the audio, or nobody.
MCNextToken(c) ==
  LET voices == {c[j] : j \in DOMAIN c} \cap {10, 20}
      who    == IF voices = {} THEN 5 ELSE CHOOSE v \in voices : TRUE
      said   == Cardinality({j \in DOMAIN c : c[j] >= 1000})
  IN IF said >= Stops[who] THEN 9 ELSE Generated(who, said + 1)

MCStops == [w \in {5, 10, 20} |-> IF w = 5 THEN 0 ELSE IF w = 10 THEN 1 ELSE 3]

On(device, paged, flash, packed, varlen, hybrid) ==
  [device |-> device, paged |-> paged, flash |-> flash, packed |-> packed,
   varlen |-> varlen, hybrid |-> hybrid]

CpuBuild   == On("cpu", FALSE, FALSE, FALSE, FALSE, FALSE)
MetalBuild == On("metal", FALSE, FALSE, FALSE, FALSE, TRUE)
MetalPaged == On("metal", TRUE, FALSE, FALSE, FALSE, FALSE)
CudaPacked == On("cuda", TRUE, TRUE, TRUE, TRUE, FALSE)

MCBuilds == {CpuBuild, MetalBuild, MetalPaged, CudaPacked}
MCRequestIds == 0 .. MaxBatch - 1
MCTokens == Nat

\* Where the lengths of recordings change what happens: an incomplete frame or chunk, one
\* short, exact and one over.
Recordings ==
  {Hop * f + s : f \in {0, 1, 8, 99, 100, 101}, s \in {0, 1, 159}}

\* Batches of at most MaxBatch recordings.
RecordingBatches == UNION {[1 .. n -> Recordings] : n \in 1 .. MaxBatch}

\* Whatever is recorded, and however its features are padded, a batch can be stacked, and
\* every row of it has a placeholder for each embedding the audio tower returns for it:
\* what the audio of a prompt is in this module is what the processor and the tower agree on.
PlaceholdersMatchAudio ==
  calls = 0 /\ pc = "idle" =>
    /\ \A wavs \in RecordingBatches :
         /\ \A mode \in Modes : BatchFits(<<3, AudioPad, 6>>, wavs, mode)
         /\ ModesAgree(wavs)
    /\ \A frames \in 0 .. 1001 :  \* up to two attention windows
         BatchFits(<<3, AudioPad, 6>>, <<Hop * frames>>, "feature")
================================================================================
