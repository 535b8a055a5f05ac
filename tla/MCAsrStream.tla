----------------------------- MODULE MCAsrStream -----------------------------
(* Streams for AsrStream: four for the audio, five for the text. *)
EXTENDS AsrStream

Words   == {<<"whole">>}
Answers == {<<>>, <<"whole">>, <<"first">>, <<"second">>, <<"whole", "first">>,
            <<"first", "second">>, <<"second", "whole">>, <<"first", "whole">>,
            <<"whole", "bad">>, <<"whole", "whole", "whole">>, <<"whole", "first", "second">>}

Audio(chunk, window, segment) ==
  [chunk |-> chunk, window |-> window, segment |-> segment, keep |-> 0,
   unfixedChunks |-> 1, unfixedTokens |-> 1, answers |-> Words, levels |-> {0, 1}]

Text(keep, chunks, tokens) ==
  [chunk |-> 2, window |-> 0, segment |-> 0, keep |-> keep,
   unfixedChunks |-> chunks, unfixedTokens |-> tokens, answers |-> Answers, levels |-> {0}]

MCStreams == {Audio(2, 0, 2), Audio(3, 0, 2), Audio(2, 2, 2), Audio(3, 0, 0),
              Text(2, 1, 1), Text(2, 2, 1), Text(3, 2, 2), Text(0, 1, 1), Text(0, 2, 2)}
==============================================================================
