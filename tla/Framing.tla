------------------------------ MODULE Framing -------------------------------
(***************************************************************************)
(* How a byte stream becomes frames (consumeFrames in stdio-bridge.ts).     *)
(* A byte is "x", CR, LF, or one of the three bytes w1 w2 w3 of a wide      *)
(* character; a character is "x", CR, LF or "wide".  The stream may end     *)
(* within a wide character.  A frame is a sequence of characters or         *)
(* Oversized, the stand-in the session refuses for its length.              *)
(***************************************************************************)
EXTENDS Lists, Integers

CONSTANTS
  FrameLimit,  \* maxFrameBytes
  Oversized    \* the stand-in for a frame beyond the limit

CR == "cr"
LF == "lf"

Bytes(text) == Len(text) + 2 * Cardinality({i \in DOMAIN text : text[i] = "wide"})

-----------------------------------------------------------------------------
(* The decoder keeps an incomplete character for the next chunk, and gives  *)
(* a replacement character for one the stream ends in.                      *)

Decoded(chunk) ==
  LET kept == Only(chunk, ToSet(chunk) \ {"w1", "w2"})
  IN  [i \in DOMAIN kept |-> IF kept[i] = "w3" THEN "wide" ELSE kept[i]]

Remaining(chunks) ==
  LET stream == FlattenSeq(chunks)
  IN  IF stream # <<>> /\ Last(stream) \in {"w1", "w2"} THEN <<"wide">> ELSE <<>>

\* The pieces of a text between its line ends; the last one is not ended.
Fragments(text) ==
  FoldLeft(LAMBDA pieces, c :
             IF c = LF
             THEN Append([pieces EXCEPT ![Len(pieces)].ended = TRUE],
                         [text |-> <<>>, ended |-> FALSE])
             ELSE [pieces EXCEPT ![Len(pieces)].text = Append(@, c)],
           <<[text |-> <<>>, ended |-> FALSE]>>, text)

-----------------------------------------------------------------------------
(* The reader: [buffer, discarding] and the frames it has handed over.      *)

WithoutCR(line) == IF line # <<>> /\ Last(line) = CR THEN Front(line) ELSE line

\* Mutant: the rest of a frame beyond the limit is taken for the next frame.
ConsumeFragment_KeepsRest(reader, fragment) ==
  LET buffer == reader.buffer \o fragment.text
      hand(frame) == [buffer |-> <<>>, discarding |-> FALSE, frames |-> Append(reader.frames, frame)]
  IN  IF Bytes(buffer) > FrameLimit THEN hand(Oversized)
      ELSE IF fragment.ended THEN hand(WithoutCR(buffer))
      ELSE [reader EXCEPT !.buffer = buffer]

ConsumeFragment(reader, fragment) ==
  LET buffer == reader.buffer \o fragment.text
      hand(frame, rest, discard) ==
        [buffer |-> rest, discarding |-> discard, frames |-> Append(reader.frames, frame)]
  IN  IF reader.discarding
      THEN [reader EXCEPT !.discarding = ~fragment.ended]
      ELSE IF Bytes(buffer) > FrameLimit THEN hand(Oversized, <<>>, ~fragment.ended)
      ELSE IF fragment.ended THEN hand(WithoutCR(buffer), <<>>, FALSE)
      ELSE [reader EXCEPT !.buffer = buffer]

ConsumeText(reader, text) == FoldLeft(ConsumeFragment, reader, Fragments(text))

ConsumeFrames(chunks) ==
  LET texts == [i \in DOMAIN chunks |-> Decoded(chunks[i])] \o <<Remaining(chunks)>>
      reader == FoldLeft(ConsumeText,
                         [buffer |-> <<>>, discarding |-> FALSE, frames |-> <<>>], texts)
  IN  IF ~reader.discarding /\ reader.buffer # <<>>
      THEN Append(reader.frames, WithoutCR(reader.buffer))
      ELSE reader.frames
=============================================================================
