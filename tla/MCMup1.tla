------------------------------- MODULE MCMup1 -------------------------------
(* Mup1 with a few frames whose payloads hold the special bytes.           *)
EXTENDS Mup1, SequencesExt

F(type, data) == [type |-> type, data |-> data]

\* Odd and even sizes, each special byte, an announcement.
MCFrames == {F(67, <<>>), F(65, <<SOF>>), F(67, <<0, ESC>>), F(80, <<120, 255, EOF>>)}
\* Frames enough to tell chunks and text apart.
MCFewFrames == {F(65, <<SOF>>), F(67, <<0, ESC>>)}

MCInternet ==
  [checksum |-> "internet", frames |-> MCFrames, texts |-> {120, SOF}, maxData |-> 16,
   rawCap |-> 8, txLimit |-> 3, chunk |-> 2, sent |-> 2, text |-> 1, damage |-> 1, stalls |-> 1]

\* Two damaged bytes; no text, no stall.
MCCrc32 ==
  [checksum |-> "crc32", frames |-> MCFewFrames, texts |-> {}, maxData |-> 14,
   rawCap |-> 8, txLimit |-> 2, chunk |-> 1, sent |-> 2, text |-> 0, damage |-> 2, stalls |-> 0]

\* Three frames kept apart by text that escapes.
MCApart ==
  [checksum |-> "internet", frames |-> {F(65, <<SOF>>)}, texts |-> {ESC, EOF}, maxData |-> 12,
   rawCap |-> 8, txLimit |-> 1, chunk |-> 1, sent |-> 3, text |-> 2, damage |-> 1, stalls |-> 0]

\* Text that makes a frame too big.
MCTooBig ==
  [checksum |-> "internet", frames |-> {F(65, <<SOF>>)}, texts |-> {120}, maxData |-> 12,
   rawCap |-> 8, txLimit |-> 1, chunk |-> 1, sent |-> 2, text |-> 9, damage |-> 1, stalls |-> 0]

MCSetups == {MCInternet, MCCrc32, MCApart, MCTooBig}

\* In place of the table of CRC-32: a sum that depends on every byte's place.
MCCrc(s) == FoldLeft(LAMBDA acc, b : (acc * 257 + b + 1) % 1000003, 17, s)
=============================================================================
