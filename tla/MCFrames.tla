------------------------------- MODULE MCFrames -------------------------------
(***************************************************************************)
(* Bytes of eight values, a header of four and payloads of up to four      *)
(* bytes, so that the longest candidate reaches over two short frames.     *)
(* The published frames have every payload length, one above the maximum   *)
(* included, and contain the magic byte in the header and in the payload.  *)
(***************************************************************************)
EXTENDS FrameLinks
Carrying(payload) ==
  [fields |-> <<0>>, payload_length |-> Len(payload),
   payload |-> payload \o [i \in 1 .. kMaxPayloadSize - Len(payload) |-> 0]]
\* Two frames without the magic byte inside, and one with a payload that looks
\* like the beginning of a frame as long as the real one.
StreamFrames ==
  {Carrying(<<>>), Carrying(<<2>>), Carrying(<<kFrameMagic, kProtocolVersion, 0, 4>>)}
PublishedFrames ==
  [fields : {<<2>>, <<kFrameMagic>>}, payload_length : 0 .. 5,
   payload : {<<0, 7, 0, 7>>, <<kFrameMagic, 1, 0, 1>>, <<2, 4, 6, 3>>}]
==============================================================================
