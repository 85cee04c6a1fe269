---------------------------- MODULE StreamDecoder ----------------------------
(***************************************************************************)
(* picomesh::StreamDecoder: it finds frames in a stream of bytes.  feed is *)
(* one action per outcome; the application calls it from one loop.         *)
(***************************************************************************)
EXTENDS FrameCodec

VARIABLES
  buffer,             \* buffer_ up to size_: the candidate frame
  expected_length,    \* expected_length_: 0 until the header is complete
  result              \* what the last call of feed returned

decoderVars == <<buffer, expected_length, result>>

StreamResult(status, frame, error) ==
  [status |-> status, frame |-> frame, error |-> error]

NeedMore == StreamResult("need_more", EmptyFrame, "none")

DecoderInit == buffer = <<>> /\ expected_length = 0 /\ result = NeedMore

-----------------------------------------------------------------------------
(* Mistakes that were easy to make here; none is part of a specification. *)

\* The length the candidate before had is left behind.
Reset_size_only == buffer' = <<>> /\ UNCHANGED expected_length

\* The longest payload is refused.
TooLarge_at_limit(held) == DeclaredLength(held) >= kMaxPayloadSize

-----------------------------------------------------------------------------

Reset == buffer' = <<>> /\ expected_length' = 0

TooLarge(held) == DeclaredLength(held) > kMaxPayloadSize

\* What is wrong with the candidate held, as far as it goes.
HeaderError(held) ==
  IF Len(held) > kMaxEncodedFrameSize THEN "length_mismatch"
  ELSE IF Len(held) = 2 /\ held[2] # kProtocolVersion THEN "unsupported_version"
  ELSE IF Len(held) = kFrameHeaderSize /\ TooLarge(held) THEN "payload_too_large"
  ELSE "none"

ExpectedWith(held) ==
  IF Len(held) = kFrameHeaderSize THEN kFrameOverhead + DeclaredLength(held)
                                  ELSE expected_length

\* The candidate is given up; its last byte may begin the next one.
fail(error, last_byte) ==
  /\ buffer' = IF last_byte = kFrameMagic THEN <<last_byte>> ELSE <<>>
  /\ expected_length' = 0
  /\ result' = StreamResult("frame_error", EmptyFrame, error)

FeedNoise(byte) ==
  /\ buffer = <<>> /\ byte # kFrameMagic
  /\ result' = StreamResult("discarded", EmptyFrame, "bad_magic")
  /\ UNCHANGED <<buffer, expected_length>>

FeedMagic(byte) ==
  /\ buffer = <<>> /\ byte = kFrameMagic
  /\ buffer' = <<byte>> /\ result' = NeedMore
  /\ UNCHANGED expected_length

FeedBadHeader(byte) ==
  LET held == Append(buffer, byte)
  IN  buffer # <<>> /\ HeaderError(held) # "none" /\ fail(HeaderError(held), byte)

FeedMore(byte) ==
  LET held == Append(buffer, byte)
  IN  /\ buffer # <<>> /\ HeaderError(held) = "none"
      /\ Len(held) # ExpectedWith(held)
      /\ buffer' = held /\ expected_length' = ExpectedWith(held)
      /\ result' = NeedMore

\* The candidate is given up only when it decodes: a mistake, no part of a specification.
FeedLast_kept(byte) ==
  LET held == Append(buffer, byte)
      decoded == decode_frame(held)
  IN  /\ buffer # <<>> /\ HeaderError(held) = "none"
      /\ Len(held) = ExpectedWith(held)
      /\ IF decoded.error = "none" THEN Reset ELSE UNCHANGED <<buffer, expected_length>>
      /\ result' = StreamResult(IF decoded.error = "none" THEN "frame_ready" ELSE "frame_error",
                                decoded.frame, decoded.error)

\* The candidate is complete and decoded.  If it is refused, all of it is given up.
FeedLast(byte) ==
  LET held == Append(buffer, byte)
      decoded == decode_frame(held)
  IN  /\ buffer # <<>> /\ HeaderError(held) = "none"
      /\ Len(held) = ExpectedWith(held)
      /\ Reset
      /\ result' = StreamResult(IF decoded.error = "none" THEN "frame_ready" ELSE "frame_error",
                                decoded.frame, decoded.error)

feed(byte) ==
  \/ FeedNoise(byte) \/ FeedMagic(byte) \/ FeedBadHeader(byte)
  \/ FeedMore(byte) \/ FeedLast(byte)

reset == Reset /\ UNCHANGED result

DecoderNext == reset \/ \E byte \in Byte : feed(byte)

\* The decoder on a line that may give it any bytes.
DecoderSpec == DecoderInit /\ [][DecoderNext]_decoderVars

-----------------------------------------------------------------------------

(***************************************************************************)
(* "Storage remains bounded by kMaxEncodedFrameSize" (stream_decoder.h),   *)
(* and feed's test for a full buffer is never needed: the candidate is     *)
(* always shorter than the frame its header declares, and a whole header   *)
(* is never held without an expected length.                               *)
(***************************************************************************)
CandidateBounded ==
  /\ buffer \in Seq(Byte)
  /\ buffer # <<>> => buffer[1] = kFrameMagic
  /\ Len(buffer) < kFrameHeaderSize => expected_length = 0
  /\ Len(buffer) >= kFrameHeaderSize =>
       /\ expected_length = kFrameOverhead + DeclaredLength(buffer)
       /\ Len(buffer) < expected_length /\ expected_length <= kMaxEncodedFrameSize
==============================================================================
