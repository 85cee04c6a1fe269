------------------------------ MODULE FrameCodec ------------------------------
(***************************************************************************)
(* encode_frame, decode_frame, frame_length_from_prefix and the checksum,  *)
(* on byte sequences.  The four header bytes that the codec only carries   *)
(* (type, flags, node id and sequence) are `fields'; FieldCount and the    *)
(* other sizes are parameters, so that TLC can use fewer and smaller bytes.*)
(***************************************************************************)
EXTENDS Integers, Sequences

CONSTANTS
  ByteModulus,         \* 256
  kFrameMagic,         \* 0xB7
  kProtocolVersion,    \* 1
  kMaxPayloadSize,     \* 32
  FieldCount           \* 4

ASSUME CodecAssumption ==
  /\ ByteModulus \in Nat \ {0}
  /\ kFrameMagic \in 0 .. ByteModulus - 1 /\ kProtocolVersion \in 0 .. ByteModulus - 1
  /\ kMaxPayloadSize \in 0 .. ByteModulus - 1
  /\ FieldCount \in Nat

Byte == 0 .. ByteModulus - 1

kFrameHeaderSize == FieldCount + 3

kFrameOverhead == kFrameHeaderSize + 1

kMaxEncodedFrameSize == kFrameOverhead + kMaxPayloadSize

Frame == [fields : [1 .. FieldCount -> Byte],
          payload : [1 .. kMaxPayloadSize -> Byte], payload_length : Byte]

EmptyFrame == [fields |-> [i \in 1 .. FieldCount |-> 0],
               payload |-> [i \in 1 .. kMaxPayloadSize |-> 0], payload_length |-> 0]

-----------------------------------------------------------------------------
(* A mistake that was easy to make here; it is no part of a specification. *)

\* The sum is computed and not looked at.
verify_checksum8_ignored(data) == Len(data) > 0

-----------------------------------------------------------------------------

\* The bytes added up in a uint8_t.
Sum(data) ==
  LET sum[n \in 0 .. Len(data)] ==
        IF n = 0 THEN 0 ELSE (sum[n - 1] + data[n]) % ByteModulus
  IN  sum[Len(data)]

checksum8(data) == (0 - Sum(data)) % ByteModulus

verify_checksum8(data) == Len(data) > 0 /\ Sum(data) = 0

Clamped(f) ==
  IF f.payload_length < kMaxPayloadSize THEN f.payload_length ELSE kMaxPayloadSize

encode_frame(f) ==
  LET body == <<kFrameMagic, kProtocolVersion>> \o f.fields \o <<Clamped(f)>>
                \o SubSeq(f.payload, 1, Clamped(f))
  IN  Append(body, checksum8(body))

\* The payload length byte is the last of the header.
DeclaredLength(data) == data[kFrameHeaderSize]

FrameIn(data) ==
  [fields |-> SubSeq(data, 3, FieldCount + 2),
   payload |-> [i \in 1 .. kMaxPayloadSize |->
                  IF i <= DeclaredLength(data) THEN data[kFrameHeaderSize + i] ELSE 0],
   payload_length |-> DeclaredLength(data)]

\* Why decode_frame refuses data: the first of these that applies.
DecodeError(data) ==
  IF Len(data) < kFrameOverhead THEN "too_short"
  ELSE IF data[1] # kFrameMagic THEN "bad_magic"
  ELSE IF data[2] # kProtocolVersion THEN "unsupported_version"
  ELSE IF DeclaredLength(data) > kMaxPayloadSize THEN "payload_too_large"
  ELSE IF Len(data) # kFrameOverhead + DeclaredLength(data) THEN "length_mismatch"
  ELSE IF ~verify_checksum8(data) THEN "bad_checksum"
  ELSE "none"

decode_frame(data) ==
  [error |-> DecodeError(data),
   frame |-> IF DecodeError(data) = "none" THEN FrameIn(data) ELSE EmptyFrame]

\* The length of the frame data begins with; 0 if it is not one, or not all there.
frame_length_from_prefix(data) ==
  IF /\ Len(data) >= kFrameHeaderSize
     /\ data[1] = kFrameMagic /\ data[2] = kProtocolVersion
     /\ DeclaredLength(data) <= kMaxPayloadSize
     /\ kFrameOverhead + DeclaredLength(data) <= Len(data)
    THEN kFrameOverhead + DeclaredLength(data) ELSE 0

-----------------------------------------------------------------------------

\* The frame as a receiver should see it: what lies beyond its length is gone.
Delivered(f) ==
  [fields |-> f.fields,
   payload |-> [i \in 1 .. kMaxPayloadSize |-> IF i <= Clamped(f) THEN f.payload[i] ELSE 0],
   payload_length |-> Clamped(f)]
==============================================================================
