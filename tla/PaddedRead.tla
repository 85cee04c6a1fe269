------------------------------ MODULE PaddedRead ------------------------------
(***************************************************************************)
(* A controller's read of a node's mailbox, as both I2C controller         *)
(* transports do it: a fixed number of bytes is requested, the bus pads    *)
(* what the peripheral has, receive cuts the padding off by the frame's    *)
(* own header, and decode_frame judges the rest.  A core whose buffer is   *)
(* small gives fewer bytes than requested, and one byte of a read may be   *)
(* corrupted.                                                              *)
(***************************************************************************)
EXTENDS FrameCodec

CONSTANTS
  Published,    \* the frames the node publishes
  PadBytes      \* what the bus gives after the last byte: 0 or 0xFF

ASSUME ReadAssumption == Published \subseteq Frame /\ PadBytes \subseteq Byte

VARIABLES
  published,    \* the frame in the node's mailbox
  reading,      \* a read is in progress
  line,         \* the bytes the last read has given so far
  corrupted,    \* the position of the byte in it that was corrupted, 0 for none
  received      \* what decode_frame made of the last read

readVars == <<published, reading, line, corrupted, received>>

ReadInit ==
  /\ published = EmptyFrame /\ reading = FALSE
  /\ line = <<>> /\ corrupted = 0 /\ received = decode_frame(<<>>)

\* A mistake: the requested number of bytes is taken for the frame's length.
receive_untrimmed(data) == data

\* What receive leaves of the bytes it was given.
receive(data) ==
  IF frame_length_from_prefix(data) # 0
    THEN SubSeq(data, 1, frame_length_from_prefix(data)) ELSE data

\* The node has published f, and the controller begins to read it.
RequestFrom(f) ==
  /\ ~reading /\ reading' = TRUE
  /\ published' = f
  /\ line' = <<>> /\ corrupted' = 0 /\ received' = decode_frame(<<>>)

\* What the next byte is if nothing goes wrong: the frame's, then padding.
BusBytes ==
  IF Len(line) < Len(encode_frame(published))
    THEN {encode_frame(published)[Len(line) + 1]} ELSE PadBytes

Transfer(b) ==
  /\ reading /\ Len(line) < kMaxEncodedFrameSize
  /\ line' = Append(line, b)
  /\ UNCHANGED <<published, reading, received>>

TransferByte(b) == b \in BusBytes /\ Transfer(b) /\ UNCHANGED corrupted

CorruptByte(b) ==
  /\ corrupted = 0 /\ b \notin BusBytes
  /\ Transfer(b)
  /\ corrupted' = Len(line) + 1

\* receive returns, possibly nothing, and the application decodes what it left.
EndTransfer ==
  /\ reading /\ reading' = FALSE
  /\ received' = decode_frame(receive(line))
  /\ UNCHANGED <<published, line, corrupted>>

ReadNext ==
  \/ \E f \in Published : RequestFrom(f)
  \/ \E b \in Byte : TransferByte(b) \/ CorruptByte(b)
  \/ EndTransfer

-----------------------------------------------------------------------------

InFrame == 1 .. Len(encode_frame(published))

WholeFrameRead == Len(line) >= Len(encode_frame(published))

(***************************************************************************)
(* A read in which no byte of the frame is damaged gives the published     *)
(* frame exactly, whatever follows it on the bus, and one that is too      *)
(* short for the frame gives no frame: "a prefix that describes a frame    *)
(* longer than the received buffer is incomplete and must not be decoded"  *)
(* (docs/protocol.md).                                                     *)
(***************************************************************************)
ReadGivesTheFrame ==
  ~reading /\ corrupted \notin InFrame =>
    IF WholeFrameRead THEN received = [error |-> "none", frame |-> Delivered(published)]
                      ELSE received.error # "none"

(***************************************************************************)
(* One corrupted byte anywhere in the frame but in its payload length is   *)
(* noticed.                                                                *)
(***************************************************************************)
CorruptionNoticed ==
  ~reading /\ corrupted \in InFrame \ {kFrameHeaderSize} => received.error # "none"

(***************************************************************************)
(* "Checksum rejection: corrupted frame is rejected"                       *)
(* (docs/hardware_validation.md).  A corrupted payload length moves the    *)
(* place of the checksum: downwards onto a payload byte, which may be the  *)
(* right one, and upwards into the padding, where each byte 0xFF takes one *)
(* off the sum again.                                                      *)
(***************************************************************************)
CorruptedFrameRejected ==
  ~reading /\ corrupted \in InFrame => received.error # "none"
==============================================================================
