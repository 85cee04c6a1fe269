-------------------------------- MODULE Frames --------------------------------
(***************************************************************************)
(* The decoded frame as the retry queue sees it.  The message type and the *)
(* payload bytes are carried along unread, so a frame here is its address, *)
(* its flags and its payload length.                                       *)
(***************************************************************************)
EXTENDS Integers

CONSTANTS
  NodeIds,           \* uint8_t in the code
  Sequences,         \* uint8_t in the code
  PayloadLengths,    \* uint8_t in the code; a caller may exceed the maximum
  kMaxPayloadSize

ASSUME FramesAssumption ==
  /\ 0 \in NodeIds /\ 0 \in Sequences /\ 0 \in PayloadLengths
  /\ PayloadLengths \subseteq Nat
  /\ kMaxPayloadSize \in Nat

kFlagAckRequired == "ack_required"

\* A flags byte is the set of its bits that are set.
Flags == SUBSET {kFlagAckRequired}

Frame == [node_id : NodeIds, sequence : Sequences,
          flags : Flags, payload_length : PayloadLengths]

EmptyFrame == [node_id |-> 0, sequence |-> 0, flags |-> {}, payload_length |-> 0]

AckStatus == {"accepted", "rejected", "busy", "unsupported", "malformed"}

FitsPayload(f) == f.payload_length <= kMaxPayloadSize

\* A pending frame is known by its node and its sequence.
Key(f) == <<f.node_id, f.sequence>>

\* flags | kFlagAckRequired
AckRequired(f) == [f EXCEPT !.flags = @ \cup {kFlagAckRequired}]
==============================================================================
