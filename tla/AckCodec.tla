------------------------------- MODULE AckCodec -------------------------------
(***************************************************************************)
(* make_ack_frame and parse_ack_frame.  A frame a node publishes is here   *)
(* its type, its node and its active payload bytes.                        *)
(***************************************************************************)
EXTENDS Frames, Sequences

StatusByte ==
  [accepted |-> 0, rejected |-> 1, busy |-> 2, unsupported |-> 3, malformed |-> 4]

make_ack_frame(node_id, acknowledged_sequence, status) ==
  [type |-> "acknowledgement", node_id |-> node_id,
   payload |-> <<acknowledged_sequence, StatusByte[status]>>]

\* parse_ack_frame returns true.
ParsesAsAck(f) ==
  /\ f.type = "acknowledgement" /\ Len(f.payload) = 2
  /\ f.payload[2] <= StatusByte.malformed

\* What it then gives.
AcknowledgedSequence(f) == f.payload[1]

StatusOf(f) == CHOOSE s \in AckStatus : StatusByte[s] = f.payload[2]
==============================================================================
