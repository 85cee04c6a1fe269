---------------------------- MODULE MCWireEndpoint ----------------------------
(***************************************************************************)
(* Buffers of two bytes, writes that are empty, shorter, as long and       *)
(* longer, and two messages, so that one can replace the other.            *)
(***************************************************************************)
EXTENDS WirePeripheralEndpoint
==============================================================================
