-------------------------- MODULE MCReliableCommand --------------------------
(***************************************************************************)
(* The commanded node with the intervals scaled down and their order kept, *)
(* and a sequence number that comes round after two commands.              *)
(***************************************************************************)
EXTENDS ReliableCommand
==============================================================================
