------------------------------ MODULE MCPicoPort ------------------------------
(***************************************************************************)
(* Two messages, buffers of two bytes and writes that are shorter, as long *)
(* and longer, so that one can arrive behind an unread one; and more       *)
(* endpoints than the two instances can serve.                             *)
(***************************************************************************)
EXTENDS PicoPort
==============================================================================
