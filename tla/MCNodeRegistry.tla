---------------------------- MODULE MCNodeRegistry ----------------------------
(***************************************************************************)
(* Two tracked nodes and one frame from outside the registry, with a     *)
(* tick of six values, so that every last-seen tick wraps and a node can   *)
(* be silent for a whole turn.                                             *)
(***************************************************************************)
EXTENDS NodeRegistry, TLC
==============================================================================
