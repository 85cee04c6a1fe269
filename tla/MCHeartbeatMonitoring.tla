------------------------- MODULE MCHeartbeatMonitoring -------------------------
(***************************************************************************)
(* One node, with room for every delay the loop can have: nodes share      *)
(* nothing but the tick of the pass, and NodeRegistry, which is checked    *)
(* with several.  Two missed polls just exceed the timeout, and the tick   *)
(* is long enough that a node silent for too long is not yet forgotten.    *)
(***************************************************************************)
EXTENDS HeartbeatMonitoring
==============================================================================
