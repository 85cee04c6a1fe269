----------------------------- MODULE MCEndpoint -----------------------------
(***************************************************************************)
(* The endpoint alone, for a handler that is late and for a read before    *)
(* the first publish.                                                      *)
(***************************************************************************)
EXTENDS I2cPeripheralEndpoint, TLC

Symmetry == Permutations(MessageIds)

\* No action reads the drop count, and no invariant of these runs is about it.
View == <<busVars, rxVars, txVars, tx_index, status, publishing>>
==============================================================================
