--------------------------- MODULE MCReliableQueue ---------------------------
(***************************************************************************)
(* The retry queue with two slots and four keys, so that the queue is full *)
(* while other keys wait, and a tick of four values, so that every         *)
(* deadline wraps.                                                         *)
(***************************************************************************)
EXTENDS ReliableQueue

(***************************************************************************)
(* What is left in a slot after its release and what the last call         *)
(* returned are read by no action, and the refinement compares each step,  *)
(* so states that differ only in them need not be told apart.              *)
(***************************************************************************)
WhatCounts == <<now_ms, [i \in SlotIds |-> IF slots[i].active
                                             THEN <<slots[i], age[i]>>
                                             ELSE <<>>]>>
==============================================================================
