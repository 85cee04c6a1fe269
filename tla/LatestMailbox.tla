---------------------------- MODULE LatestMailbox ----------------------------
(***************************************************************************)
(* What a peripheral endpoint promises that keeps the latest message only: *)
(* each message that arrives replaces the one before, read or not, nothing *)
(* is counted, and both what the node takes and what the controller reads  *)
(* is one whole message.                                                   *)
(***************************************************************************)
EXTENDS Integers, Sequences

CONSTANTS Message, Frame, Capacity

VARIABLES
  inbox,     \* the latest message to the node, empty once it is taken
  taken,     \* what the node's last look at the inbox gave it
  outbox,    \* the latest frame of the node
  reply      \* what the controller's last read gave it

vars == <<inbox, taken, outbox, reply>>

Init == inbox = <<>> /\ taken = <<>> /\ outbox = <<>> /\ reply = <<>>

Kept(m) == SubSeq(m, 1, IF Len(m) < Capacity THEN Len(m) ELSE Capacity)

Arrive(m) == inbox' = Kept(m) /\ UNCHANGED <<taken, outbox, reply>>

Take == taken' = inbox /\ inbox' = <<>> /\ UNCHANGED <<outbox, reply>>

Publish(f) == outbox' = f /\ UNCHANGED <<inbox, taken, reply>>

Read == reply' = outbox /\ UNCHANGED <<inbox, taken, outbox>>

Next ==
  \/ \E m \in Message : Arrive(m)
  \/ \E f \in Frame : Publish(f)
  \/ Take \/ Read

Spec == Init /\ [][Next]_vars
==============================================================================
