------------------------------- MODULE Mailbox -------------------------------
(***************************************************************************)
(* What the receive half of a peripheral endpoint promises: it holds at    *)
(* most one unread message, whole up to its capacity and unchanged until   *)
(* it is taken, and the drop count grows by one for every other message    *)
(* that arrives meanwhile and for every byte beyond the capacity.          *)
(***************************************************************************)
EXTENDS Integers, Sequences

CONSTANTS
  Message,       \* the byte strings that can arrive
  Capacity,      \* the bytes of a message that are kept
  DropModulus    \* the counter of dropped messages wraps

VARIABLES
  line,          \* the message that has arrived and is not yet accounted for
  counted,       \* the surplus bytes counted of the message that is arriving
  inbox,         \* the unread message
  dropped

vars == <<line, counted, inbox, dropped>>

Kept(m) == SubSeq(m, 1, IF Len(m) < Capacity THEN Len(m) ELSE Capacity)

Surplus(m) == IF Len(m) > Capacity THEN Len(m) - Capacity ELSE 0

Init == line = <<>> /\ counted = 0 /\ inbox = <<>> /\ dropped = 0

\* A surplus byte is counted when it is met, before or after the message ends.
SurplusByte ==
  /\ line # <<>> => counted < Surplus(line)
  /\ counted' = counted + 1
  /\ dropped' = (dropped + 1) % DropModulus
  /\ UNCHANGED <<line, inbox>>

Arrive(m) ==
  /\ line = <<>> /\ counted <= Surplus(m)
  /\ line' = m /\ UNCHANGED <<counted, inbox, dropped>>

\* The message leaves the line, with its surplus and n more counted.
Account(n) ==
  /\ line # <<>> /\ line' = <<>> /\ counted' = 0
  /\ dropped' = (dropped + (Surplus(line) - counted) + n) % DropModulus

Deliver == inbox = <<>> /\ inbox' = Kept(line) /\ Account(0)

Drop == inbox # <<>> /\ UNCHANGED inbox /\ Account(1)

Take == inbox # <<>> /\ inbox' = <<>> /\ UNCHANGED <<line, counted, dropped>>

Next ==
  \/ \E m \in Message : Arrive(m)
  \/ SurplusByte \/ Deliver \/ Drop \/ Take

Spec == Init /\ [][Next]_vars
==============================================================================
