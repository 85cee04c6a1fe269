---------------------------- MODULE LivenessMonitor ----------------------------
(***************************************************************************)
(* What a liveness registry promises, in true time: a node is online from  *)
(* the moment it is heard, and after each refresh exactly while it was     *)
(* heard within the timeout.  A node silent for Memory or longer has been  *)
(* forgotten: a refresh may show it either way.                            *)
(***************************************************************************)
EXTENDS Integers

CONSTANTS Nodes, Timeout, Memory

VARIABLES
  silence,   \* time since each node was heard, Never if it was not
  online,
  ret        \* what the last step was: "none", "refreshed", or observe's answer

vars == <<silence, online, ret>>

Never == -1

Heard == {n \in Nodes : silence[n] # Never}

Forgotten == {n \in Nodes : silence[n] >= Memory}

Recent == {n \in Heard : silence[n] <= Timeout}

Init == silence = [n \in Nodes |-> Never] /\ online = {} /\ ret = "none"

Pass ==
  /\ silence' = [n \in Nodes |-> IF n \in Heard \ Forgotten THEN silence[n] + 1
                                 ELSE silence[n]]
  /\ ret' = "none"
  /\ UNCHANGED online

Hear(n) ==
  /\ silence' = [silence EXCEPT ![n] = 0]
  /\ online' = online \cup {n}
  /\ ret' = "true"

\* A frame of a node that is not among Nodes.
Refuse == ret' = "false" /\ UNCHANGED <<silence, online>>

Refresh ==
  /\ \E F \in SUBSET Forgotten : online' = (Recent \ Forgotten) \cup F
  /\ ret' = "refreshed"
  /\ UNCHANGED silence

Next == Pass \/ Refresh \/ Refuse \/ \E n \in Nodes : Hear(n)

Spec == Init /\ [][Next]_vars
==============================================================================
