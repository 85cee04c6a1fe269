------------------------------ MODULE SerialLog ------------------------------
(***************************************************************************)
(* NodeSummary of scripts/summarize_serial_log.py, one for each node whose *)
(* frames are in a controller's log.  Its other counters are plain sums    *)
(* over the lines of the log and are left out.  The code has 256 sequence  *)
(* numbers; here there are LogModulus.                                     *)
(***************************************************************************)
EXTENDS Integers

CONSTANTS LogModulus, LoggedIds

ASSUME LogAssumption == LogModulus \in Nat \ {0}

VARIABLE summary    \* the NodeSummary of each node id in the log

\* first_sequence and last_sequence are None together.
NoSequence == -1

LogInit == summary = [n \in LoggedIds |-> [last_sequence |-> NoSequence, wraparounds |-> 0]]

\* A mistake: every turn of the numbers is expected to show the number zero.
Wrapped_at_zero(n, sequence) == sequence = 0

Distance(n, sequence) == (sequence - summary[n].last_sequence) % LogModulus

IsForward(n, sequence) == 2 * Distance(n, sequence) < LogModulus

Wrapped(n, sequence) == sequence < summary[n].last_sequence

LogFirst(n, sequence) ==
  /\ summary[n].last_sequence = NoSequence
  /\ summary' = [summary EXCEPT ![n].last_sequence = sequence]

LogForward(n, sequence) ==
  /\ summary[n].last_sequence # NoSequence
  /\ Distance(n, sequence) # 0 /\ IsForward(n, sequence)
  /\ summary' = [summary EXCEPT ![n].last_sequence = sequence,
                   ![n].wraparounds = IF Wrapped(n, sequence) THEN @ + 1 ELSE @]

\* A duplicate or a stale frame.
LogOther(n, sequence) ==
  /\ summary[n].last_sequence # NoSequence
  /\ Distance(n, sequence) = 0 \/ ~IsForward(n, sequence)
  /\ UNCHANGED summary

\* NodeSummary.observe.
log(n, sequence) == LogFirst(n, sequence) \/ LogForward(n, sequence) \/ LogOther(n, sequence)
==============================================================================
