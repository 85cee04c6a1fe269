---------------------------- MODULE SequenceTracker ----------------------------
(***************************************************************************)
(* picomesh::SequenceTracker: the last accepted sequence number of every   *)
(* node, and what a number that arrives is by its distance ahead of it.    *)
(* The code has 256 numbers; here there are 2 * HalfSpace.                 *)
(***************************************************************************)
EXTENDS Integers

CONSTANTS HalfSpace, kMaxNodes

ASSUME TrackerAssumption == HalfSpace \in Nat \ {0} /\ kMaxNodes \in Nat \ {0}

VARIABLES
  seen,             \* seen_
  last_sequence,    \* last_sequence_
  ret               \* what the last call of observe returned

trackerVars == <<seen, last_sequence, ret>>

NodeIds == 0 .. kMaxNodes - 1

SequenceModulus == 2 * HalfSpace

Sequence == 0 .. SequenceModulus - 1

SequenceState == {"first", "duplicate", "newer", "stale", "invalid_node"}

TrackerTypeOK ==
  /\ seen \in [NodeIds -> BOOLEAN]
  /\ last_sequence \in [NodeIds -> Sequence]
  /\ ret \in SequenceState \cup {"none"}

TrackerInit ==
  /\ seen = [n \in NodeIds |-> FALSE]
  /\ last_sequence = [n \in NodeIds |-> 0]
  /\ ret = "none"

-----------------------------------------------------------------------------
(* Mistakes that were easy to make here; none is part of a specification. *)

\* The larger number is the newer one.
IsNewer_unwrapped(n, sequence) == sequence > last_sequence[n]

\* The difference kept as a signed number.
Delta_signed(n, sequence) == sequence - last_sequence[n]

-----------------------------------------------------------------------------

Delta(n, sequence) == (sequence - last_sequence[n]) % SequenceModulus

IsNewer(n, sequence) == Delta(n, sequence) < HalfSpace

Remember(n, sequence) == last_sequence' = [last_sequence EXCEPT ![n] = sequence]

ObserveInvalid(n) ==
  n \notin NodeIds /\ ret' = "invalid_node" /\ UNCHANGED <<seen, last_sequence>>

ObserveFirst(n, sequence) ==
  /\ n \in NodeIds /\ ~seen[n]
  /\ seen' = [seen EXCEPT ![n] = TRUE]
  /\ Remember(n, sequence)
  /\ ret' = "first"

ObserveDuplicate(n, sequence) ==
  /\ n \in NodeIds /\ seen[n] /\ Delta(n, sequence) = 0
  /\ ret' = "duplicate" /\ UNCHANGED <<seen, last_sequence>>

ObserveNewer(n, sequence) ==
  /\ n \in NodeIds /\ seen[n] /\ Delta(n, sequence) # 0 /\ IsNewer(n, sequence)
  /\ Remember(n, sequence)
  /\ ret' = "newer" /\ UNCHANGED seen

ObserveStale(n, sequence) ==
  /\ n \in NodeIds /\ seen[n] /\ Delta(n, sequence) # 0 /\ ~IsNewer(n, sequence)
  /\ ret' = "stale" /\ UNCHANGED <<seen, last_sequence>>

observe(n, sequence) ==
  \/ ObserveInvalid(n)
  \/ ObserveFirst(n, sequence) \/ ObserveDuplicate(n, sequence)
  \/ ObserveNewer(n, sequence) \/ ObserveStale(n, sequence)

Forget(S) ==
  /\ seen' = [n \in NodeIds |-> n \notin S /\ seen[n]]
  /\ last_sequence' = [n \in NodeIds |-> IF n \in S THEN 0 ELSE last_sequence[n]]
  /\ ret' = "none"

\* A node outside the tracker is ignored.
reset(n) == Forget({n} \cap NodeIds)

reset_all == Forget(NodeIds)
==============================================================================
