----------------------------- MODULE NodeRegistry -----------------------------
(***************************************************************************)
(* picomesh::NodeRegistry: for every node ever observed, the tick of its   *)
(* last observation and whether it was within the timeout at the last      *)
(* refresh.                                                                *)
(*                                                                         *)
(* silent is not in the code: it is the true time since a node was last    *)
(* observed, which the code knows only as the difference of two wrapping   *)
(* ticks; it decides nothing.                                              *)
(***************************************************************************)
EXTENDS Ticks, FiniteSets

CONSTANTS
  kMaxNodes,
  ObservedIds,    \* the node ids of the frames that arrive, any uint8_t
  Sequences,
  timeout_ms

ASSUME RegistryAssumption ==
  /\ kMaxNodes \in Nat \ {0}
  /\ ObservedIds \subseteq Nat
  /\ timeout_ms \in TickValue

VARIABLES
  nodes,      \* nodes_, without the node_id each has as its index
  present,    \* present_
  now_ms,     \* the tick the next call is given
  silent,     \* time since node n was observed, up to a whole turn of the tick
  ret         \* what the last step was: "none", "refreshed", or observe's answer

vars == <<nodes, present, now_ms, silent, ret>>

NodeIds == 0 .. kMaxNodes - 1

NodeStatus == [last_sequence : Sequences \cup {0}, last_seen_ms : TickValue, online : BOOLEAN]

Unseen == [last_sequence |-> 0, last_seen_ms |-> 0, online |-> FALSE]

Init ==
  /\ nodes = [n \in NodeIds |-> Unseen]
  /\ present = [n \in NodeIds |-> FALSE]
  /\ now_ms \in TickValue
  /\ silent = [n \in NodeIds |-> 0]
  /\ ret = "none"

-----------------------------------------------------------------------------
(* Mistakes that were easy to make here; none of them is part of Spec. *)

\* The tick at which the node expires, kept in a wider type.
Observed_expiry(s, t) ==
  [last_sequence |-> s, last_seen_ms |-> t + timeout_ms, online |-> TRUE]

\* A comparison with the expiry tick.
InTime_by_expiry(n, t) == t <= Wrap(nodes[n].last_seen_ms + timeout_ms)

\* Ticks compared as signed numbers: silence above half the range looks like the future.
InTime_signed(n, t) ==
  LET elapsed == Wrap(t - nodes[n].last_seen_ms)
  IN  elapsed >= HalfRange \/ elapsed <= timeout_ms

\* A refresh that counts as an observation.
refresh_restamps(t) ==
  /\ nodes' = [n \in NodeIds |->
                 IF present[n] /\ Wrap(t - nodes[n].last_seen_ms) <= timeout_ms
                   THEN [nodes[n] EXCEPT !.last_seen_ms = t] ELSE nodes[n]]
  /\ ret' = "refreshed"
  /\ UNCHANGED <<present, now_ms, silent>>

-----------------------------------------------------------------------------

Observed(s, t) == [last_sequence |-> s, last_seen_ms |-> t, online |-> TRUE]

\* The elapsed time in the tick's own width.
InTime(n, t) == Wrap(t - nodes[n].last_seen_ms) <= timeout_ms

ObserveOutside(id) ==
  /\ id \notin NodeIds
  /\ ret' = "false"
  /\ UNCHANGED <<nodes, present, now_ms, silent>>

ObserveTracked(id, s, t) ==
  /\ id \in NodeIds
  /\ nodes' = [nodes EXCEPT ![id] = Observed(s, t)]
  /\ present' = [present EXCEPT ![id] = TRUE]
  /\ silent' = [silent EXCEPT ![id] = 0]
  /\ ret' = "true"
  /\ UNCHANGED now_ms

observe(id, s, t) == ObserveOutside(id) \/ ObserveTracked(id, s, t)

refresh(t) ==
  /\ nodes' = [n \in NodeIds |-> IF present[n]
                                   THEN [nodes[n] EXCEPT !.online = InTime(n, t)]
                                   ELSE nodes[n]]
  /\ ret' = "refreshed"
  /\ UNCHANGED <<present, now_ms, silent>>

Tick ==
  /\ now_ms' = Wrap(now_ms + 1)
  /\ silent' = [n \in NodeIds |-> IF present[n] /\ silent[n] < TickModulus
                                    THEN silent[n] + 1 ELSE silent[n]]
  /\ ret' = "none"
  /\ UNCHANGED <<nodes, present>>

Online == {n \in NodeIds : present[n] /\ nodes[n].online}

online_count == Cardinality(Online)

Next ==
  \/ Tick
  \/ \E id \in ObservedIds, s \in Sequences : observe(id, s, now_ms)
  \/ refresh(now_ms)

Spec == Init /\ [][Next]_vars

-----------------------------------------------------------------------------

(***************************************************************************)
(* The type invariant: last-seen ticks stay wrapped ticks, and frames of   *)
(* ids outside the registry leave no record.                               *)
(***************************************************************************)
TypeOK ==
  /\ nodes \in [NodeIds -> NodeStatus]
  /\ present \in [NodeIds -> BOOLEAN]
  /\ now_ms \in TickValue
  /\ silent \in [NodeIds -> 0 .. TickModulus]
  /\ ret \in {"none", "true", "false", "refreshed"}

(***************************************************************************)
(* The last observation of a node stands for the time it has been silent,  *)
(* however often the tick has wrapped, until that is a whole turn.         *)
(***************************************************************************)
LastSeenTracksSilence ==
  \A n \in NodeIds : present[n] /\ silent[n] < TickModulus =>
    nodes[n].last_seen_ms = Wrap(now_ms - silent[n])

\* The registry as a LivenessMonitor that remembers for one turn of the tick.
Monitor == INSTANCE LivenessMonitor
             WITH Nodes <- NodeIds, Timeout <- timeout_ms, Memory <- TickModulus,
                  silence <- [n \in NodeIds |-> IF present[n] THEN silent[n] ELSE -1],
                  online <- Online, ret <- ret

(***************************************************************************)
(* The wrapping last-seen ticks implement a monitor in true time: after a  *)
(* refresh the nodes online are those heard within the timeout, for        *)
(* silences shorter than a turn of the tick (49.7 days).                   *)
(***************************************************************************)
MonitorSpec == Monitor!Spec
==============================================================================
