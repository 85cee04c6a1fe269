-------------------------- MODULE HeartbeatMonitoring --------------------------
(***************************************************************************)
(* The loop of ArduinoMultiNodeController (and, with one node, of          *)
(* ArduinoHeartbeatController): every kPollIntervalMs it reads each node's *)
(* mailbox in turn, observes the frames that decode, and refreshes its     *)
(* NodeRegistry, all with the tick it took at the beginning of the pass.   *)
(* Node n answers with frames of node id n, as long as it is connected.    *)
(*                                                                         *)
(* NodeRegistry's tick is the true one, millis(); now is the loop's copy.  *)
(* missed and since are not in the code.                                   *)
(***************************************************************************)
EXTENDS NodeRegistry

CONSTANTS
  PolledNodes,      \* the nodes with a transport, numbered from 0
  kPollIntervalMs,
  LoopGap           \* ticks from the beginning of one pass of loop() to the next

ASSUME LoopAssumption ==
  /\ PolledNodes \in 1 .. kMaxNodes
  /\ kPollIntervalMs \in 1 .. TickModulus - 1
  /\ LoopGap \in Nat \ {0}
  /\ kPollIntervalMs + LoopGap < TickModulus

VARIABLES
  now,            \* the tick taken at the beginning of this pass
  last_poll_ms,
  stage,          \* the node to be read next, PolledNodes to refresh, Returned
  connected,      \* the nodes that answer on the bus
  missed,         \* reads of node n since the last that gave a frame, up to MaxMissed
  since           \* ticks since the beginning of this pass

monitoringVars == <<vars, now, last_poll_ms, stage, connected, missed, since>>

Returned == -1

Polled == 0 .. PolledNodes - 1

\* The beginnings of two polls are at most this far apart.
PollPeriod == kPollIntervalMs + LoopGap - 1

MaxMissed == timeout_ms \div PollPeriod + 1

MonitoringInit ==
  /\ Init /\ now_ms = 0
  /\ now = 0 /\ last_poll_ms = 0
  /\ stage = Returned
  /\ connected \in SUBSET Polled
  /\ missed = [n \in Polled |-> 0]
  /\ since = 0

-----------------------------------------------------------------------------

(* Mistakes that were easy to make here; none is part of MonitoringSpec. *)

PollDue_by_deadline == now_ms >= Wrap(last_poll_ms + kPollIntervalMs)

\* A node that does not answer is read again at once.
PollUnanswered_retries(n) ==
  /\ stage = n
  /\ missed' = [missed EXCEPT ![n] = IF @ < MaxMissed THEN @ + 1 ELSE @]
  /\ UNCHANGED <<vars, now, last_poll_ms, stage, connected, since>>

\* Polls at a fixed rate, with the next one's tick in a wider type.
LastPollAfter_drifting == last_poll_ms + kPollIntervalMs

-----------------------------------------------------------------------------

PollDue == Wrap(now_ms - last_poll_ms) >= kPollIntervalMs

LastPollAfter == now_ms

BeginPass ==
  /\ stage = Returned
  /\ now' = now_ms /\ since' = 0
  /\ IF PollDue THEN last_poll_ms' = LastPollAfter /\ stage' = 0
                ELSE UNCHANGED <<last_poll_ms, stage>>
  /\ UNCHANGED <<vars, connected, missed>>

\* receive and decode_frame gave a frame of node n.
PollAnswered(n) ==
  /\ stage = n /\ n \in connected
  /\ \E s \in Sequences : observe(n, s, now)
  /\ stage' = n + 1
  /\ missed' = [missed EXCEPT ![n] = 0]
  /\ UNCHANGED <<now, last_poll_ms, connected, since>>

\* Nothing was read, or nothing that decodes.
PollUnanswered(n) ==
  /\ stage = n
  /\ stage' = n + 1
  /\ missed' = [missed EXCEPT ![n] = IF @ < MaxMissed THEN @ + 1 ELSE @]
  /\ UNCHANGED <<vars, now, last_poll_ms, connected, since>>

RefreshPass ==
  /\ stage = PolledNodes
  /\ refresh(now)
  /\ stage' = Returned
  /\ UNCHANGED <<now, last_poll_ms, connected, missed, since>>

\* Reading the bus takes time; a pass ends before LoopGap is over.
PassTime ==
  /\ since < LoopGap
  /\ Tick /\ since' = since + 1
  /\ UNCHANGED <<now, last_poll_ms, stage, connected, missed>>

Connect(n) ==
  /\ connected' \in {connected \cup {n}, connected \ {n}} /\ connected' # connected
  /\ UNCHANGED <<vars, now, last_poll_ms, stage, missed, since>>

LoopStep ==
  \/ BeginPass \/ RefreshPass
  \/ \E n \in Polled : PollAnswered(n) \/ PollUnanswered(n)

MonitoringNext == LoopStep \/ PassTime \/ \E n \in Polled : Connect(n)

\* loop() is called again whenever it returns, and millis() advances.
MonitoringSpec ==
  MonitoringInit /\ [][MonitoringNext]_monitoringVars
    /\ WF_monitoringVars(LoopStep) /\ WF_monitoringVars(PassTime)

-----------------------------------------------------------------------------

(***************************************************************************)
(* The type invariant: the copies of the tick stay ticks, and a pass reads *)
(* no node it has no transport for.                                        *)
(***************************************************************************)
MonitoringTypeOK ==
  /\ TypeOK
  /\ now \in TickValue /\ last_poll_ms \in TickValue
  /\ stage \in {Returned} \cup 0 .. PolledNodes
  /\ connected \subseteq Polled
  /\ missed \in [Polled -> 0 .. MaxMissed]
  /\ since \in 0 .. LoopGap

(***************************************************************************)
(* No false alarm: a node is shown offline only after so many unanswered   *)
(* reads in a row that the timeout has passed, whatever the delays of the  *)
(* loop and however the ticks wrap.                                        *)
(***************************************************************************)
OfflineOnlyAfterMissedPolls ==
  \A n \in Polled : present[n] /\ n \notin Online => missed[n] * PollPeriod > timeout_ms

(***************************************************************************)
(* Timely alarm: a node that has been silent for the timeout, one poll     *)
(* interval and the time of two passes is shown offline.  After a whole    *)
(* turn of the tick it may be shown online again.                          *)
(***************************************************************************)
OnlineOnlyWhileHeard ==
  \A n \in Online : \/ silent[n] <= timeout_ms + PollPeriod + LoopGap
                    \/ silent[n] + LoopGap >= TickModulus

(***************************************************************************)
(* "Disconnecting the node should eventually reduce the online count"      *)
(* (docs/examples.md): a node that stays disconnected is shown offline.    *)
(***************************************************************************)
DisconnectNoticed ==
  \A n \in Polled : n \notin connected ~> n \in connected \/ n \notin Online
==============================================================================
