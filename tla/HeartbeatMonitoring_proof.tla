----------------------- MODULE HeartbeatMonitoring_proof -----------------------
(***************************************************************************)
(* The registry and the loop that drives it, for every number of nodes,    *)
(* timeout, poll interval, delay of the loop and width of the tick: the    *)
(* invariants of NodeRegistry, its refinement of LivenessMonitor, and that *)
(* the controllers' loop raises no false alarm and no late one.            *)
(***************************************************************************)
EXTENDS HeartbeatMonitoring, Ticks_proof

\* The constants of the registry as numbers.
LEMMA Constants ==
  /\ HalfRange \in Nat /\ HalfRange > 0
  /\ TickModulus = 2 * HalfRange /\ TickModulus \in Nat
  /\ TickValue = 0 .. TickModulus - 1 /\ 0 \in TickValue
  /\ timeout_ms \in 0 .. TickModulus - 1
BY HalfRangeAssumption, RegistryAssumption DEF TickModulus, TickValue

(* A tick less than a whole turn ago is told from now by the difference. *)
LEMMA ElapsedIsSilence ==
  ASSUME NEW t \in TickValue, NEW e \in 0 .. TickModulus - 1
  PROVE  Wrap(t - Wrap(t - e)) = e
<1>1. CASE t >= e
  BY <1>1, WrapNear, Constants
<1>2. CASE t < e
  <2>1. Wrap(t - e) = t - e + TickModulus
    BY <1>2, WrapNear, Constants
  <2>2. Wrap(t - (t - e + TickModulus)) = e
    BY <1>2, WrapNear, Constants
  <2>3. QED
    BY <2>1, <2>2
<1>3. QED
  BY <1>1, <1>2, Constants

(* As the tick and a silence both grow by one, the last observation stays. *)
LEMMA LaterSilence ==
  ASSUME NEW t \in TickValue, NEW e \in 0 .. TickModulus - 2
  PROVE  Wrap(Wrap(t + 1) - (e + 1)) = Wrap(t - e)
<1>1. -e \in (1 - TickModulus) .. HalfRange
  BY Constants
<1>2. Wrap(Wrap(t + 1) + (-e) - 1) = Wrap(t + (-e))
  BY <1>1, WrapOfTheNextTick
<1>3. Wrap(t + 1) \in TickValue
  BY WrapType, Constants
<1>4. Wrap(t + 1) + (-e) - 1 = Wrap(t + 1) - (e + 1) /\ t + (-e) = t - e
  BY <1>3, Constants
<1>5. QED
  BY <1>2, <1>4

-----------------------------------------------------------------------------

IInv == TypeOK /\ LastSeenTracksSilence

\* An empty registry satisfies the invariant.
LEMMA InitIInv == Init => IInv
<1>. SUFFICES ASSUME Init PROVE IInv
  OBVIOUS
<1>1. Unseen \in NodeStatus
  BY Constants DEF Unseen, NodeStatus
<1>2. TypeOK
  BY <1>1, Constants DEF Init, TypeOK
<1>3. LastSeenTracksSilence
  BY DEF Init, LastSeenTracksSilence
<1>4. QED
  BY <1>2, <1>3 DEF IInv

\* observe keeps the invariant.
LEMMA ObserveStep ==
  ASSUME IInv, NEW id \in ObservedIds, NEW s \in Sequences, observe(id, s, now_ms)
  PROVE  IInv'
<1>1. CASE ObserveOutside(id)
  BY <1>1 DEF ObserveOutside, IInv, TypeOK, LastSeenTracksSilence
<1>2. CASE ObserveTracked(id, s, now_ms)
  <2>1. Observed(s, now_ms) \in NodeStatus
    BY DEF Observed, NodeStatus, IInv, TypeOK
  <2>2. TypeOK'
    BY <1>2, <2>1, Constants DEF ObserveTracked, IInv, TypeOK
  <2>3. Wrap(now_ms - 0) = now_ms
    BY WrapNear, Constants DEF IInv, TypeOK
  <2>4. ASSUME NEW n \in NodeIds, present'[n], silent'[n] < TickModulus
        PROVE  nodes'[n].last_seen_ms = Wrap(now_ms' - silent'[n])
    <3>1. CASE n = id
      BY <1>2, <2>3, <3>1 DEF ObserveTracked, Observed, IInv, TypeOK
    <3>2. CASE n # id
      BY <1>2, <2>4, <3>2 DEF ObserveTracked, IInv, TypeOK, LastSeenTracksSilence
    <3>3. QED
      BY <3>1, <3>2
  <2>5. QED
    BY <2>2, <2>4 DEF IInv, LastSeenTracksSilence
<1>3. QED
  BY <1>1, <1>2 DEF observe

\* refresh keeps the invariant.
LEMMA RefreshStep ==
  ASSUME IInv, refresh(now_ms)
  PROVE  IInv'
<1>1. ASSUME NEW n \in NodeIds
      PROVE  nodes'[n] \in NodeStatus /\ nodes'[n].last_seen_ms = nodes[n].last_seen_ms
  <2>1. nodes[n] \in NodeStatus /\ InTime(n, now_ms) \in BOOLEAN
    BY DEF IInv, TypeOK, InTime
  <2>2. [nodes[n] EXCEPT !.online = InTime(n, now_ms)] \in NodeStatus
    BY <2>1 DEF NodeStatus
  <2>3. [nodes[n] EXCEPT !.online = InTime(n, now_ms)].last_seen_ms = nodes[n].last_seen_ms
    BY <2>1 DEF NodeStatus
  <2>4. QED
    BY <2>1, <2>2, <2>3 DEF refresh
<1>2. nodes' \in [NodeIds -> NodeStatus]
  BY <1>1 DEF refresh
<1>3. QED
  BY <1>1, <1>2 DEF refresh, IInv, TypeOK, LastSeenTracksSilence

\* A tick keeps the invariant.
LEMMA TickStep ==
  ASSUME IInv, Tick
  PROVE  IInv'
<1>1. now_ms \in TickValue /\ now_ms' = Wrap(now_ms + 1) /\ now_ms' \in TickValue
  BY WrapType, Constants DEF Tick, IInv, TypeOK
<1>2. silent' \in [NodeIds -> 0 .. TickModulus]
  BY Constants DEF Tick, IInv, TypeOK
<1>3. TypeOK'
  BY <1>1, <1>2 DEF Tick, IInv, TypeOK
<1>4. ASSUME NEW n \in NodeIds, present'[n], silent'[n] < TickModulus
      PROVE  nodes'[n].last_seen_ms = Wrap(now_ms' - silent'[n])
  <2>1. silent[n] \in 0 .. TickModulus - 2 /\ silent'[n] = silent[n] + 1 /\ present[n]
    BY <1>4, Constants DEF Tick, IInv, TypeOK
  <2>2. nodes'[n].last_seen_ms = Wrap(now_ms - silent[n])
    BY <2>1, Constants DEF Tick, IInv, LastSeenTracksSilence
  <2>3. QED
    BY <1>1, <2>1, <2>2, LaterSilence
<1>5. QED
  BY <1>3, <1>4 DEF IInv, LastSeenTracksSilence

\* Every step keeps the invariant.
LEMMA NextIInv == IInv /\ [Next]_vars => IInv'
<1>. SUFFICES ASSUME IInv, [Next]_vars PROVE IInv'
  OBVIOUS
<1>1. CASE UNCHANGED vars
  BY <1>1 DEF vars, IInv, TypeOK, LastSeenTracksSilence
<1>2. QED
  BY <1>1, ObserveStep, RefreshStep, TickStep DEF Next

\* The invariant holds in every state of the registry.
LEMMA InductiveInvariant == Spec => []IInv
BY InitIInv, NextIInv, PTL DEF Spec

(***************************************************************************)
(* Every last-seen value stays a tick, every status well formed.           *)
(***************************************************************************)
THEOREM TypeCorrect == Spec => []TypeOK
<1>1. IInv => TypeOK
  BY DEF IInv
<1>2. QED
  BY <1>1, InductiveInvariant, PTL

(***************************************************************************)
(* The wrapping last-seen tick of a node stands for the true time since    *)
(* observe was last given a frame of it.                                   *)
(***************************************************************************)
THEOREM LastSeenIsTrue == Spec => []LastSeenTracksSilence
<1>1. IInv => LastSeenTracksSilence
  BY DEF IInv
<1>2. QED
  BY <1>1, InductiveInvariant, PTL

-----------------------------------------------------------------------------
(* The refinement. *)

(* refresh decides by the true silence, up to a whole turn of the tick. *)
LEMMA InTimeIsTrue ==
  ASSUME IInv, NEW n \in NodeIds, present[n], silent[n] < TickModulus
  PROVE  InTime(n, now_ms) <=> silent[n] <= timeout_ms
<1>1. silent[n] \in 0 .. TickModulus - 1 /\ now_ms \in TickValue
  BY Constants DEF IInv, TypeOK
<1>2. Wrap(now_ms - Wrap(now_ms - silent[n])) = silent[n]
  BY <1>1, ElapsedIsSilence
<1>3. nodes[n].last_seen_ms = Wrap(now_ms - silent[n])
  BY DEF IInv, LastSeenTracksSilence
<1>4. QED
  BY <1>2, <1>3 DEF InTime

silence == [n \in NodeIds |-> IF present[n] THEN silent[n] ELSE -1]

\* The silence that the monitor sees, in terms of the registry.
LEMMA SilenceValue ==
  ASSUME IInv, NEW n \in NodeIds
  PROVE  /\ silence[n] = IF present[n] THEN silent[n] ELSE -1
         /\ silent[n] \in 0 .. TickModulus
         /\ (silence[n] # -1 <=> present[n])
         /\ (silence[n] >= TickModulus <=> present[n] /\ silent[n] = TickModulus)
BY Constants DEF silence, IInv, TypeOK

\* An empty registry is a monitor that has heard of nobody.
LEMMA InitMonitor == Init => Monitor!Init
<1>1. ASSUME Init PROVE Online = {}
  BY <1>1 DEF Init, Online, Unseen
<1>2. QED
  BY <1>1 DEF Init, Monitor!Init, Monitor!Never

\* A tick lets the monitor's time pass.
LEMMA TickMonitor ==
  ASSUME IInv, Tick
  PROVE  Monitor!Pass
<1>1. Online' = Online
  BY DEF Tick, Online
<1>2. ASSUME NEW n \in NodeIds
      PROVE  silence'[n] = IF n \in Monitor!Heard \ Monitor!Forgotten
                             THEN silence[n] + 1 ELSE silence[n]
  <2>1. n \in Monitor!Heard <=> present[n]
    BY SilenceValue DEF Monitor!Heard, Monitor!Never, silence
  <2>2. n \in Monitor!Forgotten <=> present[n] /\ silent[n] = TickModulus
    BY SilenceValue DEF Monitor!Forgotten, silence
  <2>3. silence'[n] = IF present[n] THEN silent'[n] ELSE -1
    BY DEF silence, Tick
  <2>4. silent'[n] = IF present[n] /\ silent[n] < TickModulus
                       THEN silent[n] + 1 ELSE silent[n]
    BY DEF Tick
  <2>5. silent[n] \in 0 .. TickModulus /\ (silent[n] < TickModulus <=> silent[n] # TickModulus)
    BY SilenceValue, Constants
  <2>6. QED
    BY <2>1, <2>2, <2>3, <2>4, <2>5, SilenceValue
<1>3. silence' = [n \in NodeIds |-> IF n \in Monitor!Heard \ Monitor!Forgotten
                                      THEN silence[n] + 1 ELSE silence[n]]
  BY <1>2 DEF silence
<1>4. QED
  BY <1>1, <1>3 DEF Monitor!Pass, Tick, silence

\* observe is the monitor hearing of a node, or a refused call.
LEMMA ObserveMonitor ==
  ASSUME IInv, NEW id \in ObservedIds, NEW s \in Sequences, observe(id, s, now_ms)
  PROVE  [Monitor!Next]_Monitor!vars
<1>1. CASE ObserveOutside(id)
  BY <1>1 DEF ObserveOutside, Monitor!Next, Monitor!Refuse, Online
<1>2. CASE ObserveTracked(id, s, now_ms)
  <2>1. silence' = [silence EXCEPT ![id] = 0]
    BY <1>2 DEF ObserveTracked, silence, IInv, TypeOK
  <2>2. Online' = Online \cup {id}
    BY <1>2 DEF ObserveTracked, Online, Observed, IInv, TypeOK
  <2>3. id \in NodeIds
    BY <1>2 DEF ObserveTracked
  <2>4. QED
    BY <1>2, <2>1, <2>2, <2>3 DEF ObserveTracked, Monitor!Next, Monitor!Hear, silence
<1>3. QED
  BY <1>1, <1>2 DEF observe

\* refresh is the monitor's judgement of every node.
LEMMA RefreshMonitor ==
  ASSUME IInv, refresh(now_ms)
  PROVE  Monitor!Refresh
<1>. DEFINE F == {n \in Monitor!Forgotten : InTime(n, now_ms)}
<1>1. ASSUME NEW n \in NodeIds
      PROVE  n \in Online' <=> present[n] /\ InTime(n, now_ms)
  <2>1. nodes[n] \in NodeStatus
    BY DEF IInv, TypeOK
  <2>2. present[n] => nodes'[n].online = InTime(n, now_ms)
    BY <2>1 DEF refresh, NodeStatus
  <2>3. QED
    BY <2>2 DEF Online, refresh
<1>2. ASSUME NEW n \in NodeIds
      PROVE  n \in Online' <=> n \in (Monitor!Recent \ Monitor!Forgotten) \cup F
  <2>1. n \in Monitor!Forgotten <=> present[n] /\ silent[n] = TickModulus
    BY SilenceValue DEF Monitor!Forgotten, silence
  <2>2. n \in Monitor!Recent <=> present[n] /\ silent[n] <= timeout_ms
    BY SilenceValue, Constants DEF Monitor!Recent, Monitor!Heard, Monitor!Never, silence
  <2>3. CASE silent[n] = TickModulus
    BY <1>1, <2>1, <2>2, <2>3
  <2>4. CASE silent[n] # TickModulus
    <3>1. silent[n] < TickModulus
      BY <2>4, SilenceValue, Constants
    <3>2. present[n] => (InTime(n, now_ms) <=> silent[n] <= timeout_ms)
      BY <3>1, InTimeIsTrue
    <3>3. n \notin Monitor!Forgotten /\ n \notin F
      BY <2>1, <2>4
    <3>4. QED
      BY <1>1, <2>2, <3>2, <3>3
  <2>5. QED
    BY <2>3, <2>4
<1>3. Online' \subseteq NodeIds /\ (Monitor!Recent \ Monitor!Forgotten) \cup F \subseteq NodeIds
  BY DEF Online, Monitor!Recent, Monitor!Heard, Monitor!Forgotten
<1>4. Online' = (Monitor!Recent \ Monitor!Forgotten) \cup F
  BY <1>2, <1>3
<1>5. UNCHANGED silence
  BY DEF refresh, silence
<1>6. F \in SUBSET Monitor!Forgotten
  OBVIOUS
<1>7. QED
  BY <1>4, <1>5, <1>6 DEF refresh, Monitor!Refresh, silence

\* Every step of the registry is a step of the monitor, or none.
LEMMA NextMonitor == IInv /\ [Next]_vars => [Monitor!Next]_Monitor!vars
<1>. SUFFICES ASSUME IInv, [Next]_vars PROVE [Monitor!Next]_Monitor!vars
  OBVIOUS
<1>1. CASE UNCHANGED vars
  BY <1>1 DEF vars, Monitor!vars, Online
<1>2. QED
  BY <1>1, TickMonitor, ObserveMonitor, RefreshMonitor DEF Next, Monitor!Next

(***************************************************************************)
(* The registry implements LivenessMonitor with a memory of one turn of    *)
(* the tick: no node is shown offline early or online late by the wrap.    *)
(***************************************************************************)
THEOREM RegistryIsMonitor == Spec => MonitorSpec
BY InitMonitor, NextMonitor, InductiveInvariant, PTL DEF Spec, MonitorSpec, Monitor!Spec

-----------------------------------------------------------------------------
(***************************************************************************)
(* The loop of the controllers.                                            *)
(***************************************************************************)

\* The ticks since the poll that began last, and since the tick given to observe.
SincePoll == Wrap(now_ms - last_poll_ms)
Age(n) == Wrap(now_ms - nodes[n].last_seen_ms)

\* Node n is still to be read in this pass.
ToBeRead(n) == stage # Returned /\ stage <= n

(***************************************************************************)
(* The loop's tick is as old as the pass, and the last poll was not yet    *)
(* due again when the pass began, or is the pass itself.                   *)
(***************************************************************************)
PassOnTime ==
  /\ since = Wrap(now_ms - now)
  /\ Wrap(now - last_poll_ms) < kPollIntervalMs
  /\ stage # Returned => last_poll_ms = now

(***************************************************************************)
(* A node's last frame is no more polls old than the reads it has missed,  *)
(* and one shown offline has missed too many.                              *)
(***************************************************************************)
MissedCounted ==
  \A n \in Polled :
    /\ present[n] /\ missed[n] # MaxMissed =>
         Wrap(last_poll_ms - nodes[n].last_seen_ms)
           <= (missed[n] + (IF ToBeRead(n) THEN 1 ELSE 0)) * PollPeriod
    /\ present[n] /\ ~nodes[n].online => missed[n] = MaxMissed

(***************************************************************************)
(* A node was observed with a tick at most one pass old, and one shown     *)
(* online was within the timeout at the last refresh.                      *)
(***************************************************************************)
SilenceBounded ==
  \A n \in NodeIds : present[n] =>
    /\ silent[n] + LoopGap < TickModulus => /\ silent[n] <= Age(n)
                                            /\ Age(n) <= silent[n] + LoopGap
    /\ nodes[n].online =>
         Age(n) <= timeout_ms + (IF stage = Returned THEN SincePoll ELSE PollPeriod + since)

MInv == MonitoringTypeOK /\ PassOnTime /\ MissedCounted /\ SilenceBounded

-----------------------------------------------------------------------------
(* Differences of ticks. *)

\* The constants of the controller as numbers.
LEMMA MonitoringConstants ==
  /\ TickModulus = 2 * HalfRange /\ TickModulus \in Nat /\ TickModulus > 0
  /\ TickValue = 0 .. TickModulus - 1 /\ 0 \in TickValue
  /\ timeout_ms \in Nat /\ timeout_ms < TickModulus
  /\ kPollIntervalMs \in Nat \ {0} /\ LoopGap \in Nat \ {0}
  /\ kPollIntervalMs + LoopGap < TickModulus
  /\ PollPeriod = kPollIntervalMs + LoopGap - 1 /\ PollPeriod \in Nat \ {0}
  /\ Polled \subseteq NodeIds /\ PolledNodes \in Nat \ {0}
BY HalfRangeAssumption, RegistryAssumption, LoopAssumption
DEF TickModulus, TickValue, PollPeriod, Polled, NodeIds

\* The difference of two ticks, in wrapping arithmetic.
LEMMA TickDifference ==
  ASSUME NEW a \in TickValue, NEW b \in TickValue
  PROVE  /\ Wrap(a - b) \in TickValue /\ Wrap(a - b) \in Nat
         /\ Wrap(a - b) = IF a >= b THEN a - b ELSE a - b + TickModulus
<1>1. a - b \in Int
  BY MonitoringConstants
<1>2. Wrap(a - b) \in TickValue
  BY <1>1, WrapType
<1>3. Wrap(a - b) = IF a >= b THEN a - b ELSE a - b + TickModulus
  BY WrapNear, MonitoringConstants
<1>4. QED
  BY <1>2, <1>3, MonitoringConstants

\* A tick differs from itself by nothing.
LEMMA NoDifference ==
  ASSUME NEW a \in TickValue
  PROVE  Wrap(a - a) = 0
BY TickDifference, MonitoringConstants

\* Going from c to a by way of b is no shorter.
LEMMA TickTriangle ==
  ASSUME NEW a \in TickValue, NEW b \in TickValue, NEW c \in TickValue
  PROVE  Wrap(a - c) <= Wrap(a - b) + Wrap(b - c)
<1>1. Wrap(a - c) = IF a >= c THEN a - c ELSE a - c + TickModulus
  BY TickDifference
<1>2. Wrap(a - b) = IF a >= b THEN a - b ELSE a - b + TickModulus
  BY TickDifference
<1>3. Wrap(b - c) = IF b >= c THEN b - c ELSE b - c + TickModulus
  BY TickDifference
<1>4. QED
  BY <1>1, <1>2, <1>3, MonitoringConstants

\* A tick makes a difference greater by one, until it wraps.
LEMMA NextTick ==
  ASSUME NEW a \in TickValue, NEW b \in TickValue
  PROVE  /\ Wrap(a + 1) \in TickValue
         /\ Wrap(Wrap(a + 1) - b) <= Wrap(a - b) + 1
         /\ Wrap(a - b) + 1 < TickModulus => Wrap(Wrap(a + 1) - b) = Wrap(a - b) + 1
<1>1. Wrap(a + 1) = IF a + 1 < TickModulus THEN a + 1 ELSE 0
  BY WrapNear, MonitoringConstants
<1>2. Wrap(a + 1) \in TickValue
  BY <1>1, MonitoringConstants
<1>3. Wrap(a - b) = IF a >= b THEN a - b ELSE a - b + TickModulus
  BY TickDifference
<1>4. Wrap(Wrap(a + 1) - b) = IF Wrap(a + 1) >= b THEN Wrap(a + 1) - b
                              ELSE Wrap(a + 1) - b + TickModulus
  BY <1>2, TickDifference
<1>5. /\ a \in Nat /\ a < TickModulus /\ b \in Nat /\ b < TickModulus
      /\ TickModulus \in Nat
  BY MonitoringConstants
<1>6. CASE a + 1 < TickModulus
  <2>1. Wrap(a + 1) = a + 1
    BY <1>1, <1>6
  <2>2. QED
    BY <1>2, <1>3, <1>4, <1>5, <2>1
<1>7. CASE a + 1 = TickModulus
  <2>1. Wrap(a + 1) = 0 /\ a >= b
    BY <1>1, <1>5, <1>7
  <2>2. Wrap(a - b) = a - b
    BY <1>3, <2>1
  <2>3. Wrap(Wrap(a + 1) - b) = IF b = 0 THEN 0 ELSE TickModulus - b
    BY <1>4, <1>5, <2>1
  <2>4. QED
    BY <1>2, <1>5, <1>7, <2>2, <2>3
<1>8. QED
  BY <1>5, <1>6, <1>7

\* One poll more is one interval more.
LEMMA OneMorePoll ==
  ASSUME NEW k \in Nat, NEW p \in Nat
  PROVE  (k + 1) * p = k * p + p /\ k * p \in Nat
OBVIOUS

(***************************************************************************)
(* MaxMissed polls are longer than the timeout, and fewer are not.         *)
(***************************************************************************)
LEMMA MissedPolls ==
  /\ MaxMissed \in Nat \ {0} /\ MaxMissed * PollPeriod > timeout_ms
  /\ \A k \in 0 .. MaxMissed - 1 : k * PollPeriod <= timeout_ms
<1>1. \A p \in Nat \ {0} : \A t \in Nat :
        /\ t \div p \in Nat
        /\ (t \div p) * p <= t /\ (t \div p) * p + p > t
  OBVIOUS
<1>2. \A p \in Nat \ {0} : \A q, k \in Nat : k <= q => k * p <= q * p
  OBVIOUS
<1>3. \A p \in Nat : \A k \in Nat : (k + 1) * p = k * p + p /\ k * p \in Nat
  BY OneMorePoll
<1>. DEFINE q == timeout_ms \div PollPeriod
<1>4. /\ q \in Nat /\ q * PollPeriod <= timeout_ms /\ q * PollPeriod + PollPeriod > timeout_ms
      /\ MaxMissed = q + 1
  BY <1>1, MonitoringConstants DEF MaxMissed
<1>. HIDE DEF q
<1>5. (q + 1) * PollPeriod > timeout_ms
  BY <1>3, <1>4, MonitoringConstants
<1>6. ASSUME NEW k \in 0 .. MaxMissed - 1
      PROVE  k * PollPeriod <= timeout_ms
  <2>1. k \in Nat /\ k <= q
    BY <1>4
  <2>2. k * PollPeriod <= q * PollPeriod /\ k * PollPeriod \in Nat /\ q * PollPeriod \in Nat
    BY <1>2, <1>3, <1>4, <2>1, MonitoringConstants
  <2>3. QED
    BY <1>4, <2>2, MonitoringConstants
<1>7. QED
  BY <1>4, <1>5, <1>6

-----------------------------------------------------------------------------
(* The invariant is inductive. *)

\* The controller after setup satisfies the invariant.
LEMMA InitMInv == MonitoringInit => MInv
<1>. SUFFICES ASSUME MonitoringInit PROVE MInv
  OBVIOUS
<1>1. Unseen \in NodeStatus
  BY MonitoringConstants DEF Unseen, NodeStatus
<1>2. TypeOK
  BY <1>1, MonitoringConstants DEF MonitoringInit, Init, TypeOK
<1>3. MonitoringTypeOK
  <2>1. missed \in [Polled -> 0 .. MaxMissed] /\ since \in 0 .. LoopGap
    BY MissedPolls, MonitoringConstants DEF MonitoringInit
  <2>2. QED
    BY <1>2, <2>1, MonitoringConstants DEF MonitoringInit, MonitoringTypeOK
<1>4. PassOnTime
  <2>1. Wrap(0 - 0) = 0
    BY NoDifference, MonitoringConstants
  <2>2. QED
    BY <2>1, MonitoringConstants DEF MonitoringInit, PassOnTime
<1>5. MissedCounted
  BY MonitoringConstants DEF MonitoringInit, Init, MissedCounted
<1>6. SilenceBounded
  BY DEF MonitoringInit, Init, SilenceBounded
<1>7. QED
  BY <1>3, <1>4, <1>5, <1>6 DEF MInv

\* The types that the invariant gives.
LEMMA MonitoringTypes ==
  ASSUME MInv
  PROVE  /\ TypeOK /\ now_ms \in TickValue /\ now \in TickValue /\ last_poll_ms \in TickValue
         /\ since \in 0 .. LoopGap
         /\ nodes \in [NodeIds -> NodeStatus] /\ present \in [NodeIds -> BOOLEAN]
         /\ silent \in [NodeIds -> 0 .. TickModulus] /\ missed \in [Polled -> 0 .. MaxMissed]
         /\ \A n \in NodeIds : nodes[n].last_seen_ms \in TickValue
         /\ PollPeriod \in Nat
BY MonitoringConstants DEF MInv, MonitoringTypeOK, TypeOK, NodeStatus

\* The time since the last pass is within the loop's gap.
LEMMA SinceType ==
  ASSUME MInv
  PROVE  since \in Nat /\ since <= LoopGap
BY MonitoringConstants DEF MInv, MonitoringTypeOK

\* A poll begins at most a PollPeriod after the one before.
LEMMA PollsAreOnTime ==
  ASSUME MInv
  PROVE  SincePoll <= PollPeriod /\ SincePoll \in Nat
         /\ SincePoll <= Wrap(now - last_poll_ms) + since
<1>1. /\ SincePoll <= Wrap(now_ms - now) + Wrap(now - last_poll_ms) /\ SincePoll \in TickValue
      /\ Wrap(now - last_poll_ms) \in TickValue
  BY MonitoringTypes, TickTriangle, TickDifference DEF SincePoll
<1>2. since = Wrap(now_ms - now) /\ Wrap(now - last_poll_ms) < kPollIntervalMs
  BY DEF MInv, PassOnTime
<1>3. QED
  BY <1>1, <1>2, MonitoringTypes, MonitoringConstants

\* The beginning of a pass keeps the invariant.
LEMMA BeginPassStep ==
  ASSUME MInv, BeginPass
  PROVE  MInv'
<1>1. /\ stage = Returned /\ now' = now_ms /\ since' = 0
      /\ UNCHANGED <<nodes, present, now_ms, silent, ret, connected, missed>>
  BY DEF BeginPass, vars
<1>2. /\ MonitoringTypeOK /\ PassOnTime /\ MissedCounted /\ SilenceBounded
      /\ 0 \in 0 .. LoopGap /\ 0 \in 0 .. PolledNodes /\ 0 # Returned
      /\ Wrap(now_ms - now_ms) = 0
  BY MonitoringTypes, NoDifference, MonitoringConstants DEF MInv, Returned
<1>3. TypeOK'
  BY <1>1, MonitoringTypes DEF TypeOK
<1>4. CASE ~PollDue
  <2>1. last_poll_ms' = last_poll_ms /\ stage' = stage
    BY <1>4 DEF BeginPass
  <2>2. MonitoringTypeOK'
    BY <1>1, <1>2, <1>3, <2>1, MonitoringTypes DEF MonitoringTypeOK
  <2>3. PassOnTime'
    <3>1. Wrap(now_ms - last_poll_ms) < kPollIntervalMs
      <4>1. Wrap(now_ms - last_poll_ms) \in Nat
        BY MonitoringTypes, TickDifference
      <4>2. QED
        BY <1>4, <4>1, MonitoringConstants DEF PollDue
    <3>2. QED
      BY <1>1, <1>2, <2>1, <3>1 DEF PassOnTime
  <2>4. MissedCounted' /\ SilenceBounded'
    BY <1>1, <1>2, <2>1 DEF MissedCounted, SilenceBounded, ToBeRead, Age, SincePoll
  <2>5. QED
    BY <2>2, <2>3, <2>4 DEF MInv
<1>5. CASE PollDue
  <2>1. last_poll_ms' = now_ms /\ stage' = 0
    BY <1>5 DEF BeginPass, LastPollAfter
  <2>2. MonitoringTypeOK'
    BY <1>1, <1>2, <1>3, <2>1, MonitoringTypes DEF MonitoringTypeOK
  <2>3. PassOnTime'
    BY <1>1, <1>2, <2>1, MonitoringConstants DEF PassOnTime
  <2>4. MissedCounted'
    <3>1. ASSUME NEW n \in Polled, present[n], missed[n] # MaxMissed
          PROVE  Wrap(now_ms - nodes[n].last_seen_ms) <= (missed[n] + 1) * PollPeriod
      <4>1. n \in NodeIds /\ nodes[n].last_seen_ms \in TickValue
        BY MonitoringTypes, MonitoringConstants
      <4>2. Wrap(now_ms - nodes[n].last_seen_ms)
              <= SincePoll + Wrap(last_poll_ms - nodes[n].last_seen_ms)
        BY <4>1, MonitoringTypes, TickTriangle DEF SincePoll
      <4>3. Wrap(last_poll_ms - nodes[n].last_seen_ms) <= (missed[n] + 0) * PollPeriod
        BY <1>1, <1>2, <3>1 DEF MissedCounted, ToBeRead
      <4>4. missed[n] \in Nat /\ missed[n] + 0 = missed[n]
        BY MissedPolls, MonitoringTypes
      <4>5. (missed[n] + 1) * PollPeriod = missed[n] * PollPeriod + PollPeriod
            /\ missed[n] * PollPeriod \in Nat
        BY <4>4, MonitoringConstants, OneMorePoll
      <4>6. Wrap(now_ms - nodes[n].last_seen_ms) \in Nat
            /\ Wrap(last_poll_ms - nodes[n].last_seen_ms) \in Nat
        BY <4>1, MonitoringTypes, TickDifference
      <4>7. QED
        BY <4>2, <4>3, <4>4, <4>5, <4>6, PollsAreOnTime, MonitoringConstants
    <3>2. ASSUME NEW n \in Polled
          PROVE  ToBeRead(n)'
      BY <1>2, <2>1 DEF ToBeRead, Polled
    <3>3. ASSUME NEW n \in Polled
          PROVE  present[n] /\ ~nodes[n].online => missed[n] = MaxMissed
      BY <1>2 DEF MissedCounted
    <3>4. QED
      BY <1>1, <2>1, <3>1, <3>2, <3>3
      DEF MissedCounted, MaxMissed, PollPeriod, Polled
  <2>5. SilenceBounded'
    <3>1. ASSUME NEW n \in NodeIds, present[n]
          PROVE  /\ silent[n] + LoopGap < TickModulus => /\ silent[n] <= Age(n)
                                                        /\ Age(n) <= silent[n] + LoopGap
                 /\ nodes[n].online => Age(n) <= timeout_ms + (PollPeriod + 0)
      <4>1. Age(n) \in Nat
        BY MonitoringTypes, TickDifference DEF Age
      <4>2. nodes[n].online => Age(n) <= timeout_ms + SincePoll
        BY <1>1, <1>2, <3>1 DEF SilenceBounded
      <4>3. QED
        BY <1>2, <3>1, <4>1, <4>2, PollsAreOnTime, MonitoringConstants DEF SilenceBounded
    <3>2. \A n \in NodeIds : Age(n)' = Age(n)
      BY <1>1 DEF Age
    <3>3. stage' # Returned
      BY <1>2, <2>1
    <3>4. QED
      BY <1>1, <3>1, <3>2, <3>3 DEF SilenceBounded, Returned, NodeIds, TickModulus, PollPeriod
  <2>6. QED
    BY <2>2, <2>3, <2>4, <2>5 DEF MInv
<1>6. QED
  BY <1>4, <1>5

\* A poll that is answered keeps the invariant.
LEMMA PollAnsweredStep ==
  ASSUME MInv, NEW n \in Polled, PollAnswered(n)
  PROVE  MInv'
<1>1. PICK q \in Sequences : observe(n, q, now)
  BY DEF PollAnswered
<1>2. /\ n \in NodeIds /\ n \in 0 .. PolledNodes - 1 /\ stage = n /\ stage' = n + 1
      /\ stage # Returned /\ stage' # Returned /\ last_poll_ms = now
      /\ UNCHANGED <<now, last_poll_ms, connected, since>>
      /\ missed' = [missed EXCEPT ![n] = 0]
  BY MonitoringConstants DEF PollAnswered, Polled, Returned, MInv, PassOnTime
<1>3. /\ nodes' = [nodes EXCEPT ![n] = Observed(q, now)]
      /\ present' = [present EXCEPT ![n] = TRUE]
      /\ silent' = [silent EXCEPT ![n] = 0]
      /\ ret' = "true" /\ now_ms' = now_ms
  BY <1>1, <1>2 DEF observe, ObserveOutside, ObserveTracked
<1>4. Observed(q, now) \in NodeStatus
  BY MonitoringTypes DEF Observed, NodeStatus
<1>5. TypeOK'
  BY <1>3, <1>4, MonitoringTypes, MonitoringConstants DEF TypeOK
<1>6. MonitoringTypeOK'
  <2>1. missed' \in [Polled -> 0 .. MaxMissed]
    BY <1>2, MonitoringTypes, MissedPolls
  <2>2. stage' \in 0 .. PolledNodes
    BY <1>2, MonitoringConstants
  <2>3. QED
    BY <1>2, <1>5, <2>1, <2>2 DEF MInv, MonitoringTypeOK
<1>7. PassOnTime'
  BY <1>2, <1>3 DEF MInv, PassOnTime
<1>8. /\ nodes'[n] = Observed(q, now) /\ nodes'[n].last_seen_ms = now /\ nodes'[n].online
      /\ missed'[n] = 0 /\ silent'[n] = 0
      /\ \A k \in NodeIds \ {n} : nodes'[k] = nodes[k] /\ present'[k] = present[k]
                                 /\ silent'[k] = silent[k]
      /\ \A k \in Polled \ {n} : missed'[k] = missed[k]
  BY <1>2, <1>3, MonitoringTypes DEF Observed
<1>9. MissedCounted'
  <2>. SUFFICES ASSUME NEW k \in Polled
                PROVE  /\ present'[k] /\ missed'[k] # MaxMissed =>
                            Wrap(last_poll_ms - nodes'[k].last_seen_ms)
                              <= (missed'[k] + (IF ToBeRead(k)' THEN 1 ELSE 0)) * PollPeriod
                       /\ present'[k] /\ ~nodes'[k].online => missed'[k] = MaxMissed
    BY <1>2 DEF MissedCounted, MaxMissed, PollPeriod, Polled
  <2>1. CASE k = n
    <3>1. Wrap(last_poll_ms - nodes'[k].last_seen_ms) = 0
      BY <1>2, <1>8, <2>1, MonitoringTypes, NoDifference
    <3>2. ~ToBeRead(k)'
      BY <1>2, <2>1 DEF ToBeRead
    <3>3. (0 + 0) * PollPeriod = 0
      BY MonitoringConstants
    <3>4. QED
      BY <1>8, <2>1, <3>1, <3>2, <3>3
  <2>2. CASE k # n
    <3>1. ToBeRead(k)' <=> ToBeRead(k)
      BY <1>2, <2>2 DEF ToBeRead, Polled
    <3>2. QED
      BY <1>8, <2>2, <3>1, MonitoringConstants DEF MInv, MissedCounted
  <2>3. QED
    BY <2>1, <2>2
<1>10. SilenceBounded'
  <2>. SUFFICES ASSUME NEW k \in NodeIds, present'[k]
                PROVE  /\ silent'[k] + LoopGap < TickModulus =>
                            silent'[k] <= Age(k)' /\ Age(k)' <= silent'[k] + LoopGap
                       /\ nodes'[k].online => Age(k)' <= timeout_ms + (PollPeriod + since)
    BY <1>2 DEF SilenceBounded, NodeIds, TickModulus, PollPeriod
  <2>1. CASE k = n
    <3>1. Age(k)' = since /\ since \in 0 .. LoopGap
      BY <1>3, <1>8, <2>1, MonitoringTypes DEF Age, MInv, PassOnTime
    <3>2. QED
      BY <1>8, <2>1, <3>1, MonitoringConstants
  <2>2. CASE k # n
    <3>1. Age(k)' = Age(k)
      BY <1>3, <1>8, <2>2 DEF Age
    <3>2. QED
      BY <1>2, <1>8, <2>2, <3>1 DEF MInv, SilenceBounded
  <2>3. QED
    BY <2>1, <2>2
<1>11. QED
  BY <1>6, <1>7, <1>9, <1>10 DEF MInv

\* A poll that fails keeps the invariant: one more is missed.
LEMMA PollUnansweredStep ==
  ASSUME MInv, NEW n \in Polled, PollUnanswered(n)
  PROVE  MInv'
<1>1. /\ n \in NodeIds /\ n \in 0 .. PolledNodes - 1 /\ stage = n /\ stage' = n + 1
      /\ stage # Returned /\ stage' # Returned
      /\ UNCHANGED <<nodes, present, now_ms, silent, ret, now, last_poll_ms, connected, since>>
      /\ missed' = [missed EXCEPT ![n] = IF @ < MaxMissed THEN @ + 1 ELSE @]
  BY MonitoringConstants DEF PollUnanswered, Polled, Returned, vars
<1>2. missed[n] \in 0 .. MaxMissed /\ MaxMissed \in Nat
  BY MissedPolls, MonitoringTypes
<1>3. missed'[n] = (IF missed[n] < MaxMissed THEN missed[n] + 1 ELSE missed[n])
      /\ \A k \in Polled \ {n} : missed'[k] = missed[k]
  BY <1>1, MonitoringTypes
<1>4. MonitoringTypeOK'
  <2>1. missed' \in [Polled -> 0 .. MaxMissed]
    BY <1>1, <1>2, MonitoringTypes
  <2>2. stage' \in 0 .. PolledNodes
    BY <1>1, MonitoringConstants
  <2>3. QED
    BY <1>1, <2>1, <2>2 DEF MInv, MonitoringTypeOK, TypeOK
<1>5. PassOnTime' /\ SilenceBounded'
  BY <1>1 DEF MInv, PassOnTime, SilenceBounded, Age, SincePoll
<1>6. MissedCounted'
  <2>. SUFFICES ASSUME NEW k \in Polled
                PROVE  /\ present[k] /\ missed'[k] # MaxMissed =>
                            Wrap(last_poll_ms - nodes[k].last_seen_ms)
                              <= (missed'[k] + (IF ToBeRead(k)' THEN 1 ELSE 0)) * PollPeriod
                       /\ present[k] /\ ~nodes[k].online => missed'[k] = MaxMissed
    BY <1>1 DEF MissedCounted, MaxMissed, PollPeriod, Polled
  <2>1. CASE k = n
    <3>1. ToBeRead(k) /\ ~ToBeRead(k)'
      BY <1>1, <2>1 DEF ToBeRead
    <3>2. present[k] /\ missed[k] # MaxMissed =>
            Wrap(last_poll_ms - nodes[k].last_seen_ms) <= (missed[k] + 1) * PollPeriod
      BY <3>1 DEF MInv, MissedCounted
    <3>3. missed'[k] # MaxMissed => missed[k] # MaxMissed /\ missed'[k] + 0 = missed[k] + 1
      BY <1>2, <1>3, <2>1
    <3>4. missed[k] = MaxMissed => missed'[k] = MaxMissed
      BY <1>2, <1>3, <2>1
    <3>5. present[k] /\ ~nodes[k].online => missed[k] = MaxMissed
      BY DEF MInv, MissedCounted
    <3>6. QED
      BY <3>1, <3>2, <3>3, <3>4, <3>5
  <2>2. CASE k # n
    <3>1. ToBeRead(k)' <=> ToBeRead(k)
      BY <1>1, <2>2 DEF ToBeRead, Polled
    <3>2. QED
      BY <1>3, <2>2, <3>1 DEF MInv, MissedCounted
  <2>3. QED
    BY <2>1, <2>2
<1>7. QED
  BY <1>4, <1>5, <1>6 DEF MInv

\* The refresh at the end of a pass keeps the invariant.
LEMMA RefreshPassStep ==
  ASSUME MInv, RefreshPass
  PROVE  MInv'
<1>1. /\ stage = PolledNodes /\ stage' = Returned /\ stage # Returned /\ last_poll_ms = now
      /\ UNCHANGED <<present, now_ms, silent, now, last_poll_ms, connected, missed, since>>
      /\ ret' = "refreshed"
  BY MonitoringConstants DEF RefreshPass, refresh, Returned, MInv, PassOnTime
<1>2. ASSUME NEW k \in NodeIds
      PROVE  /\ nodes'[k] \in NodeStatus /\ nodes'[k].last_seen_ms = nodes[k].last_seen_ms
             /\ present[k] => (nodes'[k].online
                                <=> Wrap(now - nodes[k].last_seen_ms) <= timeout_ms)
  <2>1. nodes[k] \in NodeStatus /\ InTime(k, now) \in BOOLEAN
    BY MonitoringTypes DEF InTime
  <2>2. /\ [nodes[k] EXCEPT !.online = InTime(k, now)] \in NodeStatus
        /\ [nodes[k] EXCEPT !.online = InTime(k, now)].last_seen_ms = nodes[k].last_seen_ms
        /\ [nodes[k] EXCEPT !.online = InTime(k, now)].online = InTime(k, now)
    BY <2>1 DEF NodeStatus
  <2>3. nodes'[k] = IF present[k] THEN [nodes[k] EXCEPT !.online = InTime(k, now)] ELSE nodes[k]
    BY DEF RefreshPass, refresh
  <2>4. CASE present[k]
    <3>1. nodes'[k] = [nodes[k] EXCEPT !.online = InTime(k, now)]
      BY <2>3, <2>4
    <3>2. nodes'[k].online <=> InTime(k, now)
      BY <2>2, <3>1, Zenon
    <3>3. QED
      BY <2>2, <3>1, <3>2 DEF InTime
  <2>5. CASE ~present[k]
    BY <2>1, <2>3, <2>5
  <2>6. QED
    BY <2>4, <2>5
<1>3. nodes' \in [NodeIds -> NodeStatus]
  BY <1>2 DEF RefreshPass, refresh
<1>4. MonitoringTypeOK'
  BY <1>1, <1>3 DEF MInv, MonitoringTypeOK, TypeOK
<1>5. PassOnTime'
  BY <1>1 DEF MInv, PassOnTime
<1>6. MissedCounted'
  <2>. SUFFICES ASSUME NEW k \in Polled, present[k]
                PROVE  /\ missed[k] # MaxMissed =>
                            Wrap(last_poll_ms - nodes[k].last_seen_ms)
                              <= (missed[k] + 0) * PollPeriod
                       /\ ~nodes'[k].online => missed[k] = MaxMissed
    BY <1>1, <1>2, MonitoringConstants
    DEF MissedCounted, ToBeRead, Returned, MaxMissed, PollPeriod, Polled
  <2>1. ~ToBeRead(k) /\ k \in NodeIds
    BY <1>1, MonitoringConstants DEF ToBeRead, Polled
  <2>2. missed[k] # MaxMissed =>
          Wrap(last_poll_ms - nodes[k].last_seen_ms) <= (missed[k] + 0) * PollPeriod
    BY <2>1 DEF MInv, MissedCounted
  <2>3. ASSUME missed[k] # MaxMissed
        PROVE  Wrap(now - nodes[k].last_seen_ms) <= timeout_ms
    <3>1. missed[k] \in 0 .. MaxMissed - 1 /\ missed[k] \in Nat /\ missed[k] + 0 = missed[k]
      BY <2>3, MonitoringTypes, MissedPolls
    <3>2. missed[k] * PollPeriod <= timeout_ms /\ missed[k] * PollPeriod \in Nat
      BY <3>1, MissedPolls, OneMorePoll, MonitoringConstants
    <3>3. Wrap(now - nodes[k].last_seen_ms) \in Nat
      BY <2>1, MonitoringTypes, TickDifference
    <3>4. Wrap(now - nodes[k].last_seen_ms) <= missed[k] * PollPeriod
      BY <1>1, <2>2, <2>3, <3>1
    <3>5. QED
      BY <3>2, <3>3, <3>4, MonitoringConstants
  <2>4. QED
    BY <1>2, <2>1, <2>2, <2>3
<1>7. SilenceBounded'
  <2>. SUFFICES ASSUME NEW k \in NodeIds, present[k]
                PROVE  /\ silent[k] + LoopGap < TickModulus =>
                            silent[k] <= Age(k)' /\ Age(k)' <= silent[k] + LoopGap
                       /\ nodes'[k].online => Age(k)' <= timeout_ms + SincePoll'
    BY <1>1 DEF SilenceBounded, NodeIds, TickModulus
  <2>1. Age(k)' = Age(k) /\ SincePoll' = since
    BY <1>1, <1>2 DEF Age, SincePoll, MInv, PassOnTime
  <2>2. Age(k) <= Wrap(now_ms - now) + Wrap(now - nodes[k].last_seen_ms)
        /\ Age(k) \in Nat /\ Wrap(now - nodes[k].last_seen_ms) \in Nat
    BY MonitoringTypes, TickTriangle, TickDifference DEF Age
  <2>3. nodes'[k].online => Wrap(now - nodes[k].last_seen_ms) <= timeout_ms
    BY <1>2
  <2>4. nodes'[k].online => Age(k) <= timeout_ms + since
    <3>1. since = Wrap(now_ms - now)
      BY DEF MInv, PassOnTime
    <3>2. QED
      BY <2>2, <2>3, <3>1, SinceType, MonitoringConstants
  <2>5. QED
    BY <2>1, <2>4 DEF MInv, SilenceBounded
<1>8. QED
  BY <1>4, <1>5, <1>6, <1>7 DEF MInv

\* Time between two passes keeps the invariant.
LEMMA PassTimeStep ==
  ASSUME MInv, PassTime
  PROVE  MInv'
<1>1. /\ since < LoopGap /\ since' = since + 1 /\ now_ms' = Wrap(now_ms + 1)
      /\ UNCHANGED <<nodes, present, now, last_poll_ms, stage, connected, missed>>
      /\ ret' = "none"
      /\ silent' = [n \in NodeIds |-> IF present[n] /\ silent[n] < TickModulus
                                        THEN silent[n] + 1 ELSE silent[n]]
  BY DEF PassTime, Tick
<1>2. TypeOK'
  <2>1. now_ms' \in TickValue
    BY <1>1, MonitoringTypes, NextTick
  <2>2. silent' \in [NodeIds -> 0 .. TickModulus]
    BY <1>1, MonitoringTypes, MonitoringConstants
  <2>3. QED
    BY <1>1, <2>1, <2>2, MonitoringTypes DEF TypeOK
<1>3. MonitoringTypeOK'
  BY <1>1, <1>2, MonitoringTypes, MonitoringConstants DEF MInv, MonitoringTypeOK
<1>4. since' = Wrap(now_ms' - now)
  <2>1. Wrap(now_ms - now) = since
    BY DEF MInv, PassOnTime
  <2>2. since + 1 < TickModulus
    BY <1>1, MonitoringTypes, MonitoringConstants
  <2>3. Wrap(Wrap(now_ms + 1) - now) = since + 1
    BY <2>1, <2>2, MonitoringTypes, NextTick
  <2>4. QED
    BY <1>1, <2>3
<1>5. PassOnTime'
  BY <1>1, <1>4 DEF MInv, PassOnTime
<1>6. MissedCounted'
  BY <1>1 DEF MInv, MissedCounted, ToBeRead
<1>7. SincePoll' = SincePoll + 1 /\ SincePoll \in Nat
  <2>1. SincePoll + 1 < TickModulus /\ SincePoll \in Nat
    <3>1. SincePoll <= Wrap(now - last_poll_ms) + since /\ SincePoll \in Nat
      BY PollsAreOnTime
    <3>2. Wrap(now - last_poll_ms) < kPollIntervalMs /\ Wrap(now - last_poll_ms) \in Nat
      BY MonitoringTypes, TickDifference DEF MInv, PassOnTime
    <3>3. QED
      BY <1>1, <3>1, <3>2, SinceType, MonitoringConstants
  <2>2. QED
    BY <1>1, <2>1, MonitoringTypes, NextTick DEF SincePoll
<1>8. SilenceBounded'
  <2>. SUFFICES ASSUME NEW k \in NodeIds, present[k]
                PROVE  /\ silent'[k] + LoopGap < TickModulus =>
                            silent'[k] <= Age(k)' /\ Age(k)' <= silent'[k] + LoopGap
                       /\ nodes[k].online =>
                            Age(k)' <= timeout_ms + (IF stage = Returned THEN SincePoll'
                                                     ELSE PollPeriod + since')
    BY <1>1 DEF SilenceBounded, NodeIds, TickModulus, PollPeriod, Returned
  <2>1. /\ Age(k)' <= Age(k) + 1 /\ Age(k) \in Nat /\ Age(k)' \in Nat
        /\ Age(k) + 1 < TickModulus => Age(k)' = Age(k) + 1
    <3>1. nodes[k].last_seen_ms \in TickValue /\ now_ms' \in TickValue
      BY <1>2, MonitoringTypes DEF TypeOK
    <3>2. QED
      BY <1>1, <3>1, MonitoringTypes, NextTick, TickDifference DEF Age
  <2>2. /\ silent[k] + LoopGap < TickModulus => /\ silent[k] <= Age(k)
                                               /\ Age(k) <= silent[k] + LoopGap
        /\ nodes[k].online =>
             Age(k) <= timeout_ms + (IF stage = Returned THEN SincePoll ELSE PollPeriod + since)
    BY DEF MInv, SilenceBounded
  <2>3. silent[k] \in 0 .. TickModulus
        /\ silent'[k] = IF silent[k] < TickModulus THEN silent[k] + 1 ELSE silent[k]
    BY <1>1, MonitoringTypes
  <2>4. silent'[k] + LoopGap < TickModulus =>
          silent'[k] <= Age(k)' /\ Age(k)' <= silent'[k] + LoopGap
    BY <2>1, <2>2, <2>3, MonitoringConstants
  <2>5. nodes[k].online =>
          Age(k)' <= timeout_ms + (IF stage = Returned THEN SincePoll' ELSE PollPeriod + since')
    <3>1. CASE stage = Returned
      <4>1. nodes[k].online => Age(k) <= timeout_ms + SincePoll
        BY <2>2, <3>1
      <4>2. nodes[k].online => Age(k)' <= timeout_ms + SincePoll'
        BY <1>7, <2>1, <4>1, MonitoringConstants
      <4>3. QED
        BY <3>1, <4>2
    <3>2. CASE stage # Returned
      <4>1. nodes[k].online => Age(k) <= timeout_ms + (PollPeriod + since)
        BY <2>2, <3>2
      <4>2. since' = since + 1 /\ since \in Nat /\ PollPeriod \in Int /\ timeout_ms \in Nat
        BY <1>1, SinceType, MonitoringConstants DEF PollPeriod
      <4>3. nodes[k].online => Age(k)' <= timeout_ms + (PollPeriod + since')
        BY <2>1, <4>1, <4>2
      <4>4. QED
        BY <3>2, <4>3
    <3>3. QED
      BY <3>1, <3>2
  <2>6. QED
    BY <2>4, <2>5
<1>9. QED
  BY <1>3, <1>5, <1>6, <1>8 DEF MInv

\* A node that comes or goes keeps the invariant.
LEMMA ConnectStep ==
  ASSUME MInv, (\E n \in Polled : Connect(n)) \/ UNCHANGED monitoringVars
  PROVE  MInv'
<1>1. /\ UNCHANGED <<nodes, present, now_ms, silent, ret, now, last_poll_ms, stage, missed, since>>
      /\ connected' \subseteq Polled
  BY DEF Connect, monitoringVars, vars, MInv, MonitoringTypeOK
<1>2. QED
  BY <1>1 DEF MInv, MonitoringTypeOK, TypeOK, PassOnTime, MissedCounted, SilenceBounded,
              ToBeRead, Age, SincePoll

\* The invariant holds in every state of the controller.
THEOREM MonitoringInvariant == MonitoringSpec => []MInv
<1>1. MInv /\ [MonitoringNext]_monitoringVars => MInv'
  BY BeginPassStep, PollAnsweredStep, PollUnansweredStep, RefreshPassStep, PassTimeStep, ConnectStep
  DEF MonitoringNext, LoopStep
<1>2. QED
  BY <1>1, InitMInv, PTL DEF MonitoringSpec

-----------------------------------------------------------------------------

(***************************************************************************)
(* The loop's ticks stay ticks and it reads no node it has no transport    *)
(* for.                                                                    *)
(***************************************************************************)
THEOREM MonitoringTypeCorrect == MonitoringSpec => []MonitoringTypeOK
<1>1. MInv => MonitoringTypeOK
  BY DEF MInv
<1>2. QED
  BY <1>1, MonitoringInvariant, PTL

(***************************************************************************)
(* A node is never shown offline before as many polls in a row have gone   *)
(* unanswered as the timeout is long.                                      *)
(***************************************************************************)
THEOREM NoFalseAlarm == MonitoringSpec => []OfflineOnlyAfterMissedPolls
<1>1. MInv => OfflineOnlyAfterMissedPolls
  BY MissedPolls, MonitoringConstants DEF MInv, MissedCounted, OfflineOnlyAfterMissedPolls, Online
<1>2. QED
  BY <1>1, MonitoringInvariant, PTL

(***************************************************************************)
(* A node is never shown online longer than the timeout, the poll interval *)
(* and two passes after its last frame, within one turn of the tick.       *)
(***************************************************************************)
THEOREM NoLateAlarm == MonitoringSpec => []OnlineOnlyWhileHeard
<1>1. MInv => OnlineOnlyWhileHeard
  <2>. SUFFICES ASSUME MInv, NEW n \in Online, ~ (silent[n] + LoopGap >= TickModulus)
                PROVE  silent[n] <= timeout_ms + PollPeriod + LoopGap
    BY DEF OnlineOnlyWhileHeard
  <2>1. n \in NodeIds /\ present[n] /\ nodes[n].online
    BY DEF Online
  <2>2. silent[n] \in 0 .. TickModulus
    BY <2>1, MonitoringTypes
  <2>3. silent[n] <= Age(n) /\ Age(n) \in Nat
    <3>1. Age(n) \in Nat
      BY <2>1, MonitoringTypes, TickDifference DEF Age
    <3>2. silent[n] + LoopGap < TickModulus
      BY <2>2, MonitoringConstants
    <3>3. QED
      BY <2>1, <3>1, <3>2 DEF MInv, SilenceBounded
  <2>4. Age(n) <= timeout_ms + (IF stage = Returned THEN SincePoll ELSE PollPeriod + since)
    BY <2>1 DEF MInv, SilenceBounded
  <2>5. /\ SincePoll \in Nat /\ SincePoll <= PollPeriod /\ since \in Nat /\ since <= LoopGap
        /\ PollPeriod \in Int /\ LoopGap \in Nat /\ timeout_ms \in Nat
    BY PollsAreOnTime, SinceType, MonitoringConstants DEF PollPeriod
  <2>6. Age(n) <= timeout_ms + PollPeriod + LoopGap
    BY <2>3, <2>4, <2>5
  <2>7. QED
    BY <2>2, <2>3, <2>5, <2>6
<1>2. QED
  BY <1>1, MonitoringInvariant, PTL

==============================================================================
