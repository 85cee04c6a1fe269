------------------------ MODULE ReliableCommand_proof ------------------------
(***************************************************************************)
(* The commanded node: its types, that commands are settled in time, that  *)
(* none is given up without the losses that explain it, and that what is   *)
(* reported accepted was received, for every policy, every interval and    *)
(* every width of the tick and of the sequence number.                     *)
(***************************************************************************)
EXTENDS ReliableCommand, ReliableQueue_proof

(***************************************************************************)
(* The intervals in their order.                                           *)
(***************************************************************************)
LEMMA Intervals ==
  /\ kReceivePoll \in Nat /\ kReceivePoll >= 1
  /\ timeout_ms \in Nat /\ kReceivePoll < timeout_ms
  /\ max_attempts \in Nat /\ max_attempts >= 1
  /\ kHeartbeatInterval \in Nat /\ timeout_ms * max_attempts < kHeartbeatInterval
  /\ kCommandInterval \in Nat /\ kHeartbeatInterval <= kCommandInterval
  /\ MaxLosses \in Nat
BY CommandAssumption, Constants

(***************************************************************************)
(* A sequence number counted up in a uint8_t is a sequence number.         *)
(***************************************************************************)
LEMMA NextSequenceType ==
  ASSUME sequence_number \in Sequences
  PROVE  NextSequence \in Sequences /\ 0 \in Sequences
<1>1. Cardinality(Sequences) \in Nat
  BY CommandAssumption, FS_CardinalityType
<1>2. Sequences = 0 .. Cardinality(Sequences) - 1 /\ 0 \in Sequences
  BY CommandAssumption, FramesAssumption
<1> DEFINE n == Cardinality(Sequences)
<1>3. n \in Nat /\ Sequences = 0 .. n - 1 /\ 0 \in Sequences
  BY <1>1, <1>2
<1>4. NextSequence = (sequence_number + 1) % n
  BY DEF NextSequence
<1> HIDE DEF n
<1>5. n >= 1 /\ sequence_number \in Nat
  BY <1>3
<1> QED BY <1>3, <1>4, <1>5

\* The command is a frame the queue accepts.
LEMMA CommandFrameType ==
  ASSUME sequence_number \in Sequences
  PROVE  CommandFrame \in Frame
BY CommandAssumption, FramesAssumption DEF CommandFrame, Frame, Flags, kNodeId

\* An acknowledgement is a frame the node may publish.
LEMMA AckType ==
  ASSUME NEW n \in Sequences
  PROVE  make_ack_frame(kNodeId, n, "accepted") \in PublishedFrame
BY DEF PublishedFrame

(***************************************************************************)
(* What parse_ack_frame makes of the frames a node publishes.              *)
(***************************************************************************)
LEMMA PublishedAck ==
  ASSUME NEW f \in PublishedFrame
  PROVE  /\ ParsesAsAck(f) => /\ AcknowledgedSequence(f) \in Sequences
                              /\ f.node_id = kNodeId /\ StatusOf(f) \in AckStatus
         /\ \A n \in Sequences : f = make_ack_frame(kNodeId, n, "accepted") =>
              /\ ParsesAsAck(f) /\ AcknowledgedSequence(f) = n
              /\ f.type = "acknowledgement"
<1>1. ASSUME NEW n \in Sequences, f = make_ack_frame(kNodeId, n, "accepted")
      PROVE  /\ ParsesAsAck(f) /\ AcknowledgedSequence(f) = n
             /\ f.node_id = kNodeId /\ StatusOf(f) \in AckStatus /\ f.type = "acknowledgement"
  <2>1. f.type = "acknowledgement" /\ f.node_id = kNodeId
    BY <1>1 DEF make_ack_frame
  <2>2. f.payload = <<n, StatusByte["accepted"]>>
    BY <1>1 DEF make_ack_frame
  <2>3. StatusByte["accepted"] = 0 /\ StatusByte.malformed = 4
    BY DEF StatusByte
  <2>4. Len(f.payload) = 2 /\ f.payload[1] = n /\ f.payload[2] = 0
    BY <2>2, <2>3
  <2>5. StatusOf(f) \in AckStatus
    <3>1. "accepted" \in AckStatus /\ StatusByte["accepted"] = f.payload[2]
      BY <2>3, <2>4 DEF AckStatus
    <3> QED BY <3>1 DEF StatusOf
  <2> QED BY <2>1, <2>3, <2>4, <2>5 DEF ParsesAsAck, AcknowledgedSequence
<1>2. CASE f \in {Heartbeat, NoFrame}
  BY <1>1, <1>2 DEF ParsesAsAck, Heartbeat, NoFrame
<1>3. CASE \E n \in Sequences : f = make_ack_frame(kNodeId, n, "accepted")
  BY <1>1, <1>3
<1> QED BY <1>1, <1>2, <1>3 DEF PublishedFrame

-----------------------------------------------------------------------------
(***************************************************************************)
(* Types.                                                                  *)
(***************************************************************************)

CInv == IInv /\ CommandTypeOK

\* The controller's restart leaves an empty queue.
QueueRestarts ==
  /\ slots' = [i \in SlotIds |-> EmptySlot] /\ age' = [i \in SlotIds |-> 0]
  /\ now_ms' = 0 /\ ret' = [call |-> "none"]

(***************************************************************************)
(* The controller uses the queue as its callers may.                       *)
(***************************************************************************)
LEMMA QueueSteps ==
  ASSUME CInv, CommandNext
  PROVE  [Next]_vars \/ QueueRestarts
<1>1. ASSUME enqueueCommand PROVE Next
  BY <1>1, CommandFrameType DEF enqueueCommand, CInv, CommandTypeOK, Next
<1>2. CASE setup
  BY <1>1, <1>2 DEF setup
<1>3. CASE CommandStep
  BY <1>1, <1>3 DEF CommandStep
<1>4. CASE transmitDue
  BY <1>4 DEF transmitDue, Next
<1>5. CASE EndRead
  <2>1. CASE /\ ParsesAsAck(reply)
             /\ acknowledge(<<reply.node_id, AcknowledgedSequence(reply)>>, StatusOf(reply))
    <3>1. /\ AcknowledgedSequence(reply) \in Sequences /\ StatusOf(reply) \in AckStatus
          /\ reply.node_id = kNodeId
      BY <2>1, PublishedAck DEF CInv, CommandTypeOK
    <3>2. <<reply.node_id, AcknowledgedSequence(reply)>> \in NodeIds \X Sequences
      BY <3>1, FramesAssumption DEF kNodeId
    <3> QED BY <2>1, <3>1, <3>2 DEF Next
  <2>2. CASE UNCHANGED vars
    BY <2>2
  <2> QED BY <1>5, <2>1, <2>2 DEF EndRead
<1>6. CASE CommandTick
  BY <1>6 DEF CommandTick, Next
<1>7. CASE BeginRead \/ NodeStep \/ NodeRestarts
  BY <1>7 DEF BeginRead, NodeStep, NodeSetup, HeartbeatStep, PollStep, NodeRestarts
<1>8. CASE ControllerRestarts
  BY <1>8 DEF ControllerRestarts, QueueRestarts
<1> QED BY <1>2, <1>3, <1>4, <1>5, <1>6, <1>7, <1>8 DEF CommandNext, ControllerStep

\* Every step of controller and node keeps the invariant of the queue inside.
LEMMA QueueSound ==
  ASSUME CInv, CommandNext
  PROVE  IInv'
<1>1. CASE [Next]_vars
  BY <1>1, NextSound DEF CInv
<1>2. CASE QueueRestarts
  <2>1. SlotsOK'
    BY <1>2, Constants DEF SlotsOK, QueueRestarts
  <2>2. Active' = {}
    BY <1>2 DEF Active, EmptySlot, QueueRestarts
  <2>3. ret' \in Result
    BY <1>2 DEF QueueRestarts, Result
  <2> QED
    BY <2>1, <2>2, <2>3 DEF IInv, Sound, UniqueKeys, DeadlineTracksAge, PendingWellFormed
<1> QED BY <1>1, <1>2, QueueSteps

Letter == [frame : Frame, current : BOOLEAN]

Inboxes == {<<>>} \cup {<<m>> : m \in Letter}

(***************************************************************************)
(* A new command leaves the frame in the node's endpoint where it is.      *)
(***************************************************************************)
LEMMA OlderInbox ==
  ASSUME NEW box \in Inboxes
  PROVE  [i \in DOMAIN box |-> [box[i] EXCEPT !.current = FALSE]] \in Inboxes
<1> DEFINE older == [i \in DOMAIN box |-> [box[i] EXCEPT !.current = FALSE]]
<1>1. CASE box = <<>>
  <2>1. DOMAIN box = {}
    BY <1>1
  <2>2. older = <<>>
    BY <2>1
  <2> QED BY <2>2 DEF Inboxes
<1>2. ASSUME NEW m \in Letter, box = <<m>> PROVE older \in Inboxes
  <2>1. DOMAIN box = 1 .. 1 /\ box[1] = m
    BY <1>2
  <2>2. [m EXCEPT !.current = FALSE] \in Letter
    BY DEF Letter
  <2>3. older = [i \in 1 .. 1 |-> [m EXCEPT !.current = FALSE]]
    <3>1. \A i \in 1 .. 1 : box[i] = m
      BY <2>1
    <3> QED BY <2>1, <3>1, Zenon
  <2>4. older = <<[m EXCEPT !.current = FALSE]>>
    BY <2>3
  <2> QED BY <2>2, <2>4 DEF Inboxes
<1> QED BY <1>1, <1>2 DEF Inboxes

\* Zero is in the range of every counter.
LEMMA Zeros ==
  /\ 0 \in 0 .. kCommandInterval /\ 0 \in 0 .. kReceivePoll
  /\ 0 \in 0 .. kHeartbeatInterval /\ 0 \in 0 .. MaxLosses
  /\ 0 \in Sequences
BY Intervals, FramesAssumption

\* A loss is counted up to its bound.
LEMMA LosingType ==
  ASSUME losses \in 0 .. MaxLosses, Lose
  PROVE  losses' \in 0 .. MaxLosses
BY Intervals DEF Lose

\* publish leaves a frame in the mailbox, new or old.
LEMMA PublishType ==
  ASSUME CommandTypeOK, NEW f \in PublishedFrame, publish(f)
  PROVE  mailbox' \in PublishedFrame /\ losses' \in 0 .. MaxLosses
BY LosingType DEF CommandTypeOK, publish

\* A timer stops at its interval.
LEMMA LaterType ==
  ASSUME NEW interval \in Nat, NEW since \in 0 .. interval
  PROVE  Later(since, interval) \in 0 .. interval
BY DEF Later

\* The conjuncts of CommandTypeOK that are not the queue's.
CommandTypes ==
  /\ sequence_number \in Sequences
  /\ since_command \in 0 .. kCommandInterval /\ since_receive \in 0 .. kReceivePoll
  /\ controller \in {"setup", "command", "transmit", "receive", "reading", "done"}
  /\ reply \in PublishedFrame /\ mailbox \in PublishedFrame
  /\ inbox \in Inboxes
  /\ since_heartbeat \in 0 .. kHeartbeatInterval
  /\ node \in {"setup", "heartbeat", "poll", "done", "boot"}
  /\ received \in BOOLEAN /\ losses \in 0 .. MaxLosses

\* The types of the composition are those of the queue and the rest.
LEMMA TypesAreTypes == CommandTypeOK <=> TypeOK /\ CommandTypes
BY DEF CommandTypeOK, CommandTypes, Inboxes, Letter

\* The same in the next state.
LEMMA NextTypesAreTypes == (CommandTypeOK <=> TypeOK /\ CommandTypes)'
BY TypesAreTypes, PTL

\* A new command keeps the types.
LEMMA EnqueueTypes ==
  ASSUME CommandTypes, enqueueCommand
  PROVE  /\ sequence_number' \in Sequences /\ inbox' \in Inboxes
         /\ received' \in BOOLEAN /\ losses' \in 0 .. MaxLosses
<1>1. sequence_number' \in Sequences
  BY NextSequenceType DEF CommandTypes, enqueueCommand
<1>2. inbox' \in Inboxes
  BY OlderInbox DEF CommandTypes, enqueueCommand
<1> QED BY <1>1, <1>2, Zeros DEF enqueueCommand

\* The frames that do not depend on a sequence number.
LEMMA FixedFrames == Heartbeat \in PublishedFrame /\ NoFrame \in PublishedFrame /\ <<>> \in Inboxes
BY DEF PublishedFrame, Inboxes

\* A step of the controller keeps the types.
LEMMA ControllerTypes ==
  ASSUME CInv, CommandTypes, ControllerStep
  PROVE  CommandTypes'
<1>1. CASE setup
  BY <1>1, EnqueueTypes DEF setup, CommandTypes
<1>2. CASE CommandStep
  <2>1. CASE CommandDue
    BY <1>2, <2>1, EnqueueTypes, Intervals DEF CommandStep, CommandTypes
  <2>2. CASE ~CommandDue
    BY <1>2, <2>2 DEF CommandStep, CommandTypes, history
  <2> QED BY <2>1, <2>2
<1>3. CASE transmitDue
  <2>1. inbox' \in Inboxes /\ losses' \in 0 .. MaxLosses
    <3>1. CASE ret'.action = "send" /\ Present /\ Arrive(ret'.frame) /\ UNCHANGED losses
      <4>1. NextDueSend
        BY <1>3, <3>1 DEF transmitDue, next_due, NextDueNone, NextDueExhausted
      <4>2. FirstOf(Due) \in Active
        BY <4>1, DueIsActive DEF NextDueSend
      <4>3. ret'.frame = slots[FirstOf(Due)].frame
        BY <4>1 DEF NextDueSend
      <4>4. ret'.frame \in Frame
        BY <4>2, <4>3, HandedOutFrameType DEF CInv, IInv
      <4>5. [frame |-> ret'.frame, current |-> TRUE] \in Letter
        BY <4>4 DEF Letter
      <4> QED BY <3>1, <4>5 DEF Arrive, CommandTypes, Inboxes
    <3>2. CASE Lose /\ UNCHANGED inbox
      BY <3>2, LosingType DEF CommandTypes
    <3>3. CASE UNCHANGED <<inbox, losses>>
      BY <3>3 DEF CommandTypes
    <3> QED BY <1>3, <3>1, <3>2, <3>3 DEF transmitDue
  <2> QED BY <1>3, <2>1 DEF transmitDue, CommandTypes
<1>4. CASE BeginRead
  BY <1>4, Intervals DEF BeginRead, CommandTypes, nodeVars, history
<1>5. CASE EndRead
  <2>1. losses' \in 0 .. MaxLosses
    BY <1>5, LosingType DEF EndRead, CommandTypes
  <2> QED BY <1>5, <2>1, FixedFrames DEF EndRead, CommandTypes, nodeVars
<1> QED BY <1>1, <1>2, <1>3, <1>4, <1>5 DEF ControllerStep

\* A step of the node keeps the types.
LEMMA NodeTypes ==
  ASSUME CommandTypeOK, CommandTypes, NodeStep
  PROVE  CommandTypes'
<1>1. CASE NodeSetup
  BY <1>1, FixedFrames, PublishType DEF NodeSetup, CommandTypes, controllerVars
<1>2. CASE HeartbeatStep
  BY <1>2, FixedFrames, PublishType, Intervals DEF HeartbeatStep, CommandTypes, controllerVars
<1>3. CASE PollStep
  <2>1. mailbox' \in PublishedFrame /\ losses' \in 0 .. MaxLosses
    <3>1. CASE inbox # <<>> /\ kFlagAckRequired \in inbox[1].frame.flags
      <4>1. PICK m \in Letter : inbox = <<m>>
        BY <3>1 DEF CommandTypes, Inboxes
      <4>2. inbox[1] = m /\ m.frame \in Frame
        BY <4>1 DEF Letter
      <4>3. inbox[1].frame.sequence \in Sequences
        BY <4>2 DEF Frame
      <4> QED BY <1>3, <3>1, <4>3, AckType, PublishType DEF PollStep
    <3>2. CASE ~(inbox # <<>> /\ kFlagAckRequired \in inbox[1].frame.flags)
      BY <1>3, <3>2 DEF PollStep, CommandTypes
    <3> QED BY <3>1, <3>2
  <2>2. received' \in BOOLEAN
    BY <1>3 DEF PollStep, CommandTypes
  <2> QED BY <1>3, <2>1, <2>2, FixedFrames DEF PollStep, CommandTypes, controllerVars
<1> QED BY <1>1, <1>2, <1>3 DEF NodeStep

\* Every step keeps the types and the invariant of the queue.
LEMMA NextTypes ==
  ASSUME CInv, [CommandNext]_<<commandVars, endpoint>>
  PROVE  CInv'
<1>1. CommandTypes /\ CommandTypeOK
  BY TypesAreTypes DEF CInv
<1>2. CASE UNCHANGED <<commandVars, endpoint>>
  <2>1. CommandTypes'
    BY <1>1, <1>2 DEF CommandTypes, commandVars, controllerVars, nodeVars, history
  <2>2. UNCHANGED vars
    BY <1>2 DEF commandVars
  <2>3. IInv'
    BY <2>2, NextSound DEF CInv
  <2> QED BY <2>1, <2>3, NextTypesAreTypes DEF CInv, IInv, Sound, SlotsOK, TypeOK
<1>3. CASE CommandNext
  <2>1. IInv'
    BY <1>3, QueueSound
  <2>2. ASSUME ControllerStep PROVE CommandTypes'
    BY <1>1, <2>2, ControllerTypes
  <2>3. ASSUME NodeStep PROVE CommandTypes'
    BY <1>1, <2>3, NodeTypes
  <2>4. ASSUME CommandTick PROVE CommandTypes'
    <3>1. /\ since_command' \in 0 .. kCommandInterval /\ since_receive' \in 0 .. kReceivePoll
          /\ since_heartbeat' \in 0 .. kHeartbeatInterval
      BY <1>1, <2>4, LaterType, Intervals DEF CommandTick, CommandTypes
    <3> QED BY <1>1, <2>4, <3>1 DEF CommandTick, CommandTypes, history
  <2>5. ASSUME NodeRestarts PROVE CommandTypes'
    <3>1. losses' \in 0 .. MaxLosses
      BY <1>1, <2>5, LosingType DEF NodeRestarts, CommandTypes
    <3> QED BY <1>1, <2>5, <3>1, FixedFrames, Zeros
            DEF NodeRestarts, CommandTypes, controllerVars
  <2>6. ASSUME ControllerRestarts PROVE CommandTypes'
    BY <1>1, <2>6, FixedFrames, Zeros
       DEF ControllerRestarts, CommandTypes, nodeVars, history
  <2>7. CommandTypes'
    BY <1>3, <2>2, <2>3, <2>4, <2>5, <2>6 DEF CommandNext
  <2> QED BY <2>1, <2>7, NextTypesAreTypes DEF CInv, IInv, Sound, SlotsOK, TypeOK
<1> QED BY <1>2, <1>3

\* Controller and node begin with the types.
LEMMA InitTypes == CommandInit => CInv
<1> SUFFICES ASSUME CommandInit PROVE CInv
  OBVIOUS
<1>1. IInv
  BY InitSound DEF CommandInit
<1>2. CommandTypes
  BY FixedFrames, Zeros DEF CommandInit, CommandTypes
<1> QED BY <1>1, <1>2, TypesAreTypes DEF CInv, IInv, Sound, SlotsOK, TypeOK

\* The types and the invariant of the queue hold in every state.
LEMMA CommandInvariant == CommandSpec => []CInv
BY InitTypes, NextTypes, PTL DEF CommandSpec

(***************************************************************************)
(* The queue keeps its type in the controller's hands, the sequence number *)
(* stays a uint8_t, and nothing but heartbeats and acknowledgements is     *)
(* ever read from a node, whatever is lost and whoever restarts.           *)
(***************************************************************************)
THEOREM CommandTypeCorrect == CommandSpec => []CommandTypeOK
<1>1. CInv => CommandTypeOK
  BY DEF CInv
<1> QED BY <1>1, CommandInvariant, PTL

-----------------------------------------------------------------------------
(***************************************************************************)
(* The pace of a command: when it is sent, and how long its frame is at    *)
(* the node.                                                               *)
(***************************************************************************)

\* The controller's command, in the first slot of the queue.
Held == slots[0].active

Attempts == slots[0].attempts

Sent == Held /\ Attempts > 0

\* The time from a command to its n-th transmission.
Span(n) == (n - 1) * timeout_ms

OneSlot ==
  /\ \A i \in SlotIds \ {0} : ~slots[i].active
  /\ Held => slots[0].frame.node_id = kNodeId

BeforeTransmit == controller \in {"command", "transmit"}

(***************************************************************************)
(* A command is sent in the pass it is queued in, and again in the pass in *)
(* which its deadline comes, neither earlier nor later.                    *)
(***************************************************************************)
Timely ==
  /\ controller = "setup" => ~Held /\ since_command = 0
  /\ Held /\ Attempts = 0 => BeforeTransmit /\ since_command = 0 /\ age[0] = 0
  /\ Sent => /\ since_command = Span(Attempts) + age[0]
             /\ age[0] < timeout_ms \/ (age[0] = timeout_ms /\ BeforeTransmit)

\* The node has not yet polled in this tick.
Lag == IF node = "done" THEN 0 ELSE 1

(***************************************************************************)
(* The node takes a frame out of its endpoint one tick after it arrived,   *)
(* so that it is never a frame of an earlier command.                      *)
(***************************************************************************)
InboxFresh ==
  /\ ~Present => inbox = <<>> /\ mailbox = NoFrame
  /\ controller = "setup" \/ (Held /\ Attempts = 0) => inbox = <<>>
  /\ inbox # <<>> => /\ since_command <= Span(max_attempts) + Lag
                     /\ Held => inbox[1].frame = slots[0].frame /\ age[0] <= Lag

Clock == OneSlot /\ Timely

ClockInv == CInv /\ Clock

PacedInv == ClockInv /\ InboxFresh

-----------------------------------------------------------------------------

\* The time that n attempts take, below an interval of heartbeats.
LEMMA Spans ==
  /\ Span(1) = 0 /\ Span(max_attempts) \in Nat
  /\ Span(max_attempts) + timeout_ms < kHeartbeatInterval
  /\ \A n \in 1 .. max_attempts :
       Span(n) \in Nat /\ Span(n) <= Span(max_attempts) /\ Span(n + 1) = Span(n) + timeout_ms
<1> DEFINE m == max_attempts
<1> DEFINE t == timeout_ms
<1>1. m \in Nat /\ m >= 1 /\ t \in Nat /\ t * m < kHeartbeatInterval /\ kHeartbeatInterval \in Nat
  BY Intervals
<1>2. Span(1) = 0 /\ Span(m) = (m - 1) * t
  BY Intervals DEF Span
<1>3. \A n \in Nat : Span(n) = (n - 1) * t /\ Span(n + 1) = (n + 1 - 1) * t
  BY DEF Span
<1> HIDE DEF m, t
<1>4. (m - 1) * t \in Nat /\ (m - 1) * t + t = t * m
  BY <1>1
<1>5. ASSUME NEW n \in 1 .. m
      PROVE  Span(n) \in Nat /\ Span(n) <= Span(m) /\ Span(n + 1) = Span(n) + t
  <2>1. n \in Nat /\ n >= 1 /\ n <= m
    BY <1>1
  <2>2. (n - 1) * t \in Nat
    BY <1>1, <2>1
  <2>3. (n - 1) * t <= (m - 1) * t
    BY <1>1, <2>1
  <2>4. (n + 1 - 1) * t = (n - 1) * t + t
    BY <1>1, <2>1
  <2> QED BY <1>2, <1>3, <2>1, <2>2, <2>3, <2>4
<1>6. Span(m) \in Nat /\ Span(m) + t < kHeartbeatInterval
  BY <1>1, <1>2, <1>4
<1> QED BY <1>2, <1>5, <1>6 DEF m, t

\* The first slot, if it is among some, is the first of them.
LEMMA FirstIsZero ==
  ASSUME NEW S \in SUBSET SlotIds, 0 \in S
  PROVE  FirstOf(S) = 0
<1>1. \A j \in SlotIds : j \in Nat
  BY Constants DEF SlotIds
<1>2. FirstOf(S) \in S /\ \A j \in S : FirstOf(S) <= j
  BY <1>1 DEF FirstOf
<1> QED BY <1>1, <1>2

(***************************************************************************)
(* What is known of the first slot.                                        *)
(***************************************************************************)
LEMMA SlotZero ==
  ASSUME CInv
  PROVE  /\ 0 \in SlotIds /\ Held \in BOOLEAN /\ Attempts \in Nat /\ age[0] \in Nat
         /\ Held <=> 0 \in Active
         /\ Held => Attempts <= max_attempts /\ slots[0].frame \in Frame
         /\ Held => kFlagAckRequired \in slots[0].frame.flags
         /\ slots[0].frame.sequence \in Sequences
         /\ age[0] <= Forgotten
<1>1. 0 \in SlotIds
  BY Constants DEF SlotIds
<1>2. slots[0] \in Slot /\ age[0] \in 0 .. Forgotten
  BY <1>1 DEF CInv, IInv, Sound, SlotsOK
<1>3. Held <=> 0 \in Active
  BY <1>1 DEF Held, Active
<1>4. Held => Attempts <= max_attempts /\ kFlagAckRequired \in slots[0].frame.flags
  BY <1>3 DEF CInv, IInv, Sound, PendingWellFormed, Attempts
<1>5. slots[0].frame \in Frame /\ Held \in BOOLEAN /\ Attempts \in 0 .. 255
  BY <1>2 DEF Slot, Held, Attempts
<1>6. slots[0].frame.sequence \in Sequences
  BY <1>5 DEF Frame
<1>7. Forgotten \in Nat
  BY Constants
<1> QED BY <1>1, <1>2, <1>3, <1>4, <1>5, <1>6, <1>7

(***************************************************************************)
(* The queue's operations, as far as the first slot goes.                  *)
(***************************************************************************)

\* A new command takes the first slot, or none.
LEMMA EnqueueEffect ==
  ASSUME CInv, OneSlot, ~Held, enqueueCommand
  PROVE  /\ OneSlot' /\ ret'.call = "enqueue"
         /\ \/ ~Held' /\ ~FitsPayload(CommandFrame)
            \/ /\ Held' /\ FitsPayload(CommandFrame) /\ Attempts' = 0 /\ age'[0] = 0
               /\ slots'[0].frame = AckRequired(CommandFrame)
<1>1. /\ 0 \in SlotIds /\ 0 \notin Active
      /\ slots \in [SlotIds -> Slot] /\ age \in [SlotIds -> 0 .. Forgotten]
  BY SlotZero DEF CInv, IInv, Sound, SlotsOK
<1>2. CASE EnqueueInvalid(CommandFrame)
  <2>1. ~Duplicate(CommandFrame)
    BY <1>1 DEF Duplicate, Holds, OneSlot, Held
  <2> QED BY <1>2, <2>1 DEF EnqueueInvalid, OneSlot, Held, Attempts
<1>3. CASE EnqueueFull(CommandFrame)
  BY <1>1, <1>3 DEF EnqueueFull
<1>4. CASE EnqueueQueued(CommandFrame)
  <2>1. 0 \in SlotIds \ Active
    BY <1>1
  <2>2. FirstFree = 0
    BY <2>1, FirstIsZero DEF FirstFree
  <2>3. /\ slots' = [slots EXCEPT ![0] = [frame |-> AckRequired(CommandFrame), deadline_ms |-> now_ms,
                                          attempts |-> 0, active |-> TRUE]]
        /\ age' = [age EXCEPT ![0] = 0] /\ ret'.call = "enqueue"
        /\ FitsPayload(CommandFrame)
    BY <1>4, <2>2 DEF EnqueueQueued
  <2>4. /\ Held' /\ Attempts' = 0 /\ age'[0] = 0
        /\ slots'[0].frame = AckRequired(CommandFrame)
    BY <1>1, <2>3 DEF Held, Attempts
  <2>5. AckRequired(CommandFrame).node_id = kNodeId
    BY DEF AckRequired, CommandFrame
  <2>6. OneSlot'
    BY <1>1, <2>3, <2>5 DEF OneSlot
  <2> QED BY <2>3, <2>4, <2>6
<1> QED BY <1>2, <1>3, <1>4 DEF enqueueCommand, enqueue

\* What a released slot still holds.
Kept == slots'[0].frame = slots[0].frame /\ Attempts' = Attempts

\* The slot released is the first, and then none is held.
LEMMA ReleaseEffect ==
  ASSUME CInv, OneSlot, NEW i \in Active, Release(i)
  PROVE  i = 0 /\ OneSlot' /\ ~Held' /\ Kept
<1>1. slots \in [SlotIds -> Slot] /\ i \in SlotIds
  BY DEF CInv, IInv, Sound, SlotsOK, Active
<1>2. i = 0
  BY <1>1 DEF OneSlot, Active
<1>3. slots' = [slots EXCEPT ![0].active = FALSE]
  BY <1>2 DEF Release
<1>4. slots' = [slots EXCEPT ![0] = [slots[0] EXCEPT !.active = FALSE]]
  BY <1>3, <1>1
<1> DEFINE released == [slots[0] EXCEPT !.active = FALSE]
<1>5. /\ released.active = FALSE /\ released.frame = slots[0].frame
      /\ released.attempts = slots[0].attempts
  BY <1>1, <1>2 DEF Slot
<1> QED BY <1>1, <1>2, <1>4, <1>5 DEF OneSlot, Held, Kept, Attempts

\* acknowledge releases the slot or leaves it with a key it was not given.
LEMMA AcknowledgeEffect ==
  ASSUME CInv, OneSlot, NEW k, NEW status, acknowledge(k, status)
  PROVE  /\ OneSlot' /\ ret'.call = "acknowledge"
         /\ \/ ~Held' /\ Holds(0, k) /\ Kept
            \/ UNCHANGED <<slots, age>> /\ ~Holds(0, k) /\ ret'.result = "not_found"
<1>1. CASE AcknowledgeFound(k, status)
  <2> DEFINE i == FirstOf({j \in SlotIds : Holds(j, k)})
  <2>1. i \in Active /\ Holds(i, k)
    BY <1>1, HolderIsActive DEF AcknowledgeFound
  <2>2. Release(i) /\ ret'.call = "acknowledge"
    BY <1>1 DEF AcknowledgeFound
  <2> HIDE DEF i
  <2> QED BY <2>1, <2>2, ReleaseEffect
<1>2. CASE AcknowledgeNotFound(k)
  BY <1>2, SlotZero DEF AcknowledgeNotFound, OneSlot, Held
<1> QED BY <1>1, <1>2 DEF acknowledge

(***************************************************************************)
(* A command is due when it was never sent, and when its timeout is over.  *)
(***************************************************************************)
LEMMA DueInTime ==
  ASSUME CInv, Timely, Held
  PROVE  0 \in Due <=> (Attempts = 0 \/ age[0] >= timeout_ms)
<1>1. 0 \in Active /\ age[0] \in Nat /\ Attempts \in Nat /\ now_ms \in TickValue
  BY SlotZero DEF CInv, IInv, Sound, SlotsOK
<1>2. CASE Attempts = 0
  <2>1. age[0] = 0 /\ Wait(0) = 0 /\ age[0] < Forgotten
    BY <1>2, Constants DEF Timely, Wait, Attempts
  <2>2. slots[0].deadline_ms = Wrap(now_ms - age[0] + Wait(0))
    BY <1>1, <2>1 DEF CInv, IInv, Sound, DeadlineTracksAge
  <2>3. deadline_reached(now_ms, slots[0].deadline_ms) <=> age[0] >= Wait(0)
    <3>1. Wait(0) \in 0 .. HalfRange /\ age[0] < Wait(0) + HalfRange
      BY <1>1, <2>1, Constants
    <3> QED BY <1>1, <2>2, <3>1, DeadlineReachedIffPast
  <2> QED BY <1>1, <1>2, <2>1, <2>3 DEF Due
<1>3. CASE Attempts > 0
  <2>1. age[0] <= timeout_ms /\ Wait(0) = timeout_ms /\ age[0] < Forgotten
    BY <1>1, <1>3, Constants DEF Timely, Wait, Attempts, Sent
  <2>2. slots[0].deadline_ms = Wrap(now_ms - age[0] + Wait(0))
    BY <1>1, <2>1 DEF CInv, IInv, Sound, DeadlineTracksAge
  <2>3. deadline_reached(now_ms, slots[0].deadline_ms) <=> age[0] >= Wait(0)
    <3>1. Wait(0) \in 0 .. HalfRange /\ age[0] < Wait(0) + HalfRange
      BY <1>1, <2>1, Constants
    <3> QED BY <1>1, <2>2, <3>1, DeadlineReachedIffPast
  <2> QED BY <1>1, <1>3, <2>1, <2>3 DEF Due
<1> QED BY <1>1, <1>2, <1>3

NothingDue ==
  /\ UNCHANGED <<slots, age>> /\ ret'.call = "next_due" /\ ret'.action = "none"
  /\ Held => Attempts > 0 /\ age[0] < timeout_ms

Sends ==
  /\ Held /\ Held' /\ Attempts < max_attempts /\ Attempts' = Attempts + 1
  /\ Attempts = 0 \/ age[0] = timeout_ms
  /\ age'[0] = 0 /\ slots'[0].frame = slots[0].frame
  /\ ret'.call = "next_due" /\ ret'.action = "send" /\ ret'.frame = slots[0].frame

GivesUp ==
  /\ Held /\ ~Held' /\ Kept /\ Attempts = max_attempts /\ age[0] = timeout_ms
  /\ ret'.call = "next_due" /\ ret'.action = "exhausted"

\* next_due does nothing, sends the one frame, or gives it up.
LEMMA NextDueEffect ==
  ASSUME CInv, OneSlot, Timely, next_due
  PROVE  OneSlot' /\ (NothingDue \/ Sends \/ GivesUp)
<1>0. /\ 0 \in SlotIds /\ Attempts \in Nat /\ age[0] \in Nat /\ timeout_ms \in Nat
      /\ max_attempts \in Nat /\ max_attempts >= 1 /\ (Held <=> 0 \in Active)
      /\ Held => Attempts <= max_attempts
  BY SlotZero, Intervals
<1>1. slots \in [SlotIds -> Slot] /\ age \in [SlotIds -> 0 .. Forgotten]
  BY DEF CInv, IInv, Sound, SlotsOK
<1>2. Active \subseteq {0}
  BY DEF OneSlot, Active
<1>3. Due # {} => Held /\ 0 \in Due /\ FirstOf(Due) = 0
  BY <1>0, <1>2, FirstIsZero DEF Due
<1>4. CASE NextDueNone
  <2>1. Held => Attempts > 0 /\ age[0] < timeout_ms
    BY <1>0, <1>4, DueInTime DEF NextDueNone
  <2> QED BY <1>4, <2>1 DEF NextDueNone, NothingDue, OneSlot, Held
<1>5. ASSUME Due # {} PROVE Attempts = 0 \/ age[0] = timeout_ms
  <2>1. Held /\ (Attempts = 0 \/ age[0] >= timeout_ms)
    BY <1>3, <1>5, DueInTime
  <2> QED BY <1>0, <2>1 DEF Timely, Sent
<1>6. CASE NextDueSend
  <2>1. Held /\ FirstOf(Due) = 0 /\ Due # {}
    BY <1>3, <1>6 DEF NextDueSend
  <2>2. /\ ~LastAttemptMade(0)
        /\ slots' = [slots EXCEPT ![0].attempts = @ + 1, ![0].deadline_ms = NextDeadline(0)]
        /\ age' = [age EXCEPT ![0] = 0]
        /\ ret' = [call |-> "next_due", action |-> "send",
                   frame |-> slots[0].frame, attempts |-> slots[0].attempts + 1]
    BY <1>6, <2>1 DEF NextDueSend
  <2>3. Attempts < max_attempts
    BY <1>0, <2>2 DEF LastAttemptMade, Attempts
  <2>4. slots' = [slots EXCEPT ![0] = [slots[0] EXCEPT !.attempts = slots[0].attempts + 1,
                                                       !.deadline_ms = NextDeadline(0)]]
    BY <1>0, <1>1, <2>2
  <2>5. slots[0] \in Slot
    BY <1>0, <1>1
  <2>6. /\ slots'[0].active = slots[0].active /\ slots'[0].attempts = slots[0].attempts + 1
        /\ slots'[0].frame = slots[0].frame
    BY <1>0, <1>1, <2>4, <2>5 DEF Slot
  <2>7. OneSlot'
    BY <1>0, <1>1, <2>4, <2>6 DEF OneSlot, Held
  <2>8. age'[0] = 0
    BY <1>0, <1>1, <2>2
  <2>9. ret'.call = "next_due" /\ ret'.action = "send" /\ ret'.frame = slots[0].frame
    BY <2>2
  <2> QED BY <1>5, <2>1, <2>3, <2>6, <2>7, <2>8, <2>9 DEF Sends, Held, Attempts
<1>7. CASE NextDueExhausted
  <2>1. Held /\ FirstOf(Due) = 0 /\ Due # {} /\ 0 \in Active
    BY <1>0, <1>3, <1>7 DEF NextDueExhausted
  <2>2. LastAttemptMade(0) /\ Release(0) /\ ret'.call = "next_due" /\ ret'.action = "exhausted"
    BY <1>7, <2>1 DEF NextDueExhausted
  <2>3. Attempts = max_attempts
    BY <1>0, <2>1, <2>2 DEF LastAttemptMade, Attempts
  <2>4. OneSlot' /\ ~Held' /\ Kept
    BY <2>1, <2>2, ReleaseEffect
  <2> QED BY <1>0, <1>5, <2>1, <2>2, <2>3, <2>4 DEF GivesUp
<1> QED BY <1>4, <1>6, <1>7 DEF next_due

-----------------------------------------------------------------------------
(***************************************************************************)
(* The steps keep the time.                                                *)
(***************************************************************************)

\* The counters as numbers.
LEMMA Numbers ==
  ASSUME CInv
  PROVE  /\ since_command \in Nat /\ since_receive \in Nat /\ since_heartbeat \in Nat
         /\ since_receive <= kReceivePoll /\ losses \in Nat
<1>1. CommandTypes
  BY TypesAreTypes DEF CInv
<1> QED BY <1>1, Intervals DEF CommandTypes

\* With no frame pending the first slot is free.
LEMMA NothingPending ==
  ASSUME CInv, pending_count = 0
  PROVE  ~Held
<1>1. IsFiniteSet(SlotIds)
  BY FS_Interval, Constants DEF SlotIds
<1>2. Active \subseteq SlotIds
  BY DEF Active
<1>3. IsFiniteSet(Active)
  BY <1>1, <1>2, FS_Subset
<1>4. Active = {}
  BY <1>3, FS_EmptySet DEF pending_count
<1> QED BY <1>4, SlotZero

\* A new command is queued when the one before is settled.
LEMMA SettledBeforeCommand ==
  ASSUME ClockInv, setup \/ (CommandStep /\ CommandDue)
  PROVE  /\ ~Held /\ enqueueCommand /\ since_command' = 0
         /\ controller' \in {"command", "transmit"}
         /\ UNCHANGED <<since_receive, reply, mailbox, since_heartbeat, node>>
<1>0. CInv /\ Timely
  BY DEF ClockInv, Clock
<1>1. CASE setup
  BY <1>0, <1>1 DEF setup, Timely
<1>2. CASE CommandStep /\ CommandDue
  <2>1. ~Held
    BY <1>0, <1>2, NothingPending DEF CommandDue
  <2> QED BY <1>2, <2>1 DEF CommandStep
<1> QED BY <1>1, <1>2

\* A new command starts its own time.
LEMMA EnqueueClock ==
  ASSUME ClockInv, setup \/ (CommandStep /\ CommandDue)
  PROVE  Clock'
<1>0. CInv /\ OneSlot
  BY DEF ClockInv, Clock
<1>1. /\ ~Held /\ enqueueCommand /\ since_command' = 0
      /\ controller' \in {"command", "transmit"}
  BY SettledBeforeCommand
<1>2. /\ OneSlot'
      /\ \/ ~Held'
         \/ Held' /\ Attempts' = 0 /\ age'[0] = 0
  BY <1>0, <1>1, EnqueueEffect
<1>3. Timely'
  BY <1>1, <1>2 DEF Timely, Sent, BeforeTransmit
<1> QED BY <1>2, <1>3 DEF Clock

(***************************************************************************)
(* A step that leaves the queue and the timer of the command alone keeps   *)
(* the time, if it does not take the controller past a transmission.       *)
(***************************************************************************)
LEMMA ClockKept ==
  ASSUME Clock, UNCHANGED <<slots, age, since_command>>,
         BeforeTransmit' = BeforeTransmit \/ controller = "receive" \/ controller = "reading",
         controller' = "setup" => controller = "setup"
  PROVE  Clock'
<1>1. OneSlot'
  BY DEF Clock, OneSlot, Held
<1>2. Timely'
  BY DEF Clock, Timely, Held, Sent, Attempts, BeforeTransmit
<1> QED BY <1>1, <1>2 DEF Clock

\* A command is sent at its time.
LEMMA SendsOnTime ==
  ASSUME ClockInv, Sends
  PROVE  since_command = Span(Attempts + 1) /\ Attempts + 1 \in 1 .. max_attempts
<1>0. CInv /\ Timely
  BY DEF ClockInv, Clock
<1>1. Attempts \in Nat /\ Attempts < max_attempts /\ (Attempts = 0 \/ age[0] = timeout_ms) /\ Held
  BY <1>0, SlotZero DEF Sends
<1>2. Attempts + 1 \in 1 .. max_attempts
  BY <1>1, Intervals
<1>3. CASE Attempts = 0
  <2>1. Span(Attempts + 1) = 0
    BY <1>3, Spans
  <2> QED BY <1>0, <1>1, <1>2, <1>3, <2>1 DEF Timely
<1>4. CASE Attempts > 0
  <2>1. Attempts \in 1 .. max_attempts
    BY <1>1, <1>4, Intervals
  <2>2. Span(Attempts + 1) = Span(Attempts) + timeout_ms
    BY <2>1, Spans
  <2>3. Sent /\ age[0] = timeout_ms
    BY <1>1, <1>4 DEF Sent
  <2>4. since_command = Span(Attempts) + age[0]
    BY <1>0, <2>3 DEF Timely
  <2> QED BY <1>2, <2>2, <2>3, <2>4
<1> QED BY <1>1, <1>3, <1>4

\* A transmission or the end of the attempts keeps the time.
LEMMA TransmitClock ==
  ASSUME ClockInv, transmitDue
  PROVE  Clock'
<1>0. CInv /\ OneSlot /\ Timely
  BY DEF ClockInv, Clock
<1>1. controller' = "receive" /\ next_due /\ since_command' = since_command
  BY DEF transmitDue
<1>2. OneSlot' /\ (NothingDue \/ Sends \/ GivesUp)
  BY <1>0, <1>1, NextDueEffect
<1>3. Attempts \in Nat /\ age[0] \in Nat /\ timeout_ms \in Nat /\ timeout_ms >= 2
  BY <1>0, SlotZero, Intervals
<1>4. CASE NothingDue
  <2>1. Timely'
    BY <1>0, <1>1, <1>3, <1>4 DEF Timely, Held, Sent, Attempts, NothingDue
  <2> QED BY <1>2, <2>1 DEF Clock
<1>5. CASE Sends
  <2>1. Held' /\ Attempts' = Attempts + 1 /\ age'[0] = 0
    BY <1>5 DEF Sends
  <2>2. since_command = Span(Attempts + 1) /\ Span(Attempts + 1) \in Nat
    BY <1>5, SendsOnTime, Spans
  <2>3. since_command' = Span(Attempts') + age'[0] /\ ~(Attempts' = 0)
    BY <1>1, <1>3, <2>1, <2>2
  <2>4. Timely'
    BY <1>1, <1>3, <2>1, <2>3 DEF Timely
  <2> QED BY <1>2, <2>4 DEF Clock
<1>6. CASE GivesUp
  <2>1. Timely'
    BY <1>1, <1>6 DEF Timely, Sent, GivesUp
  <2> QED BY <1>2, <2>1 DEF Clock
<1> QED BY <1>2, <1>4, <1>5, <1>6

\* What a read gives ends the command or leaves it alone.
LEMMA EndReadEffect ==
  ASSUME CInv, OneSlot, EndRead
  PROVE  UNCHANGED <<slots, age>> \/ (OneSlot' /\ ~Held')
<1>1. CASE acknowledge(<<reply.node_id, AcknowledgedSequence(reply)>>, StatusOf(reply))
  BY <1>1, AcknowledgeEffect
<1>2. CASE UNCHANGED vars
  BY <1>2 DEF vars
<1> QED BY <1>1, <1>2 DEF EndRead

\* Time passes for a command that was sent and whose timeout is not over.
LEMMA TickInTime ==
  ASSUME ClockInv, CommandTick, Held
  PROVE  /\ Sent /\ age[0] < timeout_ms /\ age'[0] = age[0] + 1
         /\ since_command < kHeartbeatInterval /\ since_command' = since_command + 1
         /\ since_command = Span(Attempts) + age[0] /\ Span(Attempts) \in Nat
<1>0. CInv /\ Timely
  BY DEF ClockInv, Clock
<1>1. controller = "done" /\ since_command' = Later(since_command, kCommandInterval)
  BY DEF CommandTick
<1>2. /\ since_command \in Nat /\ Attempts \in Nat /\ age[0] \in Nat /\ 0 \in SlotIds
      /\ kCommandInterval \in Nat /\ kHeartbeatInterval \in Nat /\ timeout_ms \in Nat
      /\ kHeartbeatInterval <= kCommandInterval
  BY <1>0, SlotZero, Numbers, Intervals
<1>3. Attempts > 0 /\ Attempts <= max_attempts /\ Sent
  BY <1>0, <1>1, <1>2, SlotZero DEF Timely, BeforeTransmit, Sent
<1>4. age[0] < timeout_ms /\ since_command = Span(Attempts) + age[0]
  BY <1>0, <1>1, <1>3 DEF Timely, BeforeTransmit
<1>5. age'[0] = age[0] + 1
  <2>1. age[0] < Forgotten
    BY <1>2, <1>4, Constants
  <2> QED BY <1>2, <2>1 DEF CommandTick, Tick, Held
<1>6. Attempts \in 1 .. max_attempts
  BY <1>2, <1>3, Intervals
<1>7. Span(Attempts) \in Nat /\ Span(Attempts) <= Span(max_attempts)
  BY <1>6, Spans
<1>8. since_command < kHeartbeatInterval
  BY <1>2, <1>4, <1>7, Spans
<1>9. since_command' = since_command + 1
  BY <1>1, <1>2, <1>8 DEF Later
<1> QED BY <1>3, <1>4, <1>5, <1>7, <1>8, <1>9

\* No attempt is due before its timeout.
LEMMA TickClock ==
  ASSUME ClockInv, CommandTick
  PROVE  Clock'
<1>0. CInv /\ OneSlot
  BY DEF ClockInv, Clock
<1>1. controller' = "command" /\ UNCHANGED slots
  BY DEF CommandTick, Tick
<1>2. (Held' <=> Held) /\ Attempts' = Attempts /\ Attempts \in Nat /\ age[0] \in Nat
  BY <1>0, <1>1, SlotZero DEF Held, Attempts
<1>3. OneSlot'
  BY <1>0, <1>1 DEF OneSlot, Held
<1>4. ASSUME Held'
      PROVE  /\ Attempts' > 0 /\ ~(Attempts' = 0) /\ since_command' = Span(Attempts') + age'[0]
             /\ age'[0] < timeout_ms \/ age'[0] = timeout_ms
  <2>1. timeout_ms \in Nat
    BY Intervals
  <2> QED BY <1>2, <1>4, <2>1, TickInTime DEF Sent
<1>5. Timely'
  BY <1>1, <1>4 DEF Timely, Sent, BeforeTransmit
<1> QED BY <1>3, <1>5 DEF Clock

\* A restart of the controller leaves no command.
LEMMA RestartClock ==
  ASSUME ClockInv, ControllerRestarts
  PROVE  Clock' /\ ~Held'
<1>1. since_command' = 0 /\ slots' = [i \in SlotIds |-> EmptySlot]
  BY DEF ControllerRestarts
<1>2. ~Held' /\ OneSlot'
  <2>1. 0 \in SlotIds
    BY SlotZero DEF ClockInv
  <2> QED BY <1>1, <2>1 DEF Held, OneSlot, EmptySlot
<1>3. Timely'
  BY <1>1, <1>2 DEF Timely, Sent
<1> QED BY <1>2, <1>3 DEF Clock

\* A step of the node leaves the controller alone, and is one loss at most.
LEMMA NodeLeaves ==
  ASSUME NodeStep \/ NodeRestarts
  PROVE  /\ UNCHANGED <<slots, age, ret, sequence_number, since_command, since_receive,
                        controller, reply>>
         /\ losses' \in {losses, losses + 1}
<1>1. UNCHANGED <<slots, age, ret, sequence_number, since_command, since_receive,
                  controller, reply>>
  BY DEF NodeStep, NodeSetup, HeartbeatStep, PollStep, NodeRestarts, vars, controllerVars
<1>2. losses' \in {losses, losses + 1}
  BY DEF NodeStep, NodeSetup, HeartbeatStep, PollStep, NodeRestarts, publish, Lose
<1> QED BY <1>1, <1>2

(***************************************************************************)
(* Every step keeps the time, restarts of either side among them.          *)
(***************************************************************************)
LEMMA NextOnTime ==
  ASSUME ClockInv, [CommandNext]_<<commandVars, endpoint>>
  PROVE  ClockInv'
<1>0. CInv /\ Clock /\ OneSlot
  BY DEF ClockInv, Clock
<1>1. CInv'
  BY <1>0, NextTypes
<1>2. Clock'
  <2>1. CASE CommandStep /\ ~CommandDue
    <3>1. /\ controller = "command" /\ controller' = "transmit"
          /\ UNCHANGED <<slots, age, since_command>>
      BY <2>1 DEF CommandStep, vars
    <3> QED BY <1>0, <3>1, ClockKept DEF BeforeTransmit
  <2>2. CASE BeginRead
    <3>1. /\ controller = "receive" /\ controller' \in {"reading", "done"}
          /\ UNCHANGED <<slots, age, since_command>>
      BY <2>2 DEF BeginRead, vars
    <3> QED BY <1>0, <3>1, ClockKept
  <2>3. CASE EndRead
    <3>1. controller = "reading" /\ controller' = "done" /\ since_command' = since_command
      BY <2>3 DEF EndRead
    <3>2. CASE UNCHANGED <<slots, age>>
      BY <1>0, <3>1, <3>2, ClockKept
    <3>3. CASE OneSlot' /\ ~Held'
      BY <3>1, <3>3 DEF Clock, Timely, Sent
    <3> QED BY <1>0, <2>3, <3>2, <3>3, EndReadEffect
  <2>4. CASE UNCHANGED <<commandVars, endpoint>> \/ NodeStep \/ NodeRestarts
    <3>1. UNCHANGED <<slots, age, since_command, controller>>
      BY <2>4, NodeLeaves DEF commandVars, vars, controllerVars
    <3> QED BY <1>0, <3>1, ClockKept DEF BeforeTransmit
  <2>5. ASSUME ControllerStep PROVE Clock'
    BY <2>1, <2>2, <2>3, <2>5, EnqueueClock, TransmitClock DEF ControllerStep
  <2> QED BY <2>4, <2>5, TickClock, RestartClock DEF CommandNext
<1> QED BY <1>1, <1>2 DEF ClockInv

\* Controller and node begin in time.
LEMMA InitOnTime == CommandInit => ClockInv /\ ~Held
<1> SUFFICES ASSUME CommandInit PROVE ClockInv /\ ~Held
  OBVIOUS
<1>1. CInv
  BY InitTypes
<1>2. slots = [i \in SlotIds |-> EmptySlot] /\ since_command = 0
  BY DEF CommandInit, Init
<1>3. ~Held /\ OneSlot
  <2>1. 0 \in SlotIds
    BY <1>1, SlotZero
  <2> QED BY <1>2, <2>1 DEF Held, OneSlot, EmptySlot
<1> QED BY <1>1, <1>2, <1>3 DEF ClockInv, Clock, Timely, Sent

(***************************************************************************)
(* A command is settled before all of its attempts could have timed out    *)
(* once more, and so before the next one is due: what is reported is never *)
(* about any command but the last, whatever is lost and whoever restarts.  *)
(***************************************************************************)
THEOREM CommandsAreSettledInTime == CommandSpec => []SettledInTime
<1>1. ClockInv => SettledInTime
  <2> SUFFICES ASSUME ClockInv, pending_count # 0
               PROVE  since_command <= timeout_ms * max_attempts
    BY DEF SettledInTime
  <2>0. CInv /\ OneSlot /\ Timely
    BY DEF ClockInv, Clock
  <2>1. Held
    <3>1. ~Held => Active = {}
      BY <2>0 DEF OneSlot, Active, Held
    <3> QED BY <3>1, FS_EmptySet DEF pending_count
  <2> DEFINE m == max_attempts
  <2> DEFINE t == timeout_ms
  <2>2. m \in Nat /\ m >= 1 /\ t \in Nat /\ Attempts \in Nat /\ Attempts <= m /\ age[0] \in Nat
    BY <2>0, <2>1, SlotZero, Intervals
  <2>3. CASE Attempts = 0
    <3>1. since_command = 0
      BY <2>0, <2>1, <2>3 DEF Timely
    <3>2. t * m \in Nat
      BY <2>2
    <3> QED BY <3>1, <3>2
  <2>4. CASE Attempts > 0
    <3>1. since_command = Span(Attempts) + age[0] /\ age[0] <= t
      BY <2>0, <2>1, <2>2, <2>4 DEF Timely, Sent
    <3>2. Attempts \in 1 .. m
      BY <2>2, <2>4
    <3>3. Span(Attempts) \in Nat /\ Span(Attempts) <= Span(m)
      BY <3>2, Spans
    <3>4. Span(m) + t = t * m
      <4>1. Span(m) = (m - 1) * t
        BY DEF Span
      <4> HIDE DEF m, t
      <4> QED BY <2>2, <4>1
    <3>5. Span(m) \in Nat
      BY Spans
    <3> HIDE DEF m, t
    <3>6. since_command <= t * m
      BY <2>2, <3>1, <3>3, <3>4, <3>5
    <3> QED BY <3>6 DEF m, t
  <2> QED BY <2>2, <2>3, <2>4
<1>2. ClockInv /\ [CommandNext]_<<commandVars, endpoint>> => ClockInv'
  BY NextOnTime
<1>3. CommandInit => ClockInv
  BY InitOnTime
<1> QED BY <1>1, <1>2, <1>3, PTL DEF CommandSpec

-----------------------------------------------------------------------------
(***************************************************************************)
(* No frame of a command is at the node when the next command is queued.   *)
(***************************************************************************)

\* A new command finds nothing in the node's endpoint.
LEMMA QuietBeforeCommand ==
  ASSUME PacedInv, setup \/ (CommandStep /\ CommandDue)
  PROVE  /\ ~Held /\ inbox = <<>> /\ enqueueCommand /\ since_command' = 0
         /\ controller' \in {"command", "transmit"}
         /\ UNCHANGED <<since_receive, reply, mailbox, since_heartbeat, node>>
<1>0. ClockInv /\ CInv /\ InboxFresh
  BY DEF PacedInv, ClockInv
<1>1. CASE setup
  BY <1>0, <1>1, SettledBeforeCommand DEF setup, InboxFresh
<1>2. CASE CommandStep /\ CommandDue
  <2>1. since_command >= kCommandInterval
    BY <1>2 DEF CommandDue
  <2>2. Lag \in {0, 1}
    BY DEF Lag
  <2>3. inbox = <<>>
    BY <1>0, <2>1, <2>2, Numbers, Spans, Intervals DEF InboxFresh
  <2> QED BY <1>0, <1>2, <2>3, SettledBeforeCommand
<1> QED BY <1>1, <1>2

\* An empty endpoint is fresh, and is empty of more than frames if it is not begun.
LEMMA EmptyInboxFresh ==
  ASSUME inbox' = <<>>, Present' \/ mailbox' = NoFrame
  PROVE  InboxFresh'
BY DEF InboxFresh

\* The same of an endpoint that is left alone.
LEMMA InboxStaysEmpty ==
  ASSUME InboxFresh, inbox = <<>>, UNCHANGED <<inbox, mailbox, node>>
  PROVE  InboxFresh'
BY DEF InboxFresh, Present

(***************************************************************************)
(* A step that leaves the queue, the timer of the command and the endpoint *)
(* alone keeps the endpoint fresh.                                         *)
(***************************************************************************)
LEMMA FreshKept ==
  ASSUME InboxFresh, UNCHANGED <<slots, age, since_command, inbox>>,
         controller' = "setup" => controller = "setup",
         UNCHANGED <<mailbox, node>> \/ (node = "heartbeat" /\ node' = "poll")
  PROVE  InboxFresh'
BY DEF InboxFresh, Present, Lag, Held, Attempts

\* When the timeout of a transmission is over, its frame is out of the endpoint.
LEMMA PolledAtDeadline ==
  ASSUME PacedInv, Sent, age[0] = timeout_ms
  PROVE  inbox = <<>>
<1>1. Lag \in {0, 1} /\ timeout_ms > 1
  BY Intervals DEF Lag
<1>2. inbox # <<>> => age[0] <= Lag
  BY DEF PacedInv, InboxFresh, Sent
<1> QED BY <1>1, <1>2, Intervals

\* A command is sent to an empty endpoint.
LEMMA EmptyWhenSending ==
  ASSUME PacedInv, Sends
  PROVE  inbox = <<>>
<1>1. Held /\ (Attempts = 0 \/ age[0] = timeout_ms) /\ Attempts \in Nat
  BY SlotZero DEF Sends, PacedInv, ClockInv
<1>2. CASE Attempts = 0
  BY <1>1, <1>2 DEF PacedInv, InboxFresh
<1>3. CASE Attempts > 0
  BY <1>1, <1>3, PolledAtDeadline DEF Sent
<1> QED BY <1>1, <1>2, <1>3

\* A transmission, a loss or the end of the attempts keeps the endpoint fresh.
LEMMA TransmitFresh ==
  ASSUME PacedInv, transmitDue
  PROVE  InboxFresh'
<1>0. CInv /\ OneSlot /\ Timely /\ InboxFresh /\ ClockInv
  BY DEF PacedInv, ClockInv, Clock
<1>1. /\ controller = "transmit" /\ controller' = "receive" /\ next_due
      /\ UNCHANGED <<since_command, mailbox, node>>
  BY DEF transmitDue
<1>2. NothingDue \/ Sends \/ GivesUp
  BY <1>0, <1>1, NextDueEffect
<1>3. CASE NothingDue
  BY <1>0, <1>1, <1>3, FreshKept DEF transmitDue, NothingDue
<1>4. CASE Sends
  <2>1. /\ Held' /\ Attempts' = Attempts + 1 /\ age'[0] = 0 /\ slots'[0].frame = slots[0].frame
        /\ ret'.action = "send" /\ ret'.frame = slots[0].frame
    BY <1>4 DEF Sends
  <2>2. inbox = <<>>
    BY <1>4, EmptyWhenSending
  <2>3. CASE Present /\ Arrive(ret'.frame)
    <3>1. inbox' = <<[frame |-> slots[0].frame, current |-> TRUE]>>
      BY <2>1, <2>2, <2>3 DEF Arrive
    <3>2. inbox' # <<>> /\ inbox'[1].frame = slots'[0].frame
      BY <2>1, <3>1
    <3>3. Present' /\ Lag' \in {0, 1} /\ Lag' = Lag
      BY <1>1, <2>3 DEF Present, Lag
    <3>4. since_command = Span(Attempts + 1) /\ Attempts + 1 \in 1 .. max_attempts
      BY <1>0, <1>4, SendsOnTime
    <3>5. since_command' <= Span(max_attempts) + Lag' /\ age'[0] <= Lag'
      BY <1>1, <2>1, <3>3, <3>4, Spans
    <3>6. Attempts' # 0
      BY <1>0, <2>1, SlotZero
    <3> QED BY <1>1, <3>2, <3>3, <3>5, <3>6 DEF InboxFresh
  <2>4. CASE UNCHANGED inbox
    BY <1>0, <1>1, <2>2, <2>4, InboxStaysEmpty
  <2> QED BY <2>1, <2>3, <2>4 DEF transmitDue
<1>5. CASE GivesUp
  <2>1. ~Held' /\ UNCHANGED inbox
    BY <1>5 DEF GivesUp, transmitDue
  <2> QED BY <1>0, <1>1, <2>1 DEF InboxFresh, Present, Lag
<1> QED BY <1>2, <1>3, <1>4, <1>5

\* Time keeps the endpoint fresh: the node polls in every tick.
LEMMA TickFresh ==
  ASSUME PacedInv, CommandTick
  PROVE  InboxFresh'
<1>0. CInv /\ InboxFresh /\ ClockInv
  BY DEF PacedInv, ClockInv
<1>1. /\ node \in {"done", "boot"} /\ controller' = "command"
      /\ node' = IF node = "boot" THEN "setup" ELSE "heartbeat"
      /\ since_command' = Later(since_command, kCommandInterval)
      /\ UNCHANGED <<slots, inbox, mailbox>>
  BY DEF CommandTick, Tick
<1>2. /\ since_command \in Nat /\ age[0] \in Nat /\ Attempts \in Nat /\ kCommandInterval \in Nat
  BY <1>0, SlotZero, Numbers, Intervals
<1>3. CASE inbox = <<>>
  BY <1>0, <1>1, <1>3 DEF InboxFresh, Present
<1>4. CASE inbox # <<>>
  <2>1. Present /\ node = "done" /\ Lag = 0
    BY <1>0, <1>1, <1>4 DEF InboxFresh, Present, Lag
  <2>2. Present' /\ Lag' = 1
    BY <1>1, <2>1 DEF Present, Lag
  <2>3. since_command' <= Span(max_attempts) + 1
    BY <1>0, <1>1, <1>2, <1>4, <2>1, Spans DEF InboxFresh, Later
  <2>4. Held => age'[0] <= 1 /\ inbox[1].frame = slots[0].frame /\ Attempts > 0
    BY <1>0, <1>2, <1>4, <2>1, TickInTime DEF InboxFresh, Sent
  <2> QED BY <1>1, <1>2, <2>2, <2>3, <2>4 DEF InboxFresh, Held, Attempts
<1> QED BY <1>3, <1>4

\* A step of the node keeps its endpoint fresh.
LEMMA NodeFresh ==
  ASSUME PacedInv, NodeStep \/ NodeRestarts
  PROVE  InboxFresh' /\ (node = "setup" => mailbox = NoFrame)
<1>1. UNCHANGED <<slots, age, since_command, controller>> /\ InboxFresh
  BY NodeLeaves DEF PacedInv
<1>2. node = "setup" => mailbox = NoFrame /\ inbox = <<>>
  BY <1>1 DEF InboxFresh, Present
<1>3. CASE NodeSetup
  <2>1. inbox' = <<>> /\ Present'
    BY <1>2, <1>3 DEF NodeSetup, Present
  <2> QED BY <1>2, <2>1, EmptyInboxFresh
<1>4. CASE HeartbeatStep
  <2>1. inbox' = inbox /\ node = "heartbeat" /\ node' = "poll"
    BY <1>4 DEF HeartbeatStep
  <2> QED BY <1>1, <1>2, <2>1, FreshKept
<1>5. CASE PollStep
  <2>1. inbox' = <<>> /\ Present'
    BY <1>5 DEF PollStep, Present
  <2> QED BY <1>2, <2>1, EmptyInboxFresh
<1>6. CASE NodeRestarts
  <2>1. inbox' = <<>> /\ mailbox' = NoFrame
    BY <1>6 DEF NodeRestarts
  <2> QED BY <1>2, <2>1, EmptyInboxFresh
<1> QED BY <1>3, <1>4, <1>5, <1>6 DEF NodeStep

(***************************************************************************)
(* Every step keeps the endpoint fresh, if the controller does not restart *)
(* while a frame of its last command is at the node.                       *)
(***************************************************************************)
LEMMA NextPaced ==
  ASSUME PacedInv, ~QuickRestart, [CommandNext]_<<commandVars, endpoint>>
  PROVE  PacedInv'
<1>0. CInv /\ OneSlot /\ InboxFresh /\ ClockInv
  BY DEF PacedInv, ClockInv, Clock
<1>1. ClockInv'
  BY <1>0, NextOnTime
<1>2. InboxFresh'
  <2>1. CASE setup \/ (CommandStep /\ CommandDue)
    <3>1. inbox = <<>> /\ enqueueCommand /\ UNCHANGED <<mailbox, node>>
      BY <2>1, QuietBeforeCommand
    <3>2. DOMAIN inbox = {}
      BY <3>1
    <3>3. inbox' = inbox
      BY <3>1, <3>2 DEF enqueueCommand
    <3> QED BY <1>0, <3>1, <3>3, InboxStaysEmpty
  <2>2. CASE (CommandStep /\ ~CommandDue) \/ BeginRead
    <3>1. UNCHANGED <<slots, age, since_command, inbox, mailbox, node>> /\ controller' # "setup"
      BY <2>2 DEF CommandStep, BeginRead, vars, nodeVars
    <3> QED BY <1>0, <3>1, FreshKept
  <2>3. CASE EndRead
    <3>1. controller' = "done" /\ UNCHANGED <<since_command, inbox, mailbox, node>>
      BY <2>3 DEF EndRead, nodeVars
    <3>2. CASE UNCHANGED <<slots, age>>
      BY <1>0, <3>1, <3>2, FreshKept
    <3>3. CASE ~Held'
      BY <1>0, <3>1, <3>3 DEF InboxFresh, Present, Lag
    <3> QED BY <1>0, <2>3, <3>2, <3>3, EndReadEffect
  <2>4. CASE UNCHANGED <<commandVars, endpoint>>
    <3>1. UNCHANGED <<slots, age, since_command, controller, inbox, mailbox, node>>
      BY <2>4 DEF commandVars, nodeVars, vars, controllerVars
    <3> QED BY <1>0, <3>1, FreshKept
  <2>5. CASE ControllerRestarts
    <3>1. inbox = <<>> /\ UNCHANGED <<inbox, mailbox, node>>
      BY <2>5 DEF ControllerRestarts, Settled, nodeVars
    <3> QED BY <1>0, <3>1, InboxStaysEmpty
  <2>6. ASSUME ControllerStep PROVE InboxFresh'
    BY <2>1, <2>2, <2>3, <2>6, TransmitFresh DEF ControllerStep
  <2> QED BY <2>4, <2>5, <2>6, TickFresh, NodeFresh DEF CommandNext
<1> QED BY <1>1, <1>2 DEF PacedInv

\* Controller and node begin with an empty endpoint.
LEMMA InitPaced == CommandInit => PacedInv /\ ~Held
<1> SUFFICES ASSUME CommandInit PROVE PacedInv /\ ~Held
  OBVIOUS
<1>1. inbox = <<>> /\ mailbox = NoFrame
  BY DEF CommandInit
<1> QED BY <1>1, InitOnTime DEF PacedInv, InboxFresh

-----------------------------------------------------------------------------
(***************************************************************************)
(* No command is given up without the losses that explain it, if           *)
(*   - the node's mailbox is read twice in a timeout, with a tick to spare *)
(*     for the node's own loop (50 ms and 250 ms in the code),             *)
(*   - the controller does not restart while a frame of the command before *)
(*     is in the node's endpoint, which can take the place of the new one, *)
(*   - the model may count as many losses as can matter.                   *)
(* TLC finds exhaustions without a loss when any of the three is dropped.  *)
(***************************************************************************)
Unhurried ==
  /\ kReceivePoll + 1 < timeout_ms
  /\ ~QuickRestart
  /\ MaxLosses >= max_attempts - 1

Ack == make_ack_frame(kNodeId, slots[0].frame.sequence, "accepted")

\* The acknowledgement in the mailbox will be read before the deadline.
ReadInTime ==
  IF controller \in {"done", "reading"}
    THEN age[0] <= kReceivePoll /\ since_receive >= age[0] - 1
    ELSE /\ age[0] <= kReceivePoll + 1
         /\ since_receive >= kReceivePoll \/ since_receive >= age[0] - 1

\* The last transmission is on its way to be acknowledged.
Alive ==
  \/ inbox # <<>>
  \/ mailbox = Ack /\ ReadInTime
  \/ controller = "reading" /\ reply = Ack

\* A heartbeat was published since the command was queued, or may have been.
Beats == IF since_heartbeat <= since_command THEN 1 ELSE 0

(***************************************************************************)
(* Every transmission but the last met a loss or the one heartbeat, and    *)
(* the last one did too or is alive.                                       *)
(***************************************************************************)
Accounted ==
  Sent /\ losses < max_attempts - 1 =>
    \/ losses + Beats >= Attempts
    \/ losses + Beats >= Attempts - 1 /\ Alive

Account == Accounted /\ NoFalseExhaustion

EInv == PacedInv /\ Account

\* What the steps of the account start from.
LEMMA Parts ==
  ASSUME EInv
  PROVE  /\ CInv /\ OneSlot /\ Timely /\ InboxFresh /\ Accounted /\ NoFalseExhaustion
         /\ PacedInv /\ ClockInv
BY DEF EInv, PacedInv, ClockInv, Clock, Account

\* A heartbeat is counted once.
LEMMA BeatsType ==
  /\ Beats \in {0, 1} /\ Beats' \in {0, 1}
  /\ UNCHANGED <<since_heartbeat, since_command>> => Beats' = Beats
BY DEF Beats

(***************************************************************************)
(* A loss explains the transmission it meets.                              *)
(***************************************************************************)
LEMMA LossAccounted ==
  ASSUME CInv, Accounted, UNCHANGED slots, Lose,
         Beats' \in {0, 1}, Sent => Beats' >= Beats
  PROVE  Accounted'
<1>1. losses' = losses + 1
  BY DEF Lose
<1>2. Attempts \in Nat /\ losses \in Nat /\ Beats \in {0, 1} /\ max_attempts \in Nat
  BY SlotZero, Numbers, Intervals, BeatsType
<1>3. Attempts' = Attempts /\ (Sent' <=> Sent)
  BY DEF Attempts, Sent, Held
<1>4. ASSUME Sent', losses' < max_attempts - 1 PROVE losses' + Beats' >= Attempts'
  <2>1. Sent /\ losses < max_attempts - 1
    BY <1>1, <1>2, <1>3, <1>4
  <2>2. losses + Beats >= Attempts - 1
    BY <1>2, <2>1 DEF Accounted
  <2>3. Beats' >= Beats
    BY <2>1
  <2>4. PICK later \in {0, 1} : Beats' = later
    OBVIOUS
  <2> QED BY <1>1, <1>2, <1>3, <2>2, <2>3, <2>4
<1> QED BY <1>4 DEF Accounted

(***************************************************************************)
(* A step without a loss must keep the last transmission alive, or be the  *)
(* heartbeat.                                                              *)
(***************************************************************************)
LEMMA StaysAccounted ==
  ASSUME CInv, Accounted, UNCHANGED slots, losses' = losses,
         Beats' \in {0, 1}, Sent => Beats' >= Beats,
         Sent /\ Alive => Alive' \/ Beats' > Beats
  PROVE  Accounted'
<1>2. Attempts \in Nat /\ losses \in Nat /\ Beats \in {0, 1} /\ max_attempts \in Nat
  BY SlotZero, Numbers, Intervals, BeatsType
<1>3. Attempts' = Attempts /\ (Sent' <=> Sent)
  BY DEF Attempts, Sent, Held
<1>4. ASSUME Sent', losses' < max_attempts - 1
      PROVE  \/ losses' + Beats' >= Attempts'
             \/ losses' + Beats' >= Attempts' - 1 /\ Alive'
  <2>1. Sent /\ losses < max_attempts - 1
    BY <1>3, <1>4
  <2>2. losses + Beats >= Attempts \/ (losses + Beats >= Attempts - 1 /\ Alive)
    BY <2>1 DEF Accounted
  <2>3. Beats' >= Beats /\ (Alive => Alive' \/ Beats' > Beats)
    BY <2>1
  <2>4. PICK later \in {0, 1} : Beats' = later
    OBVIOUS
  <2>5. CASE losses + Beats >= Attempts
    BY <1>2, <1>3, <2>3, <2>4, <2>5
  <2>6. CASE losses + Beats >= Attempts - 1 /\ Alive
    BY <1>2, <1>3, <2>3, <2>4, <2>6
  <2> QED BY <2>2, <2>5, <2>6
<1> QED BY <1>4 DEF Accounted

\* A new command starts a new account.
LEMMA EnqueueAccount ==
  ASSUME EInv, setup \/ (CommandStep /\ CommandDue)
  PROVE  Account'
<1>1. ~Held /\ enqueueCommand
  BY Parts, QuietBeforeCommand
<1>2. /\ ret'.call = "enqueue"
      /\ ~Held' \/ (Held' /\ Attempts' = 0)
  BY <1>1, Parts, EnqueueEffect
<1> QED BY <1>2 DEF Account, Accounted, Sent, NoFalseExhaustion, Exhausted

(***************************************************************************)
(* When the timeout of a transmission is over, it is no longer alive.      *)
(***************************************************************************)
LEMMA DeadAtDeadline ==
  ASSUME EInv, Unhurried, Sent, age[0] = timeout_ms, controller = "transmit"
  PROVE  ~Alive
<1>1. inbox = <<>>
  BY Parts, PolledAtDeadline
<1>2. ~ReadInTime
  BY Intervals DEF ReadInTime, Unhurried
<1> QED BY <1>1, <1>2 DEF Alive

\* A transmission, a loss or the end of the attempts keeps the account.
LEMMA TransmitAccount ==
  ASSUME EInv, Unhurried, transmitDue
  PROVE  Account'
<1>0. CInv /\ OneSlot /\ Timely /\ Accounted /\ PacedInv
  BY Parts
<1>1. /\ controller = "transmit" /\ controller' = "receive" /\ next_due
      /\ UNCHANGED <<since_command, since_receive, reply, mailbox, since_heartbeat, node>>
  BY DEF transmitDue
<1>2. NothingDue \/ Sends \/ GivesUp
  BY <1>0, <1>1, NextDueEffect
<1>3. /\ Attempts \in Nat /\ losses \in Nat /\ Beats \in {0, 1} /\ Beats' = Beats
  BY <1>0, <1>1, SlotZero, Numbers, BeatsType
<1>4. max_attempts \in Nat /\ max_attempts >= 1 /\ MaxLosses >= max_attempts - 1
  BY Intervals DEF Unhurried
<1>5. CASE NothingDue
  <2>1. UNCHANGED <<slots, age, inbox, losses>> /\ ret'.action = "none"
    BY <1>5 DEF transmitDue, NothingDue
  <2>2. Alive => Alive'
    BY <1>1, <2>1 DEF Alive, Ack, ReadInTime
  <2>3. Accounted'
    BY <1>0, <1>3, <2>1, <2>2, StaysAccounted
  <2> QED BY <2>1, <2>3 DEF Account, NoFalseExhaustion, Exhausted
<1>6. CASE Sends
  <2>1. /\ Held /\ Held' /\ Attempts' = Attempts + 1
        /\ Attempts = 0 \/ age[0] = timeout_ms
        /\ ret'.action = "send"
    BY <1>6 DEF Sends
  <2>2. Attempts > 0 => ~Alive
    BY <1>1, <1>3, <2>1, DeadAtDeadline DEF Sent
  <2>3. losses < max_attempts - 1 => losses + Beats >= Attempts
    BY <1>0, <1>3, <2>1, <2>2 DEF Accounted, Sent
  <2>4. NoFalseExhaustion'
    BY <2>1 DEF NoFalseExhaustion, Exhausted
  <2>5. CASE Arrive(ret'.frame) /\ UNCHANGED losses
    <3>1. inbox = <<>>
      BY <1>0, <1>6, EmptyWhenSending
    <3>2. inbox' # <<>>
      BY <2>5, <3>1 DEF Arrive
    <3> QED BY <1>3, <2>1, <2>3, <2>4, <2>5, <3>2 DEF Account, Accounted, Alive
  <2>6. CASE Lose
    BY <1>3, <1>4, <2>1, <2>3, <2>4, <2>6 DEF Account, Accounted, Lose
  <2>7. CASE losses = MaxLosses /\ UNCHANGED losses
    BY <1>3, <1>4, <2>4, <2>7 DEF Account, Accounted
  <2> QED BY <2>1, <2>5, <2>6, <2>7 DEF transmitDue
<1>7. CASE GivesUp
  <2>1. /\ Held /\ ~Held' /\ Attempts = max_attempts /\ age[0] = timeout_ms
        /\ ret'.action = "exhausted"
    BY <1>7 DEF GivesUp
  <2>2. UNCHANGED losses
    BY <2>1 DEF transmitDue
  <2>3. Sent /\ ~Alive
    BY <1>1, <1>4, <2>1, DeadAtDeadline DEF Sent
  <2>4. losses >= max_attempts - 1
    BY <1>0, <1>3, <1>4, <2>1, <2>3 DEF Accounted
  <2> QED BY <2>1, <2>2, <2>4 DEF Account, NoFalseExhaustion, Accounted, Sent
<1> QED BY <1>2, <1>5, <1>6, <1>7

\* A request for the node's frame keeps the account.
LEMMA BeginReadAccount ==
  ASSUME EInv, BeginRead
  PROVE  Account'
<1>0. CInv /\ Accounted /\ NoFalseExhaustion
  BY Parts
<1>1. /\ controller = "receive" /\ controller' \in {"reading", "done"}
      /\ UNCHANGED <<slots, age, ret, since_command, inbox, mailbox, since_heartbeat, losses>>
  BY DEF BeginRead, vars, nodeVars, history
<1>2. Ack' = Ack /\ age[0] \in Nat /\ since_receive \in Nat /\ kReceivePoll \in Nat
  BY <1>0, <1>1, SlotZero, Numbers, Intervals DEF Ack
<1>3. Alive => Alive'
  <2>1. CASE since_receive >= kReceivePoll
    <3>1. controller' = "reading" /\ reply' = mailbox
      BY <2>1 DEF BeginRead
    <3> QED BY <1>1, <1>2, <3>1 DEF Alive
  <2>2. CASE ~(since_receive >= kReceivePoll)
    <3>1. controller' = "done" /\ since_receive' = since_receive
      BY <2>2 DEF BeginRead
    <3>2. ReadInTime => ReadInTime'
      BY <1>1, <1>2, <2>2, <3>1 DEF ReadInTime
    <3> QED BY <1>1, <1>2, <3>2 DEF Alive
  <2> QED BY <2>1, <2>2
<1>4. Accounted'
  BY <1>0, <1>1, <1>3, BeatsType, StaysAccounted
<1> QED BY <1>0, <1>1, <1>4 DEF Account, NoFalseExhaustion, Exhausted

\* The frames that may be read, and what they acknowledge.
LEMMA ReplyIsAck ==
  ASSUME CInv
  PROVE  /\ reply = Ack => ParsesAsAck(reply)
         /\ ParsesAsAck(reply) /\ OneSlot /\ Held =>
              (Holds(0, <<reply.node_id, AcknowledgedSequence(reply)>>) <=> reply = Ack)
<1> DEFINE n == slots[0].frame.sequence
<1>1. reply \in PublishedFrame /\ n \in Sequences /\ Ack = make_ack_frame(kNodeId, n, "accepted")
  BY SlotZero DEF CInv, CommandTypeOK, Ack
<1>2. reply = Ack => ParsesAsAck(reply) /\ AcknowledgedSequence(reply) = n
  BY <1>1, PublishedAck
<1>3. ASSUME ParsesAsAck(reply)
      PROVE  reply.node_id = kNodeId /\ (AcknowledgedSequence(reply) = n => reply = Ack)
  <2>1. reply.node_id = kNodeId
    BY <1>1, <1>3, PublishedAck
  <2>2. reply # Heartbeat /\ reply # NoFrame
    BY <1>3 DEF ParsesAsAck, Heartbeat, NoFrame
  <2>3. PICK m \in Sequences : reply = make_ack_frame(kNodeId, m, "accepted")
    BY <1>1, <2>2 DEF PublishedFrame
  <2>4. AcknowledgedSequence(reply) = m
    BY <1>1, <2>3, PublishedAck
  <2> QED BY <1>1, <2>1, <2>3, <2>4
<1>4. OneSlot /\ Held => Key(slots[0].frame) = <<kNodeId, n>>
  BY DEF OneSlot, Key
<1> HIDE DEF n
<1> QED BY <1>2, <1>3, <1>4 DEF Holds, Held

\* What a read gives keeps the account: an acknowledgement not taken is explained.
LEMMA EndReadAccount ==
  ASSUME EInv, EndRead
  PROVE  Account'
<1>0. CInv /\ OneSlot /\ Accounted /\ NoFalseExhaustion
  BY Parts
<1>1. /\ controller = "reading" /\ controller' = "done"
      /\ UNCHANGED <<since_command, since_receive, inbox, mailbox, since_heartbeat>>
  BY DEF EndRead, nodeVars
<1>2. Beats' = Beats /\ Beats \in {0, 1}
  BY <1>1, BeatsType
<1>3. ASSUME UNCHANGED <<slots, age, losses>>, Held => reply # Ack PROVE Accounted'
  <2>1. Sent /\ Alive => Alive'
    BY <1>1, <1>3 DEF Alive, Ack, ReadInTime, Sent
  <2> QED BY <1>0, <1>2, <1>3, <2>1, StaysAccounted
<1>4. CASE /\ ParsesAsAck(reply)
           /\ acknowledge(<<reply.node_id, AcknowledgedSequence(reply)>>, StatusOf(reply))
           /\ UNCHANGED losses
  <2> DEFINE k == <<reply.node_id, AcknowledgedSequence(reply)>>
  <2>1. /\ ret'.call = "acknowledge"
        /\ ~Held' \/ (UNCHANGED <<slots, age>> /\ ~Holds(0, k))
    BY <1>0, <1>4, AcknowledgeEffect
  <2>2. NoFalseExhaustion'
    BY <2>1 DEF NoFalseExhaustion, Exhausted
  <2>3. CASE ~Held'
    BY <2>2, <2>3 DEF Account, Accounted, Sent
  <2>4. CASE UNCHANGED <<slots, age>> /\ ~Holds(0, k)
    BY <1>0, <1>3, <1>4, <2>2, <2>4, ReplyIsAck DEF Account
  <2> QED BY <2>1, <2>3, <2>4
<1>5. CASE ~ParsesAsAck(reply) /\ UNCHANGED <<vars, losses>>
  <2>1. UNCHANGED <<slots, age, losses, ret>>
    BY <1>5 DEF vars
  <2>2. NoFalseExhaustion'
    BY <1>0, <2>1 DEF NoFalseExhaustion, Exhausted
  <2> QED BY <1>0, <1>3, <1>5, <2>1, <2>2, ReplyIsAck DEF Account
<1>6. CASE Lose /\ UNCHANGED vars
  <2>1. UNCHANGED <<slots, ret>> /\ losses' = losses + 1
    BY <1>6 DEF vars, Lose
  <2>2. NoFalseExhaustion'
    BY <1>0, <2>1, Numbers, Intervals DEF NoFalseExhaustion, Exhausted
  <2>3. Accounted'
    BY <1>0, <1>2, <1>6, <2>1, LossAccounted
  <2> QED BY <2>2, <2>3 DEF Account
<1> QED BY <1>4, <1>5, <1>6 DEF EndRead

(***************************************************************************)
(* What a step of the node leaves of the account.                          *)
(***************************************************************************)
LEMMA NodeAccount ==
  ASSUME EInv, NodeStep \/ NodeRestarts
  PROVE  /\ UNCHANGED <<slots, age, since_command, since_receive, controller, reply>>
         /\ NoFalseExhaustion' /\ Ack' = Ack /\ ReadInTime' = ReadInTime
<1>1. /\ UNCHANGED <<slots, age, ret, since_command, since_receive, controller, reply>>
      /\ losses' \in {losses, losses + 1}
  BY NodeLeaves
<1>2. NoFalseExhaustion'
  BY <1>1, Numbers, Intervals, Parts DEF NoFalseExhaustion, Exhausted
<1> QED BY <1>1, <1>2 DEF Ack, ReadInTime

\* The node's setup keeps the account.
LEMMA NodeSetupAccount ==
  ASSUME EInv, NodeSetup
  PROVE  Account'
<1>0. CInv /\ Accounted
  BY Parts
<1>1. UNCHANGED <<inbox, since_heartbeat, slots, since_command, losses>>
      /\ UNCHANGED <<controller, reply>> /\ NoFalseExhaustion' /\ Ack' = Ack
  BY NodeAccount DEF NodeSetup, NodeStep
<1>2. Beats' = Beats /\ Beats \in {0, 1}
  BY <1>1, BeatsType
<1>3. mailbox # Ack
  <2>1. mailbox = NoFrame
    BY NodeFresh, Parts DEF NodeStep, NodeSetup
  <2> QED BY <2>1 DEF NoFrame, Ack, make_ack_frame
<1>4. Alive => Alive'
  BY <1>1, <1>3 DEF Alive
<1>5. Accounted'
  BY <1>0, <1>1, <1>2, <1>4, StaysAccounted
<1> QED BY <1>1, <1>5 DEF Account

(***************************************************************************)
(* A due heartbeat is the first since a command that is still pending.     *)
(***************************************************************************)
LEMMA FirstHeartbeat ==
  ASSUME ClockInv, Sent, HeartbeatDue
  PROVE  Beats = 0
<1>0. CInv /\ Timely
  BY DEF ClockInv, Clock
<1>1. Attempts \in 1 .. max_attempts /\ age[0] \in Nat /\ age[0] <= timeout_ms
  BY <1>0, SlotZero, Intervals DEF Sent, Timely
<1>2. Span(Attempts) \in Nat /\ Span(Attempts) <= Span(max_attempts)
  BY <1>1, Spans
<1>3. since_command = Span(Attempts) + age[0]
  BY <1>0 DEF Timely
<1>4. since_command < kHeartbeatInterval
  BY <1>1, <1>2, <1>3, Spans, Intervals
<1> QED BY <1>0, <1>4, Numbers, Intervals DEF Beats, HeartbeatDue

\* A heartbeat keeps the account: it replaces at most one acknowledgement.
LEMMA HeartbeatAccount ==
  ASSUME EInv, HeartbeatStep
  PROVE  Account'
<1>0. CInv /\ Accounted /\ ClockInv
  BY Parts
<1>1. /\ UNCHANGED <<inbox, slots, since_command, controller, reply>>
      /\ NoFalseExhaustion' /\ Ack' = Ack /\ ReadInTime' = ReadInTime
  BY NodeAccount DEF HeartbeatStep, NodeStep
<1>2. Beats \in {0, 1}
  BY BeatsType
<1>3. CASE HeartbeatDue
  <2>1. since_heartbeat' = 0 /\ publish(Heartbeat)
    BY <1>3 DEF HeartbeatStep
  <2>2. Beats' = 1
    BY <1>0, <1>1, <2>1, Numbers DEF Beats
  <2>3. Sent => Beats = 0
    BY <1>0, <1>3, FirstHeartbeat
  <2>4. CASE Lose
    BY <1>0, <1>1, <1>2, <2>2, <2>3, <2>4, LossAccounted DEF Account
  <2>5. CASE losses' = losses
    BY <1>0, <1>1, <1>2, <2>2, <2>3, <2>5, StaysAccounted DEF Account
  <2> QED BY <2>1, <2>4, <2>5 DEF publish
<1>4. CASE ~HeartbeatDue
  <2>1. UNCHANGED <<mailbox, losses, since_heartbeat>>
    BY <1>4 DEF HeartbeatStep
  <2>2. Alive => Alive'
    BY <1>1, <2>1 DEF Alive
  <2>3. Beats' = Beats
    BY <1>1, <2>1, BeatsType
  <2> QED BY <1>0, <1>1, <1>2, <2>1, <2>2, <2>3, StaysAccounted DEF Account
<1> QED BY <1>3, <1>4

\* The node's answer to a command keeps the account.
LEMMA PollAccount ==
  ASSUME EInv, PollStep
  PROVE  Account'
<1>0. CInv /\ InboxFresh /\ Accounted
  BY Parts
<1>1. /\ node = "poll" /\ inbox' = <<>>
      /\ UNCHANGED <<slots, age, since_command, since_heartbeat, controller, reply>>
      /\ NoFalseExhaustion' /\ Ack' = Ack /\ ReadInTime' = ReadInTime
  BY NodeAccount DEF PollStep, NodeStep
<1>2. Beats' = Beats /\ Beats \in {0, 1}
  BY <1>1, BeatsType
<1>3. CASE Lose
  BY <1>0, <1>1, <1>2, <1>3, LossAccounted DEF Account
<1>4. CASE losses' = losses /\ ~Lose
  <2>1. ASSUME Sent, Alive PROVE Alive'
    <3>1. CASE inbox = <<>>
      <4>1. mailbox' = mailbox
        BY <3>1 DEF PollStep
      <4> QED BY <1>1, <2>1, <3>1, <4>1 DEF Alive
    <3>2. CASE inbox # <<>>
      <4>1. inbox[1].frame = slots[0].frame /\ age[0] <= 1
        BY <1>0, <1>1, <2>1, <3>2 DEF InboxFresh, Lag, Sent
      <4>2. kFlagAckRequired \in inbox[1].frame.flags
        BY <1>0, <2>1, <4>1, SlotZero DEF Sent
      <4>3. publish(Ack)
        BY <3>2, <4>1, <4>2 DEF PollStep, Ack
      <4>4. mailbox' = Ack
        BY <1>4, <4>3 DEF publish
      <4>5. ReadInTime
        <5>1. /\ age[0] \in Nat /\ since_receive \in Nat /\ kReceivePoll \in Nat
              /\ kReceivePoll >= 1
          BY <1>0, SlotZero, Numbers, Intervals
        <5> QED BY <4>1, <5>1 DEF ReadInTime
      <4> QED BY <1>1, <4>4, <4>5 DEF Alive
    <3> QED BY <3>1, <3>2
  <2> QED BY <1>0, <1>1, <1>2, <1>4, <2>1, StaysAccounted DEF Account
<1> QED BY <1>3, <1>4 DEF PollStep, publish

\* A restart of the node keeps the account.
LEMMA NodeRestartsAccount ==
  ASSUME EInv, NodeRestarts
  PROVE  Account'
<1>0. CInv /\ Accounted
  BY Parts
<1>1. /\ inbox' = <<>> /\ mailbox' = NoFrame /\ since_heartbeat' = 0
      /\ UNCHANGED <<slots, since_command, controller, reply>>
      /\ NoFalseExhaustion' /\ Ack' = Ack
  BY NodeAccount DEF NodeRestarts
<1>2. Beats' = 1 /\ Beats \in {0, 1}
  BY <1>0, <1>1, Numbers, BeatsType DEF Beats
<1>3. CASE Lose
  BY <1>0, <1>1, <1>2, <1>3, LossAccounted DEF Account
<1>4. CASE losses' = losses /\ Settled
  <2>1. mailbox # Ack /\ inbox = <<>>
    BY <1>4 DEF Settled, Ack, make_ack_frame
  <2>2. Alive => Alive'
    BY <1>1, <2>1 DEF Alive
  <2> QED BY <1>0, <1>1, <1>2, <1>4, <2>2, StaysAccounted DEF Account
<1> QED BY <1>3, <1>4 DEF NodeRestarts

\* Time keeps the account.
LEMMA TickAccount ==
  ASSUME EInv, CommandTick
  PROVE  Account'
<1>0. CInv /\ Accounted /\ ClockInv
  BY Parts
<1>1. /\ controller = "done" /\ controller' = "command"
      /\ since_receive' = Later(since_receive, kReceivePoll)
      /\ since_heartbeat' = Later(since_heartbeat, kHeartbeatInterval)
      /\ UNCHANGED <<slots, reply, inbox, mailbox, losses>>
      /\ ret' = [call |-> "none"]
  BY DEF CommandTick, Tick, history
<1>2. /\ since_command \in Nat /\ since_receive \in Nat /\ since_heartbeat \in Nat
      /\ since_receive <= kReceivePoll /\ age[0] \in Nat /\ kReceivePoll \in Nat
      /\ kHeartbeatInterval \in Nat
  BY <1>0, SlotZero, Numbers, Intervals
<1>3. Sent => age'[0] = age[0] + 1 /\ since_command' = since_command + 1
  BY <1>0, TickInTime DEF Sent
<1>4. Sent => Beats' >= Beats
  <2>1. ASSUME Sent, Beats = 1 PROVE Beats' = 1
    <3>1. since_heartbeat <= since_command
      BY <2>1 DEF Beats
    <3>2. since_heartbeat' <= since_command'
      BY <1>1, <1>2, <1>3, <2>1, <3>1 DEF Later
    <3> QED BY <3>2 DEF Beats
  <2>2. PICK later \in {0, 1} : Beats' = later
    BY BeatsType
  <2> QED BY <2>1, <2>2, BeatsType
<1>5. ASSUME Sent, Alive PROVE Alive'
  <2>1. Ack' = Ack
    BY <1>1 DEF Ack
  <2>2. ReadInTime => ReadInTime'
    BY <1>1, <1>2, <1>3, <1>5 DEF ReadInTime, Later
  <2> QED BY <1>1, <1>5, <2>1, <2>2 DEF Alive
<1>6. Accounted'
  BY <1>0, <1>1, <1>4, <1>5, BeatsType, StaysAccounted
<1> QED BY <1>1, <1>6 DEF Account, NoFalseExhaustion, Exhausted

\* Every step keeps the account.
LEMMA NextAccounted ==
  ASSUME EInv, Unhurried, [CommandNext]_<<commandVars, endpoint>>
  PROVE  EInv'
<1>0. CInv /\ Accounted /\ NoFalseExhaustion /\ PacedInv /\ ClockInv /\ ~QuickRestart
  BY Parts DEF Unhurried
<1>1. PacedInv'
  BY <1>0, NextPaced
<1>2. ASSUME UNCHANGED <<slots, age, ret, since_command, since_receive, reply, inbox, mailbox,
                         since_heartbeat, losses>>,
             UNCHANGED controller \/ (controller = "command" /\ controller' = "transmit")
      PROVE  Account'
  <2>1. Alive => Alive'
    BY <1>2 DEF Alive, Ack, ReadInTime
  <2>2. Accounted'
    BY <1>0, <1>2, <2>1, BeatsType, StaysAccounted
  <2> QED BY <1>0, <1>2, <2>2 DEF Account, NoFalseExhaustion, Exhausted
<1>3. Account'
  <2>1. CASE ControllerStep
    <3>1. CASE CommandStep /\ ~CommandDue
      BY <1>2, <3>1 DEF CommandStep, vars, history
    <3> QED BY <2>1, <3>1, EnqueueAccount, TransmitAccount, BeginReadAccount, EndReadAccount
            DEF ControllerStep
  <2>2. CASE NodeStep
    BY <2>2, NodeSetupAccount, HeartbeatAccount, PollAccount DEF NodeStep
  <2>3. CASE UNCHANGED <<commandVars, endpoint>>
    BY <1>2, <2>3 DEF commandVars, nodeVars, history, vars, controllerVars
  <2>4. CASE ControllerRestarts
    <3>1. ~Held' /\ ret' = [call |-> "none"]
      BY <1>0, <2>4, RestartClock DEF ControllerRestarts
    <3> QED BY <3>1 DEF Account, Accounted, Sent, NoFalseExhaustion, Exhausted
  <2> QED BY <2>1, <2>2, <2>3, <2>4, TickAccount, NodeRestartsAccount DEF CommandNext
<1> QED BY <1>1, <1>3 DEF EInv

\* Controller and node begin with nothing to account for.
LEMMA InitAccounted == CommandInit => EInv
<1> SUFFICES ASSUME CommandInit PROVE EInv
  OBVIOUS
<1>1. PacedInv /\ ~Held
  BY InitPaced
<1>2. ret = [call |-> "none"]
  BY DEF CommandInit, Init
<1> QED BY <1>1, <1>2 DEF EInv, Account, Accounted, Sent, NoFalseExhaustion, Exhausted

(***************************************************************************)
(* A command is given up only when all but one of its attempts met a loss. *)
(* The heartbeats that take the place of acknowledgements in the node's    *)
(* mailbox cost a command one attempt at most, the reads of the mailbox    *)
(* none, whatever the interleaving of the two loops, for every policy that *)
(* leaves the reads their time.                                            *)
(***************************************************************************)
THEOREM ExhaustionIsExplained == Unhurried /\ CommandSpec => []NoFalseExhaustion
<1> SUFFICES ASSUME Unhurried PROVE CommandSpec => []NoFalseExhaustion
  OBVIOUS
<1>1. EInv => NoFalseExhaustion
  BY DEF EInv, Account
<1>2. EInv /\ [CommandNext]_<<commandVars, endpoint>> => EInv'
  BY NextAccounted
<1> QED BY <1>1, <1>2, InitAccounted, PTL DEF CommandSpec

-----------------------------------------------------------------------------
(***************************************************************************)
(* A command reported accepted was received by the node, if                *)
(*   - the controller does not restart, and count its commands from zero,  *)
(*     while an acknowledgement is in the node's mailbox,                  *)
(*   - there are two sequence numbers at least (256 in the code),          *)
(*   - a node whose endpoint refuses frames during a read meets no more    *)
(*     losses with a command than the command has attempts.                *)
(* TLC finds commands falsely accepted when any of the three is dropped:   *)
(* with one loss more the acknowledgement of an earlier command outlasts a *)
(* whole command, and then meets its own number again.                     *)
(***************************************************************************)
Discernible ==
  /\ ~QuickRestart
  /\ Cardinality(Sequences) >= 2
  /\ "pico" \in Endpoints => MaxLosses <= max_attempts

Answered == mailbox.type = "acknowledgement"

\* The mailbox holds the acknowledgement of an earlier command.
Stale == Answered /\ mailbox # Ack

\* What is under way bears the number the controller counted last.
Numbered ==
  Held \/ inbox # <<>> \/ Answered =>
    /\ FitsPayload(CommandFrame)
    /\ sequence_number = (slots[0].frame.sequence + 1) % Cardinality(Sequences)

InboxCurrent ==
  inbox # <<>> => /\ inbox[1].current /\ inbox[1].frame = slots[0].frame
                  /\ kFlagAckRequired \in inbox[1].frame.flags

\* An acknowledgement of the last command is a true one, and the latest.
Genuine ==
  /\ mailbox = Ack => received
  /\ reply = Ack => received /\ ~Stale
  /\ controller # "reading" => reply = NoFrame

(***************************************************************************)
(* A heartbeat is sent before its timer gets past the interval, and an     *)
(* acknowledgement is in the mailbox right after it only when it was       *)
(* refused in this pass, or when a command was polled after it.            *)
(***************************************************************************)
HeartbeatPace ==
  /\ node \in {"poll", "done"} => since_heartbeat < kHeartbeatInterval
  /\ Answered /\ since_heartbeat = 0 =>
       controller \in {"reading", "done"} \/ since_command <= Span(max_attempts) + 1
  /\ controller = "setup" => ~Answered

Unpolled == IF inbox = <<>> THEN 0 ELSE 1

(***************************************************************************)
(* While an earlier acknowledgement stays in the mailbox, every attempt of *)
(* the command and the heartbeat, too, met a loss.                         *)
(***************************************************************************)
StaleExplained ==
  Stale => /\ losses >= Attempts - Unpolled + Beats
           /\ Held \/ Attempts = max_attempts
           /\ Beats = 1 => endpoint = "pico"

Credit ==
  Numbered /\ InboxCurrent /\ Genuine /\ HeartbeatPace /\ StaleExplained /\ AcceptedMeansReceived

AInv == PacedInv /\ endpoint \in Endpoints /\ Credit

\* What the steps of the credit start from.
LEMMA CreditParts ==
  ASSUME AInv
  PROVE  /\ CInv /\ OneSlot /\ Timely /\ InboxFresh /\ PacedInv /\ ClockInv /\ endpoint \in Endpoints
         /\ Numbered /\ InboxCurrent /\ Genuine /\ HeartbeatPace /\ StaleExplained
         /\ AcceptedMeansReceived
BY DEF AInv, PacedInv, ClockInv, Clock, Credit

\* The numbers of the credit.
LEMMA CreditNumbers ==
  ASSUME CInv
  PROVE  /\ Attempts \in Nat /\ losses \in 0 .. MaxLosses /\ MaxLosses \in Nat
         /\ Beats \in {0, 1} /\ Unpolled \in {0, 1}
         /\ since_heartbeat \in 0 .. kHeartbeatInterval /\ since_command \in 0 .. kCommandInterval
         /\ received \in BOOLEAN
<1>1. CommandTypes
  BY TypesAreTypes DEF CInv
<1> QED BY <1>1, SlotZero, Intervals DEF CommandTypes, Beats, Unpolled

\* Two commands in a row have different numbers.
LEMMA NextNumberDiffers ==
  ASSUME Cardinality(Sequences) >= 2, NEW n \in Sequences
  PROVE  (n + 1) % Cardinality(Sequences) # n
<1> DEFINE c == Cardinality(Sequences)
<1>1. c \in Nat /\ Sequences = 0 .. c - 1
  BY CommandAssumption, FS_CardinalityType
<1> HIDE DEF c
<1>2. n \in Nat /\ n < c /\ c >= 2
  BY <1>1 DEF c
<1>3. CASE n + 1 < c
  <2>1. (n + 1) % c = n + 1
    BY <1>1, <1>2, <1>3
  <2> QED BY <1>2, <2>1 DEF c
<1>4. CASE n + 1 = c
  <2>1. (n + 1) % c = 0
    BY <1>1, <1>2, <1>4
  <2> QED BY <1>2, <1>4, <2>1 DEF c
<1> QED BY <1>1, <1>2, <1>3, <1>4

\* Acknowledgements of different numbers differ, and from all other frames.
LEMMA AckIsOfItsNumber ==
  /\ \A m, n \in Sequences :
       make_ack_frame(kNodeId, m, "accepted") = make_ack_frame(kNodeId, n, "accepted") => m = n
  /\ Ack.type = "acknowledgement" /\ Ack'.type = "acknowledgement"
  /\ Heartbeat.type # "acknowledgement" /\ NoFrame.type # "acknowledgement"
<1>1. ASSUME NEW m \in Sequences, NEW n \in Sequences,
             make_ack_frame(kNodeId, m, "accepted") = make_ack_frame(kNodeId, n, "accepted")
      PROVE  m = n
  <2>1. <<m, StatusByte["accepted"]>> = <<n, StatusByte["accepted"]>>
    BY <1>1 DEF make_ack_frame
  <2> QED BY <2>1
<1> QED BY <1>1 DEF Ack, make_ack_frame, Heartbeat, NoFrame

\* Without an acknowledgement in the mailbox there is nothing to explain.
LEMMA NothingAnswered ==
  /\ ~Answered => mailbox # Ack /\ ~Stale
  /\ ~Answered' => mailbox' # Ack' /\ ~Stale' /\ StaleExplained'
BY AckIsOfItsNumber DEF Answered, Stale, StaleExplained

(***************************************************************************)
(* When a new command is due, the mailbox does not hold the acknowledgement*)
(* of a command before the last.                                           *)
(***************************************************************************)
LEMMA NotStaleBeforeCommand ==
  ASSUME AInv, Discernible, setup \/ (CommandStep /\ CommandDue)
  PROVE  ~Stale /\ (Answered => since_heartbeat > 0 /\ mailbox = Ack)
<1>0. CInv /\ HeartbeatPace /\ StaleExplained /\ PacedInv /\ endpoint \in Endpoints
  BY CreditParts
<1>1. CASE setup
  <2>1. ~Answered
    BY <1>0, <1>1 DEF setup, HeartbeatPace
  <2> QED BY <2>1 DEF Stale
<1>2. CASE CommandStep /\ CommandDue
  <2>1. ~Held /\ inbox = <<>>
    BY <1>0, <1>2, QuietBeforeCommand
  <2>2. controller = "command" /\ since_command >= kCommandInterval
    BY <1>2 DEF CommandStep, CommandDue
  <2>3. /\ Attempts \in Nat /\ losses \in 0 .. MaxLosses /\ MaxLosses \in Nat /\ Beats \in {0, 1}
        /\ since_heartbeat \in 0 .. kHeartbeatInterval /\ since_command \in 0 .. kCommandInterval
        /\ kHeartbeatInterval \in Nat /\ kCommandInterval \in Nat
        /\ kHeartbeatInterval <= kCommandInterval /\ max_attempts \in Nat
    BY <1>0, CreditNumbers, Intervals
  <2>4. ASSUME Stale PROVE FALSE
    <3>1. Unpolled = 0 /\ Beats = 1
      BY <2>1, <2>2, <2>3 DEF Unpolled, Beats
    <3>2. losses >= Attempts - Unpolled + Beats /\ Attempts = max_attempts /\ endpoint = "pico"
      BY <1>0, <2>1, <2>4, <3>1 DEF StaleExplained
    <3>3. MaxLosses <= max_attempts
      BY <1>0, <3>2 DEF Discernible
    <3> QED BY <2>3, <3>1, <3>2, <3>3
  <2>5. ASSUME Answered, since_heartbeat = 0 PROVE FALSE
    <3>1. since_command <= Span(max_attempts) + 1
      BY <1>0, <2>2, <2>5 DEF HeartbeatPace
    <3> QED BY <2>2, <2>3, <3>1, Spans, Intervals
  <2> QED BY <2>3, <2>4, <2>5 DEF Stale
<1> QED BY <1>1, <1>2

(***************************************************************************)
(* A new command has a number of its own.                                  *)
(***************************************************************************)
LEMMA EnqueueCredit ==
  ASSUME AInv, Discernible, setup \/ (CommandStep /\ CommandDue)
  PROVE  Credit'
<1>0. CInv /\ OneSlot /\ PacedInv /\ Numbered /\ Genuine /\ HeartbeatPace
  BY CreditParts
<1>1. /\ ~Held /\ inbox = <<>> /\ enqueueCommand /\ since_command' = 0
      /\ controller' \in {"command", "transmit"}
      /\ UNCHANGED <<reply, mailbox, since_heartbeat, node>>
  BY <1>0, QuietBeforeCommand
<1>2. ~Stale /\ (Answered => since_heartbeat > 0 /\ mailbox = Ack)
  BY NotStaleBeforeCommand
<1>3. inbox' = <<>>
  <2>1. DOMAIN inbox = {}
    BY <1>1
  <2> QED BY <1>1, <2>1 DEF enqueueCommand
<1>4. sequence_number' = NextSequence
  BY <1>1 DEF enqueueCommand
<1>5. Answered' = Answered /\ reply' = NoFrame
  BY <1>0, <1>1 DEF Answered, Genuine, setup, CommandStep
<1>6. /\ FitsPayload(CommandFrame)' <=> FitsPayload(CommandFrame)
      /\ slots[0].frame.sequence \in Sequences /\ sequence_number \in Sequences
  BY <1>0, SlotZero DEF FitsPayload, CommandFrame, CInv, CommandTypeOK
<1>7. /\ ret'.call = "enqueue"
      /\ \/ ~Held' /\ ~FitsPayload(CommandFrame)
         \/ /\ Held' /\ FitsPayload(CommandFrame) /\ Attempts' = 0
            /\ slots'[0].frame = AckRequired(CommandFrame)
  BY <1>0, <1>1, EnqueueEffect
<1>8. CASE ~FitsPayload(CommandFrame)
  <2>1. ~Answered' /\ ~Held'
    BY <1>0, <1>5, <1>7, <1>8 DEF Numbered
  <2>2. Numbered' /\ InboxCurrent' /\ AcceptedMeansReceived'
    BY <1>3, <1>7, <2>1 DEF Numbered, InboxCurrent, AcceptedMeansReceived, Accepted
  <2>3. Genuine'
    BY <1>5, <2>1, NothingAnswered, AckIsOfItsNumber DEF Genuine
  <2>4. HeartbeatPace'
    BY <1>0, <1>1, <2>1 DEF HeartbeatPace
  <2> QED BY <2>1, <2>2, <2>3, <2>4, NothingAnswered DEF Credit
<1>9. CASE FitsPayload(CommandFrame)
  <2>1. Held' /\ Attempts' = 0 /\ slots'[0].frame.sequence = sequence_number
    BY <1>7, <1>9 DEF AckRequired, CommandFrame
  <2>2. Numbered'
    BY <1>4, <1>6, <1>9, <2>1 DEF Numbered, NextSequence
  <2>3. Answered => mailbox' # Ack'
    <3>1. SUFFICES ASSUME Answered, mailbox' = Ack' PROVE FALSE
      OBVIOUS
    <3>2. sequence_number = slots[0].frame.sequence
      BY <1>1, <1>2, <1>6, <2>1, <3>1, AckIsOfItsNumber DEF Ack
    <3>3. sequence_number = (slots[0].frame.sequence + 1) % Cardinality(Sequences)
      BY <1>0, <3>1 DEF Numbered
    <3> QED BY <1>6, <3>2, <3>3, NextNumberDiffers DEF Discernible
  <2>4. Genuine'
    BY <1>5, <2>3, NothingAnswered, AckIsOfItsNumber DEF Genuine
  <2>5. HeartbeatPace'
    <3>1. since_command' <= Span(max_attempts) + 1
      BY <1>1, Spans
    <3> QED BY <1>0, <1>1, <3>1 DEF HeartbeatPace
  <2>6. StaleExplained'
    <3>1. SUFFICES ASSUME Answered'
                   PROVE  /\ losses' >= Attempts' - Unpolled' + Beats'
                          /\ Held' /\ Beats' = 0
      BY DEF StaleExplained, Stale
    <3>2. Beats' = 0
      BY <1>0, <1>1, <1>2, <1>5, <3>1, Numbers DEF Beats
    <3>3. losses' = 0 /\ Unpolled' = 0
      BY <1>1, <1>3 DEF enqueueCommand, Unpolled
    <3> QED BY <2>1, <3>2, <3>3
  <2>7. InboxCurrent' /\ AcceptedMeansReceived'
    BY <1>3, <1>7 DEF InboxCurrent, AcceptedMeansReceived, Accepted
  <2> QED BY <2>2, <2>4, <2>5, <2>6, <2>7 DEF Credit
<1> QED BY <1>8, <1>9

(***************************************************************************)
(* What keeps the credit in a step that neither takes a command nor fills  *)
(* the mailbox.                                                            *)
(***************************************************************************)
LEMMA SameCommand ==
  ASSUME CInv, Numbered, slots'[0].frame = slots[0].frame, sequence_number' = sequence_number,
         Held' \/ inbox' # <<>> \/ Answered' => Held \/ inbox # <<>> \/ Answered
  PROVE  Numbered' /\ Ack' = Ack
<1>1. FitsPayload(CommandFrame)' <=> FitsPayload(CommandFrame)
  BY DEF FitsPayload, CommandFrame
<1> QED BY <1>1 DEF Numbered, Ack

\* A transmission, a loss or the end of the attempts keeps the credit.
LEMMA TransmitCredit ==
  ASSUME AInv, transmitDue, UNCHANGED endpoint
  PROVE  Credit'
<1>0. /\ CInv /\ OneSlot /\ Timely /\ InboxFresh /\ PacedInv
      /\ Numbered /\ InboxCurrent /\ Genuine /\ HeartbeatPace /\ StaleExplained
  BY CreditParts
<1>1. /\ controller = "transmit" /\ controller' = "receive" /\ next_due
      /\ UNCHANGED <<sequence_number, since_command, reply, mailbox, since_heartbeat, node, received>>
  BY DEF transmitDue
<1>2. ret'.call = "next_due" /\ (NothingDue \/ Sends \/ GivesUp)
  BY <1>0, <1>1, NextDueEffect DEF NothingDue, Sends, GivesUp
<1>3. AcceptedMeansReceived'
  BY <1>2 DEF AcceptedMeansReceived, Accepted
<1>4. HeartbeatPace' /\ Answered' = Answered /\ Beats' = Beats
  BY <1>0, <1>1 DEF HeartbeatPace, Answered, Beats
<1>5. /\ Attempts \in Nat /\ losses \in Nat /\ MaxLosses \in Nat /\ Beats \in {0, 1}
      /\ Unpolled \in {0, 1} /\ max_attempts \in Nat
  BY <1>0, CreditNumbers, Numbers, Intervals
<1>6. slots'[0].frame = slots[0].frame /\ (Held' => Held)
  BY <1>2 DEF NothingDue, Sends, GivesUp, Kept, Held
<1>7. Held \/ UNCHANGED inbox
  BY <1>2 DEF transmitDue, NothingDue, Sends, GivesUp
<1>8. Numbered' /\ Ack' = Ack
  BY <1>0, <1>1, <1>4, <1>6, <1>7, SameCommand
<1>9. Genuine' /\ Stale' = Stale
  BY <1>0, <1>1, <1>4, <1>8 DEF Genuine, Stale
<1>10. CASE Sends
  <2>1. /\ Held /\ Held' /\ Attempts' = Attempts + 1
        /\ ret'.action = "send" /\ ret'.frame = slots[0].frame
    BY <1>10 DEF Sends
  <2>2. inbox = <<>>
    BY <1>0, <1>10, EmptyWhenSending
  <2>3. CASE Arrive(ret'.frame) /\ UNCHANGED losses
    <3>1. inbox' = <<[frame |-> slots[0].frame, current |-> TRUE]>>
      BY <2>1, <2>2, <2>3 DEF Arrive
    <3>2. inbox' # <<>> /\ inbox'[1].current /\ inbox'[1].frame = slots'[0].frame
      BY <1>6, <3>1
    <3>3. InboxCurrent'
      BY <1>0, <1>6, <2>1, <3>2, SlotZero DEF InboxCurrent
    <3>4. Unpolled' = 1 /\ Unpolled = 0
      BY <2>2, <3>2 DEF Unpolled
    <3>5. StaleExplained'
      BY <1>0, <1>4, <1>5, <1>9, <2>1, <2>3, <3>4 DEF StaleExplained
    <3> QED BY <1>3, <1>4, <1>8, <1>9, <3>3, <3>5 DEF Credit
  <2>4. CASE Lose /\ UNCHANGED inbox
    <3>1. InboxCurrent' /\ Unpolled' = Unpolled /\ losses' = losses + 1
      BY <2>2, <2>4 DEF InboxCurrent, Unpolled, Lose
    <3>2. StaleExplained'
      BY <1>0, <1>4, <1>5, <1>9, <2>1, <3>1 DEF StaleExplained
    <3> QED BY <1>3, <1>4, <1>8, <1>9, <3>1, <3>2 DEF Credit
  <2>5. CASE ~Present /\ UNCHANGED <<inbox, losses>>
    <3>1. ~Answered'
      BY <1>0, <1>4, <2>5, AckIsOfItsNumber DEF InboxFresh, Answered
    <3>2. InboxCurrent'
      BY <2>2, <2>5 DEF InboxCurrent
    <3> QED BY <1>3, <1>4, <1>8, <1>9, <3>1, <3>2, NothingAnswered DEF Credit
  <2> QED BY <2>1, <2>3, <2>4, <2>5 DEF transmitDue
<1>11. CASE NothingDue \/ GivesUp
  <2>1. UNCHANGED <<inbox, losses>> /\ Attempts' = Attempts
    BY <1>11 DEF transmitDue, NothingDue, GivesUp, Kept, Attempts
  <2>2. InboxCurrent' /\ Unpolled' = Unpolled
    BY <1>0, <1>6, <2>1 DEF InboxCurrent, Unpolled
  <2>3. Held' = Held \/ Attempts = max_attempts
    BY <1>11 DEF NothingDue, GivesUp, Held
  <2>4. StaleExplained'
    BY <1>0, <1>4, <1>5, <1>9, <2>1, <2>2, <2>3 DEF StaleExplained
  <2> QED BY <1>3, <1>4, <1>8, <1>9, <2>2, <2>4 DEF Credit
<1> QED BY <1>2, <1>10, <1>11

(***************************************************************************)
(* What the controller reports accepted was acknowledged by its number.    *)
(***************************************************************************)
LEMMA EndReadCredit ==
  ASSUME AInv, EndRead, UNCHANGED endpoint
  PROVE  Credit'
<1>0. /\ CInv /\ OneSlot /\ Numbered /\ InboxCurrent /\ Genuine /\ HeartbeatPace
      /\ StaleExplained /\ AcceptedMeansReceived
  BY CreditParts
<1>1. /\ controller = "reading" /\ controller' = "done" /\ reply' = NoFrame
      /\ UNCHANGED <<sequence_number, since_command, inbox, mailbox, since_heartbeat, node, received>>
  BY DEF EndRead, nodeVars
<1>2. HeartbeatPace' /\ Answered' = Answered /\ Beats' = Beats /\ Unpolled' = Unpolled
  BY <1>0, <1>1 DEF HeartbeatPace, Answered, Beats, Unpolled
<1>3. /\ Attempts \in Nat /\ losses \in Nat /\ Beats \in {0, 1} /\ Unpolled \in {0, 1}
  BY <1>0, CreditNumbers, Numbers
<1>4. ASSUME slots'[0].frame = slots[0].frame, Held' => Held,
             Stale => Attempts' = Attempts /\ Held' = Held, losses' \in {losses, losses + 1},
             AcceptedMeansReceived'
      PROVE  Credit'
  <2>1. Numbered' /\ Ack' = Ack
    BY <1>0, <1>1, <1>2, <1>4, SameCommand
  <2>2. Stale' = Stale
    BY <1>1, <1>2, <2>1 DEF Stale
  <2>3. Genuine'
    BY <1>0, <1>1, <2>1, AckIsOfItsNumber DEF Genuine
  <2>4. InboxCurrent'
    BY <1>0, <1>1, <1>4 DEF InboxCurrent
  <2>5. StaleExplained'
    <3>1. SUFFICES ASSUME Stale
                   PROVE  /\ losses' >= Attempts' - Unpolled' + Beats'
                          /\ Held' \/ Attempts' = max_attempts
                          /\ Beats' = 1 => endpoint' = "pico"
      BY <2>2 DEF StaleExplained
    <3> QED BY <1>0, <1>2, <1>3, <1>4, <3>1 DEF StaleExplained
  <2> QED BY <1>2, <1>4, <2>1, <2>3, <2>4, <2>5 DEF Credit
<1>5. CASE UNCHANGED vars /\ losses' \in {losses, losses + 1}
  <2>1. UNCHANGED <<slots, ret>>
    BY <1>5 DEF vars
  <2>2. AcceptedMeansReceived'
    BY <1>0, <1>1, <2>1 DEF AcceptedMeansReceived, Accepted
  <2> QED BY <1>4, <1>5, <2>1, <2>2 DEF Held, Attempts
<1>6. CASE /\ ParsesAsAck(reply)
           /\ acknowledge(<<reply.node_id, AcknowledgedSequence(reply)>>, StatusOf(reply))
           /\ UNCHANGED losses
  <2> DEFINE k == <<reply.node_id, AcknowledgedSequence(reply)>>
  <2>1. \/ ~Held' /\ Holds(0, k) /\ Kept
        \/ UNCHANGED <<slots, age>> /\ ret'.result = "not_found"
    BY <1>0, <1>6, AcknowledgeEffect
  <2>2. CASE ~Held' /\ Holds(0, k) /\ Kept
    <3>1. reply = Ack
      BY <1>0, <1>6, <2>2, ReplyIsAck DEF Holds, Held
    <3>2. received /\ ~Stale
      BY <1>0, <3>1 DEF Genuine
    <3>3. AcceptedMeansReceived'
      BY <1>1, <3>2 DEF AcceptedMeansReceived
    <3> QED BY <1>4, <1>6, <2>2, <3>2, <3>3 DEF Kept
  <2>3. CASE UNCHANGED <<slots, age>> /\ ret'.result = "not_found"
    <3>1. AcceptedMeansReceived'
      BY <2>3 DEF AcceptedMeansReceived, Accepted
    <3> QED BY <1>4, <1>6, <2>3, <3>1 DEF Held, Attempts
  <2> QED BY <2>1, <2>2, <2>3
<1> QED BY <1>5, <1>6 DEF EndRead, Lose

\* A step of the controller keeps the credit.
LEMMA ControllerCredit ==
  ASSUME AInv, Discernible, ControllerStep, UNCHANGED endpoint
  PROVE  Credit'
<1>0. /\ CInv /\ Numbered /\ InboxCurrent /\ Genuine /\ HeartbeatPace
      /\ StaleExplained /\ AcceptedMeansReceived
  BY CreditParts
<1>1. ASSUME UNCHANGED <<slots, ret, sequence_number, since_command, inbox, mailbox,
                         since_heartbeat, node, received, losses>>,
             \/ controller = "command" /\ controller' = "transmit" /\ reply' = reply
             \/ controller = "receive" /\ controller' = "done" /\ reply' = reply
             \/ controller = "receive" /\ controller' = "reading" /\ reply' = mailbox
      PROVE  Credit'
  <2>1. Numbered' /\ Ack' = Ack
    BY <1>0, <1>1, SameCommand DEF Held, Answered
  <2>2. Stale' = Stale
    BY <1>1, <2>1 DEF Stale, Answered
  <2>3. Genuine'
    BY <1>0, <1>1, <2>1, <2>2 DEF Genuine, Stale
  <2>4. InboxCurrent' /\ HeartbeatPace' /\ AcceptedMeansReceived'
    BY <1>0, <1>1 DEF InboxCurrent, HeartbeatPace, Answered, AcceptedMeansReceived, Accepted
  <2>5. StaleExplained'
    BY <1>0, <1>1, <2>2 DEF StaleExplained, Held, Attempts, Unpolled, Beats
  <2> QED BY <2>1, <2>3, <2>4, <2>5 DEF Credit
<1>2. CASE CommandStep /\ ~CommandDue
  BY <1>1, <1>2 DEF CommandStep, vars, history
<1>3. CASE BeginRead
  BY <1>1, <1>3 DEF BeginRead, vars, nodeVars, history
<1> QED BY <1>2, <1>3, EnqueueCredit, TransmitCredit, EndReadCredit DEF ControllerStep

(***************************************************************************)
(* What a step of the node leaves of the credit.                           *)
(***************************************************************************)
LEMMA NodeKeepsCredit ==
  ASSUME AInv, NodeStep \/ NodeRestarts
  PROVE  /\ Ack' = Ack /\ Attempts' = Attempts /\ Held' = Held
         /\ UNCHANGED <<slots, ret, sequence_number, since_command, controller, reply>>
         /\ losses' \in {losses, losses + 1}
         /\ (received => received') => AcceptedMeansReceived'
         /\ (Answered' => Held \/ inbox # <<>> \/ Answered) /\ inbox' \in {inbox, <<>>}
              => Numbered' /\ InboxCurrent'
<1>0. CInv /\ Numbered /\ InboxCurrent /\ AcceptedMeansReceived /\ PacedInv
  BY CreditParts
<1>1. /\ UNCHANGED <<slots, ret, sequence_number, since_command, controller, reply>>
      /\ losses' \in {losses, losses + 1}
  BY NodeLeaves
<1>2. Attempts' = Attempts /\ Held' = Held /\ Ack' = Ack
  BY <1>1 DEF Attempts, Held, Ack
<1>3. (received => received') => AcceptedMeansReceived'
  BY <1>0, <1>1 DEF AcceptedMeansReceived, Accepted
<1>4. ASSUME Answered' => Held \/ inbox # <<>> \/ Answered, inbox' \in {inbox, <<>>}
      PROVE  Numbered' /\ InboxCurrent'
  <2>1. Numbered'
    BY <1>0, <1>1, <1>2, <1>4, SameCommand
  <2>2. InboxCurrent'
    BY <1>0, <1>1, <1>4 DEF InboxCurrent
  <2> QED BY <2>1, <2>2
<1> QED BY <1>1, <1>2, <1>3, <1>4

\* A mailbox without an acknowledgement keeps the credit.
LEMMA QuietNodeCredit ==
  ASSUME AInv, NodeStep \/ NodeRestarts, ~Answered', inbox' \in {inbox, <<>>},
         received => received', node' \in {"heartbeat", "boot"} \/ since_heartbeat' < kHeartbeatInterval
  PROVE  Credit'
<1>0. Genuine /\ HeartbeatPace
  BY CreditParts
<1>1. /\ Numbered' /\ InboxCurrent' /\ AcceptedMeansReceived' /\ Ack' = Ack
      /\ UNCHANGED <<controller, reply>>
  BY NodeKeepsCredit
<1>2. mailbox' # Ack' /\ ~Stale' /\ StaleExplained'
  BY NothingAnswered
<1>3. Genuine'
  BY <1>0, <1>1, <1>2 DEF Genuine
<1>4. HeartbeatPace'
  BY <1>0 DEF HeartbeatPace
<1> QED BY <1>1, <1>2, <1>3, <1>4 DEF Credit

\* The node's setup keeps the credit: there is no acknowledgement yet.
LEMMA NodeSetupCredit ==
  ASSUME AInv, NodeSetup
  PROVE  Credit'
<1>1. mailbox' = Heartbeat
  BY DEF NodeSetup
<1>2. ~Answered'
  BY <1>1, AckIsOfItsNumber DEF Answered
<1> QED BY <1>2, QuietNodeCredit DEF NodeSetup, NodeStep

(***************************************************************************)
(* A heartbeat takes the acknowledgement away, or is lost.                 *)
(***************************************************************************)
LEMMA HeartbeatCredit ==
  ASSUME AInv, HeartbeatStep, UNCHANGED endpoint
  PROVE  Credit'
<1>0. CInv /\ Numbered /\ Genuine /\ HeartbeatPace /\ StaleExplained
  BY CreditParts
<1>1. /\ node = "heartbeat" /\ node' = "poll" /\ inbox' = inbox /\ received' = received
      /\ Ack' = Ack /\ Attempts' = Attempts /\ Held' = Held
      /\ UNCHANGED <<controller, reply, since_command>>
  BY NodeKeepsCredit DEF HeartbeatStep, NodeStep
<1>2. /\ since_heartbeat \in Nat /\ kHeartbeatInterval \in Nat /\ 0 < kHeartbeatInterval
      /\ Attempts \in Nat /\ losses \in Nat /\ Beats \in {0, 1} /\ Unpolled \in {0, 1}
  <2>1. Span(max_attempts) \in Nat /\ timeout_ms \in Nat
    BY Spans, Intervals
  <2> QED BY <1>0, <2>1, CreditNumbers, Numbers, Intervals, Spans
<1>3. Unpolled' = Unpolled /\ (since_heartbeat' < kHeartbeatInterval)
  BY <1>1, <1>2 DEF Unpolled, HeartbeatStep, HeartbeatDue
<1>4. ASSUME mailbox' = mailbox, StaleExplained',
             Answered /\ since_heartbeat' = 0 =>
               controller = "reading" \/ since_heartbeat = 0
      PROVE  Credit'
  <2>1. Answered' = Answered /\ Stale' = Stale
    BY <1>1, <1>4 DEF Answered, Stale
  <2>2. Numbered' /\ InboxCurrent' /\ AcceptedMeansReceived'
    BY <1>1, <2>1, NodeKeepsCredit DEF NodeStep
  <2>3. Genuine'
    BY <1>0, <1>1, <1>4, <2>1 DEF Genuine
  <2>4. HeartbeatPace'
    BY <1>0, <1>1, <1>3, <1>4, <2>1 DEF HeartbeatPace
  <2> QED BY <1>4, <2>2, <2>3, <2>4 DEF Credit
<1>5. CASE ~HeartbeatDue
  <2>1. UNCHANGED <<mailbox, losses, since_heartbeat>>
    BY <1>5 DEF HeartbeatStep
  <2>2. Beats' = Beats
    BY <1>1, <2>1, BeatsType
  <2>3. StaleExplained'
    BY <1>0, <1>1, <1>3, <2>1, <2>2 DEF StaleExplained, Stale, Answered
  <2> QED BY <1>4, <2>1, <2>3
<1>6. CASE HeartbeatDue
  <2>1. since_heartbeat' = 0 /\ publish(Heartbeat)
    BY <1>6 DEF HeartbeatStep
  <2>2. CASE endpoint = "pico" /\ controller = "reading"
    <3>1. losses' = losses + 1 /\ mailbox' = mailbox
      BY <2>1, <2>2 DEF publish, Lose
    <3>2. PICK later \in {0, 1} : Beats' = later
      BY BeatsType
    <3>3. Stale' = Stale
      BY <1>1, <3>1 DEF Stale, Answered
    <3>4. StaleExplained'
      BY <1>0, <1>1, <1>2, <1>3, <2>2, <3>1, <3>2, <3>3 DEF StaleExplained
    <3> QED BY <1>4, <2>2, <3>1, <3>4
  <2>3. CASE ~(endpoint = "pico" /\ controller = "reading")
    <3>1. mailbox' = Heartbeat
      BY <2>1, <2>3 DEF publish
    <3>2. ~Answered'
      BY <3>1, AckIsOfItsNumber DEF Answered
    <3> QED BY <1>1, <1>3, <3>2, QuietNodeCredit DEF NodeStep
  <2> QED BY <2>2, <2>3
<1> QED BY <1>5, <1>6

(***************************************************************************)
(* A command polled is acknowledged by its own number, or the answer lost. *)
(***************************************************************************)
LEMMA PollCredit ==
  ASSUME AInv, PollStep, UNCHANGED endpoint
  PROVE  Credit'
<1>0. /\ CInv /\ Numbered /\ InboxCurrent /\ InboxFresh /\ Genuine /\ HeartbeatPace
      /\ StaleExplained
  BY CreditParts
<1>1. /\ node = "poll" /\ node' = "done" /\ inbox' = <<>>
      /\ received' = (received \/ \E i \in DOMAIN inbox : inbox[i].current)
      /\ Ack' = Ack /\ Attempts' = Attempts /\ Held' = Held
      /\ UNCHANGED <<controller, reply, since_command, since_heartbeat>>
  BY NodeKeepsCredit DEF PollStep, NodeStep
<1>2. /\ Attempts \in Nat /\ losses \in Nat /\ Beats \in {0, 1} /\ Beats' = Beats
      /\ received \in BOOLEAN
  BY <1>0, <1>1, CreditNumbers, Numbers, BeatsType
<1>3. Unpolled' = 0
  BY <1>1 DEF Unpolled
<1>4. AcceptedMeansReceived' /\ (received => received')
  BY <1>1, NodeKeepsCredit DEF NodeStep
<1>5. CASE inbox = <<>>
  <2>1. UNCHANGED <<mailbox, losses>>
    BY <1>5 DEF PollStep
  <2>2. Answered' = Answered /\ Stale' = Stale
    BY <1>1, <2>1 DEF Answered, Stale
  <2>3. Numbered' /\ InboxCurrent'
    BY <1>1, <2>2, NodeKeepsCredit DEF NodeStep
  <2>4. Genuine'
    BY <1>0, <1>1, <1>4, <2>1, <2>2 DEF Genuine
  <2>5. HeartbeatPace'
    BY <1>0, <1>1, <2>2 DEF HeartbeatPace
  <2>6. StaleExplained'
    <3>1. Unpolled = 0
      BY <1>5 DEF Unpolled
    <3> QED BY <1>0, <1>1, <1>2, <1>3, <2>1, <2>2, <3>1 DEF StaleExplained
  <2> QED BY <1>4, <2>3, <2>4, <2>5, <2>6 DEF Credit
<1>6. CASE inbox # <<>>
  <2>1. /\ inbox[1].current /\ inbox[1].frame = slots[0].frame
        /\ kFlagAckRequired \in inbox[1].frame.flags
    BY <1>0, <1>6 DEF InboxCurrent
  <2>2. publish(Ack)
    BY <1>6, <2>1 DEF PollStep, Ack
  <2>3. received'
    <3>1. 1 \in DOMAIN inbox
      <4>1. inbox \in Inboxes
        BY <1>0, TypesAreTypes DEF CInv, CommandTypes
      <4> QED BY <1>6, <4>1 DEF Inboxes
    <3> QED BY <1>1, <2>1, <3>1
  <2>4. Numbered' /\ InboxCurrent'
    BY <1>1, <1>6, NodeKeepsCredit DEF NodeStep
  <2>5. HeartbeatPace'
    <3>1. since_command <= Span(max_attempts) + 1
      BY <1>0, <1>1, <1>6 DEF InboxFresh, Lag
    <3>2. controller = "setup" => inbox = <<>>
      BY CreditParts DEF InboxFresh
    <3> QED BY <1>0, <1>1, <1>6, <3>1, <3>2 DEF HeartbeatPace
  <2>6. Unpolled = 1
    BY <1>6 DEF Unpolled
  <2>7. CASE mailbox' = Ack
    <3>1. ~Stale'
      BY <1>1, <2>7 DEF Stale
    <3>2. Genuine'
      BY <1>0, <1>1, <2>3, <3>1 DEF Genuine
    <3>3. StaleExplained'
      BY <3>1 DEF StaleExplained
    <3> QED BY <1>4, <2>4, <2>5, <3>2, <3>3 DEF Credit
  <2>8. CASE Lose /\ UNCHANGED mailbox
    <3>1. losses' = losses + 1 /\ Stale' = Stale
      BY <1>1, <2>8 DEF Lose, Stale, Answered
    <3>2. Genuine'
      BY <1>0, <1>1, <2>3, <2>8, <3>1 DEF Genuine
    <3>3. StaleExplained'
      BY <1>0, <1>1, <1>2, <1>3, <2>6, <3>1 DEF StaleExplained
    <3> QED BY <1>4, <2>4, <2>5, <3>2, <3>3 DEF Credit
  <2> QED BY <2>2, <2>7, <2>8 DEF publish
<1> QED BY <1>5, <1>6

\* A restart of the node empties the mailbox.
LEMMA NodeRestartsCredit ==
  ASSUME AInv, NodeRestarts
  PROVE  Credit'
<1>1. mailbox' = NoFrame /\ inbox' = <<>> /\ received' = received /\ node' = "boot"
  BY DEF NodeRestarts
<1>2. ~Answered'
  BY <1>1, AckIsOfItsNumber DEF Answered
<1> QED BY <1>1, <1>2, QuietNodeCredit

(***************************************************************************)
(* Time does not bring a heartbeat that was not sent.                      *)
(***************************************************************************)
LEMMA TickCredit ==
  ASSUME AInv, CommandTick, UNCHANGED endpoint
  PROVE  Credit'
<1>0. /\ CInv /\ Numbered /\ InboxCurrent /\ InboxFresh /\ Genuine /\ HeartbeatPace
      /\ StaleExplained
  BY CreditParts
<1>1. /\ controller = "done" /\ node \in {"done", "boot"} /\ controller' = "command"
      /\ node' \in {"setup", "heartbeat"}
      /\ since_command' = Later(since_command, kCommandInterval)
      /\ since_heartbeat' = Later(since_heartbeat, kHeartbeatInterval)
      /\ UNCHANGED <<slots, sequence_number, reply, inbox, mailbox, received, losses>>
      /\ ret' = [call |-> "none"]
  BY DEF CommandTick, Tick, history
<1>2. Attempts' = Attempts /\ Held' = Held /\ Unpolled' = Unpolled /\ Answered' = Answered
  BY <1>1 DEF Attempts, Held, Unpolled, Answered
<1>3. Numbered' /\ Ack' = Ack
  BY <1>0, <1>1, <1>2, SameCommand
<1>4. Stale' = Stale
  BY <1>1, <1>2, <1>3 DEF Stale
<1>5. Genuine' /\ InboxCurrent' /\ AcceptedMeansReceived'
  BY <1>0, <1>1, <1>3, <1>4 DEF Genuine, InboxCurrent, AcceptedMeansReceived, Accepted
<1>6. /\ since_heartbeat \in Nat /\ since_command \in Nat /\ kHeartbeatInterval \in Nat
      /\ kCommandInterval \in Nat /\ 0 < kHeartbeatInterval
      /\ Attempts \in Nat /\ losses \in Nat /\ Beats \in {0, 1} /\ Unpolled \in {0, 1}
  <2>1. Span(max_attempts) \in Nat /\ timeout_ms \in Nat
    BY Spans, Intervals
  <2> QED BY <1>0, <2>1, CreditNumbers, Numbers, Intervals, Spans
<1>7. HeartbeatPace'
  <2>1. since_heartbeat' > 0
    BY <1>1, <1>6 DEF Later
  <2> QED BY <1>1, <2>1 DEF HeartbeatPace
<1>8. Stale => Beats' = Beats \/ Beats' = 0
  <2>1. SUFFICES ASSUME Stale, Beats = 0 PROVE Beats' = 0
    BY <1>6, BeatsType
  <2>2. node = "done"
    <3>1. node = "boot" => mailbox = NoFrame
      BY <1>0 DEF InboxFresh, Present
    <3> QED BY <1>1, <2>1, <3>1, AckIsOfItsNumber DEF Stale, Answered
  <2>3. since_heartbeat < kHeartbeatInterval /\ since_command < since_heartbeat
    BY <1>0, <1>6, <2>1, <2>2 DEF HeartbeatPace, Beats
  <2>4. since_command' < since_heartbeat'
    BY <1>1, <1>6, <2>3 DEF Later
  <2>5. since_command' \in Nat /\ since_heartbeat' \in Nat
    BY <1>1, <1>6 DEF Later
  <2> QED BY <2>4, <2>5 DEF Beats
<1>9. StaleExplained'
  <2>1. SUFFICES ASSUME Stale
                 PROVE  /\ losses' >= Attempts' - Unpolled' + Beats'
                        /\ Held' \/ Attempts' = max_attempts
                        /\ Beats' = 1 => endpoint' = "pico"
    BY <1>4 DEF StaleExplained
  <2> QED BY <1>0, <1>1, <1>2, <1>6, <1>8, <2>1 DEF StaleExplained
<1> QED BY <1>3, <1>5, <1>7, <1>9 DEF Credit

\* A controller that restarts finds no acknowledgement.
LEMMA ControllerRestartsCredit ==
  ASSUME AInv, Discernible, ControllerRestarts
  PROVE  Credit'
<1>0. ClockInv /\ HeartbeatPace
  BY CreditParts
<1>1. /\ Settled /\ UNCHANGED <<inbox, mailbox, since_heartbeat, node>>
      /\ controller' = "setup" /\ since_command' = 0
      /\ reply' = NoFrame /\ ret' = [call |-> "none"]
  BY DEF ControllerRestarts, Discernible, nodeVars
<1>2. ~Held' /\ ~Answered' /\ inbox' = <<>>
  BY <1>0, <1>1, RestartClock DEF Answered, Settled, Discernible
<1>3. Numbered' /\ InboxCurrent' /\ AcceptedMeansReceived'
  BY <1>1, <1>2 DEF Numbered, InboxCurrent, AcceptedMeansReceived, Accepted
<1>4. Genuine'
  BY <1>1, <1>2, NothingAnswered, AckIsOfItsNumber DEF Genuine
<1>5. HeartbeatPace'
  BY <1>0, <1>1, <1>2 DEF HeartbeatPace
<1> QED BY <1>2, <1>3, <1>4, <1>5, NothingAnswered DEF Credit

\* Every step keeps the credit.
LEMMA NextCredited ==
  ASSUME AInv, Discernible, [CommandNext]_<<commandVars, endpoint>>
  PROVE  AInv'
<1>0. PacedInv /\ endpoint \in Endpoints /\ Credit
  BY DEF AInv
<1>1. PacedInv'
  BY <1>0, NextPaced DEF Discernible
<1>2. endpoint' = endpoint
  BY DEF CommandNext
<1>3. Credit'
  <2>1. CASE UNCHANGED <<commandVars, endpoint>>
    <3>1. UNCHANGED <<slots, ret, sequence_number, since_command, controller, reply, inbox, mailbox,
                      since_heartbeat, node, received, losses>>
      BY <2>1 DEF commandVars, vars, controllerVars, nodeVars, history
    <3>2. UNCHANGED <<Held, Attempts, Ack, Answered, Stale, Beats, Unpolled>>
      BY <3>1 DEF Held, Attempts, Ack, Answered, Stale, Beats, Unpolled
    <3>3. Numbered' /\ InboxCurrent' /\ Genuine'
      BY <1>0, <3>1, <3>2 DEF Credit, Numbered, CommandFrame, FitsPayload, InboxCurrent, Genuine
    <3>4. HeartbeatPace' /\ StaleExplained' /\ AcceptedMeansReceived'
      BY <1>0, <1>2, <3>1, <3>2
         DEF Credit, HeartbeatPace, StaleExplained, AcceptedMeansReceived, Accepted
    <3> QED BY <3>3, <3>4 DEF Credit
  <2>2. CASE NodeStep
    BY <1>2, <2>2, NodeSetupCredit, HeartbeatCredit, PollCredit DEF NodeStep
  <2> QED BY <1>2, <2>1, <2>2, ControllerCredit, TickCredit, NodeRestartsCredit,
             ControllerRestartsCredit DEF CommandNext
<1> QED BY <1>0, <1>1, <1>2, <1>3 DEF AInv

\* Controller and node begin with an empty mailbox.
LEMMA InitCredited == CommandInit => AInv
<1> SUFFICES ASSUME CommandInit PROVE AInv
  OBVIOUS
<1>1. PacedInv /\ ~Held
  BY InitPaced
<1>2. /\ ret = [call |-> "none"] /\ inbox = <<>> /\ mailbox = NoFrame /\ reply = NoFrame
      /\ node = "setup" /\ endpoint \in Endpoints
  BY DEF CommandInit, Init
<1>3. ~Answered
  BY <1>2, AckIsOfItsNumber DEF Answered
<1>4. mailbox # Ack /\ ~Stale /\ reply # Ack
  BY <1>2, <1>3, NothingAnswered, AckIsOfItsNumber
<1> QED BY <1>1, <1>2, <1>3, <1>4
        DEF AInv, Credit, Numbered, InboxCurrent, Genuine, HeartbeatPace, StaleExplained,
            AcceptedMeansReceived, Accepted

(***************************************************************************)
(* A command the controller reports accepted has been received by the      *)
(* node, although the mailbox may hold the acknowledgement of an earlier   *)
(* command and its numbers come round: no acknowledgement outlasts the     *)
(* heartbeat and the attempts of the next command, for every width of the  *)
(* sequence number, every policy, every interval and either endpoint.      *)
(***************************************************************************)
THEOREM AcceptedIsReceived == Discernible /\ CommandSpec => []AcceptedMeansReceived
<1> SUFFICES ASSUME Discernible PROVE CommandSpec => []AcceptedMeansReceived
  OBVIOUS
<1>1. AInv => AcceptedMeansReceived
  BY DEF AInv, Credit
<1>2. AInv /\ [CommandNext]_<<commandVars, endpoint>> => AInv'
  BY NextCredited
<1> QED BY <1>1, <1>2, InitCredited, PTL DEF CommandSpec
==============================================================================
