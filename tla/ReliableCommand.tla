--------------------------- MODULE ReliableCommand ---------------------------
(***************************************************************************)
(* ArduinoReliableCommandController and the node it commands (PicoSdkI2cNode *)
(* or ArduinoHeartbeatNode), each in its loop.  The controller keeps one   *)
(* command at a time in a ReliableQueue, writes it to the node and reads   *)
(* the node's mailbox, the one place for heartbeats and acknowledgements.  *)
(*                                                                         *)
(* A tick is a pass of each loop; their steps interleave within it.  The   *)
(* timers of the code are the time elapsed since they were set, counted up *)
(* to the interval they are compared with.  Three variables are history:   *)
(* `current' marks a frame of the command that is pending, `received' says *)
(* that the node polled that command, and `losses' counts what went wrong  *)
(* on its way.                                                             *)
(***************************************************************************)
EXTENDS ReliableQueue, AckCodec

CONSTANTS
  kCommandInterval, kReceivePoll,    \* the controller's
  kHeartbeatInterval,                \* the node's
  Endpoints,         \* what the node's endpoint may be: "pico", "wire"
  QuickRestart,      \* the controller may restart before its last command is settled
  MaxLosses          \* losses on the bus a command can meet

(***************************************************************************)
(* The relations between the intervals of the programs: 250 ms times three *)
(* attempts is less than the 1000 ms between heartbeats, and those are     *)
(* less than the 5000 ms between commands.                                 *)
(***************************************************************************)
ASSUME CommandAssumption ==
  /\ kReceivePoll \in Nat \ {0} /\ kReceivePoll < timeout_ms
  /\ kHeartbeatInterval \in Nat /\ timeout_ms * max_attempts < kHeartbeatInterval
  /\ kCommandInterval \in Nat /\ kHeartbeatInterval <= kCommandInterval
  /\ Endpoints \subseteq {"pico", "wire"} /\ QuickRestart \in BOOLEAN /\ MaxLosses \in Nat
  /\ IsFiniteSet(Sequences) /\ Sequences = 0 .. Cardinality(Sequences) - 1
  /\ 2 \in PayloadLengths

VARIABLES
  sequence_number, since_command, since_receive,
  controller,          \* where loop() of the controller is
  reply,               \* the bytes the read in progress gives
  inbox,               \* the unread frame at the node's endpoint, if any
  mailbox,             \* the frame the node's endpoint answers reads with
  since_heartbeat,
  node,                \* where the node's loop is
  endpoint,            \* the kind of its endpoint, which never changes
  received, losses

controllerVars == <<sequence_number, since_command, since_receive, controller, reply>>
nodeVars == <<inbox, mailbox, since_heartbeat, node>>
history == <<received, losses>>
commandVars == <<vars, controllerVars, nodeVars, history>>

kNodeId == 0

Heartbeat == [type |-> "heartbeat", node_id |-> kNodeId, payload |-> <<0, 0, 0, 0>>]

\* Before the first publish a read gives zeros, which are no frame.
NoFrame == [type |-> "none", node_id |-> kNodeId, payload |-> <<>>]

CommandFrame ==
  [node_id |-> kNodeId, sequence |-> sequence_number, flags |-> {}, payload_length |-> 2]

CommandInit ==
  /\ Init /\ now_ms = 0
  /\ sequence_number = 0 /\ since_command = 0 /\ since_receive = 0
  /\ controller = "setup" /\ reply = NoFrame
  /\ inbox = <<>> /\ mailbox = NoFrame /\ since_heartbeat = 0 /\ node = "setup"
  /\ endpoint \in Endpoints
  /\ received = FALSE /\ losses = 0

Lose == losses < MaxLosses /\ losses' = losses + 1

-----------------------------------------------------------------------------
(* Mistakes that were easy to make here; none of them is part of a         *)
(* specification.                                                          *)

\* The number is taken without being counted up.
NextSequence_same == sequence_number

\* The number is wider than a uint8_t.
NextSequence_wider == sequence_number + 1

\* A heartbeat in every pass of the node's loop.
HeartbeatDue_always == TRUE

-----------------------------------------------------------------------------
(* The controller. *)

NextSequence == (sequence_number + 1) % Cardinality(Sequences)

enqueueCommand ==
  /\ enqueue(CommandFrame)
  /\ sequence_number' = NextSequence
  /\ inbox' = [i \in DOMAIN inbox |-> [inbox[i] EXCEPT !.current = FALSE]]
  /\ received' = FALSE /\ losses' = 0

setup ==
  /\ controller = "setup" /\ controller' = "command"
  /\ enqueueCommand
  /\ UNCHANGED <<since_command, since_receive, reply, mailbox, since_heartbeat, node>>

CommandDue == pending_count = 0 /\ since_command >= kCommandInterval

CommandStep ==
  /\ controller = "command" /\ controller' = "transmit"
  /\ IF CommandDue
       THEN enqueueCommand /\ since_command' = 0
       ELSE UNCHANGED <<vars, sequence_number, since_command, inbox, history>>
  /\ UNCHANGED <<since_receive, reply, mailbox, since_heartbeat, node>>

\* The Pico endpoint keeps the frame it has, the Wire endpoint the latest.
Arrive(f) ==
  inbox' = IF endpoint = "pico" /\ inbox # <<>> THEN inbox ELSE <<[frame |-> f, current |-> TRUE]>>

\* The node's endpoint has been begun.
Present == node \notin {"boot", "setup"}

\* A bus error is printed and otherwise ignored.
transmitDue ==
  /\ controller = "transmit" /\ controller' = "receive"
  /\ next_due
  /\ IF ret'.action = "send"
       THEN \/ Present /\ Arrive(ret'.frame) /\ UNCHANGED losses
            \/ Lose /\ UNCHANGED inbox
            \/ ~Present /\ losses = MaxLosses /\ UNCHANGED <<inbox, losses>>
       ELSE UNCHANGED <<inbox, losses>>
  /\ UNCHANGED <<sequence_number, since_command, since_receive, reply,
                 mailbox, since_heartbeat, node, received>>

\* receiveAcknowledgement reads the mailbox, if it is time to.
BeginRead ==
  /\ controller = "receive"
  /\ IF since_receive >= kReceivePoll
       THEN controller' = "reading" /\ since_receive' = 0 /\ reply' = mailbox
       ELSE controller' = "done" /\ UNCHANGED <<since_receive, reply>>
  /\ UNCHANGED <<vars, sequence_number, since_command, nodeVars, history>>

EndRead ==
  /\ controller = "reading" /\ controller' = "done"
  /\ reply' = NoFrame
  /\ \/ /\ ParsesAsAck(reply)
        /\ acknowledge(<<reply.node_id, AcknowledgedSequence(reply)>>, StatusOf(reply))
        /\ UNCHANGED losses
     \/ ~ParsesAsAck(reply) /\ UNCHANGED <<vars, losses>>
     \/ Lose /\ UNCHANGED vars
  /\ UNCHANGED <<sequence_number, since_command, since_receive, nodeVars, received>>

ControllerStep == setup \/ CommandStep \/ transmitDue \/ BeginRead \/ EndRead

-----------------------------------------------------------------------------
(* The node. *)

\* The Pico endpoint refuses a frame while it is being read; nobody looks at that.
publish(f) ==
  IF endpoint = "pico" /\ controller = "reading"
    THEN Lose /\ UNCHANGED mailbox
    ELSE mailbox' = f /\ UNCHANGED losses

\* After begin nothing is being sent, so neither endpoint refuses this frame.
NodeSetup ==
  /\ node = "setup" /\ node' = "heartbeat"
  /\ mailbox' = Heartbeat
  /\ UNCHANGED <<vars, controllerVars, inbox, since_heartbeat, received, losses>>

HeartbeatDue == since_heartbeat >= kHeartbeatInterval

HeartbeatStep ==
  /\ node = "heartbeat" /\ node' = "poll"
  /\ IF HeartbeatDue
       THEN publish(Heartbeat) /\ since_heartbeat' = 0
       ELSE UNCHANGED <<mailbox, losses, since_heartbeat>>
  /\ UNCHANGED <<vars, controllerVars, inbox, received>>

\* The node accepts every command it polls.
PollStep ==
  /\ node = "poll" /\ node' = "done"
  /\ inbox' = <<>>
  /\ received' = (received \/ \E i \in DOMAIN inbox : inbox[i].current)
  /\ IF inbox # <<>> /\ kFlagAckRequired \in inbox[1].frame.flags
       THEN publish(make_ack_frame(kNodeId, inbox[1].frame.sequence, "accepted"))
       ELSE UNCHANGED <<mailbox, losses>>
  /\ UNCHANGED <<vars, controllerVars, since_heartbeat>>

NodeStep == NodeSetup \/ HeartbeatStep \/ PollStep

-----------------------------------------------------------------------------
(* Time and failures. *)

Later(since, interval) == IF since < interval THEN since + 1 ELSE since

CommandTick ==
  /\ controller = "done" /\ node \in {"done", "boot"}
  /\ Tick
  /\ controller' = "command"
  /\ node' = IF node = "boot" THEN "setup" ELSE "heartbeat"
  /\ since_command' = Later(since_command, kCommandInterval)
  /\ since_receive' = Later(since_receive, kReceivePoll)
  /\ since_heartbeat' = Later(since_heartbeat, kHeartbeatInterval)
  /\ UNCHANGED <<sequence_number, reply, inbox, mailbox, history>>

\* Nothing of a command is left at the node.
Settled == inbox = <<>> /\ mailbox.type # "acknowledgement"

\* A restart takes a tick at least; what is in the endpoint is lost.
NodeRestarts ==
  /\ IF Settled THEN UNCHANGED losses ELSE Lose
  /\ node # "boot" /\ node' = "boot"
  /\ inbox' = <<>> /\ mailbox' = NoFrame /\ since_heartbeat' = 0
  /\ UNCHANGED <<vars, controllerVars, received>>

ControllerRestarts ==
  /\ QuickRestart \/ Settled
  /\ controller # "setup" /\ controller' = "setup"
  /\ slots' = [i \in SlotIds |-> EmptySlot] /\ age' = [i \in SlotIds |-> 0]
  /\ now_ms' = 0 /\ ret' = [call |-> "none"]
  /\ sequence_number' = 0 /\ since_command' = 0 /\ since_receive' = 0 /\ reply' = NoFrame
  /\ UNCHANGED <<nodeVars, history>>

CommandNext ==
  /\ \/ ControllerStep \/ NodeStep \/ CommandTick
     \/ NodeRestarts \/ ControllerRestarts
  /\ UNCHANGED endpoint

(***************************************************************************)
(* Both loops come round and time goes on; nothing that fails need recover.*)
(***************************************************************************)
CommandSpec ==
  /\ CommandInit /\ [][CommandNext]_<<commandVars, endpoint>>
  /\ WF_commandVars(ControllerStep) /\ WF_commandVars(NodeStep)
  /\ WF_commandVars(CommandTick)

-----------------------------------------------------------------------------

PublishedFrame == {Heartbeat, NoFrame} \cup
                  {make_ack_frame(kNodeId, n, "accepted") : n \in Sequences}

(***************************************************************************)
(* The type invariant: the queue's, the sequence number a uint8_t, and the *)
(* node's mailbox never anything but a heartbeat or an acknowledgement.    *)
(***************************************************************************)
CommandTypeOK ==
  /\ TypeOK
  /\ sequence_number \in Sequences
  /\ since_command \in 0 .. kCommandInterval /\ since_receive \in 0 .. kReceivePoll
  /\ controller \in {"setup", "command", "transmit", "receive", "reading", "done"}
  /\ reply \in PublishedFrame /\ mailbox \in PublishedFrame
  /\ inbox \in {<<>>} \cup {<<m>> : m \in [frame : Frame, current : BOOLEAN]}
  /\ since_heartbeat \in 0 .. kHeartbeatInterval
  /\ node \in {"setup", "heartbeat", "poll", "done", "boot"}
  /\ received \in BOOLEAN /\ losses \in 0 .. MaxLosses

Accepted == ret.call = "acknowledge" /\ ret.result = "accepted"

Exhausted == ret.call = "next_due" /\ ret.action = "exhausted"

(***************************************************************************)
(* "Command was accepted" (AckStatus::accepted, reliability.h): a command  *)
(* the controller reports accepted has been received by the node.  The     *)
(* mailbox still holds the acknowledgement of an earlier command when a    *)
(* new one is sent, and it is read again and again.                        *)
(***************************************************************************)
AcceptedMeansReceived == Accepted => received

(***************************************************************************)
(* A command is given up only when all but one of its attempts met a loss: *)
(* a bus error in either direction, a publish refused during a read, a     *)
(* restart of the node with a frame in its endpoint.  The heartbeats that  *)
(* replace acknowledgements in the mailbox never cost it more than one     *)
(* attempt, because they are further apart than the attempts of a command. *)
(***************************************************************************)
NoFalseExhaustion == Exhausted => losses >= max_attempts - 1

(***************************************************************************)
(* A command is settled when the timeouts of its attempts are over, so     *)
(* that it never holds up the next one, and what is reported is about no   *)
(* command but the last.                                                   *)
(***************************************************************************)
SettledInTime == pending_count # 0 => since_command <= timeout_ms * max_attempts

(***************************************************************************)
(* Every command is reported accepted or exhausted, or forgotten in a      *)
(* restart of the controller, even if no attempt gets through.             *)
(***************************************************************************)
EveryCommandReported == pending_count # 0 ~> pending_count = 0
==============================================================================
