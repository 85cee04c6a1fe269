------------------------ MODULE I2cPeripheralEndpoint ------------------------
(***************************************************************************)
(* picomesh::pico::I2cPeripheralEndpoint after begin(): two receive and    *)
(* two transmit buffers shared by the interrupt handler and the main loop. *)
(*                                                                         *)
(* The handler is two steps, because the bus goes on between its reading   *)
(* of the status register and its acting on it.  poll and the end of       *)
(* publish run with interrupts disabled and are one step each; publish     *)
(* copies its bytes before that with interrupts enabled, one step per      *)
(* byte.  The main loop does not run while the handler does.               *)
(***************************************************************************)
EXTENDS I2cBus

CONSTANTS
  kMaxEncodedFrameSize,
  FrameLengths,           \* encoded lengths of the frames main publishes
  DropModulus             \* dropped_frames_ is a uint32_t: 2^32 in the code

ASSUME EndpointAssumption ==
  /\ kMaxEncodedFrameSize \in Nat \ {0}
  /\ FrameLengths \subseteq 1 .. kMaxEncodedFrameSize
  /\ DropModulus \in Nat /\ DropModulus > 2

VARIABLES
  rx_buffers,        \* rx_buffers_ up to rx_lengths_, as sequences
  rx_write_index,
  rx_ready_index,
  rx_ready,
  tx_buffers,
  tx_lengths,
  tx_active_index,
  tx_index,
  dropped_frames,
  status,            \* the handler's snapshot of the status register, {} if not running
  publishing         \* the frame publish is copying, and how much is copied

rxVars == <<rx_buffers, rx_write_index, rx_ready_index, rx_ready>>
txVars == <<tx_buffers, tx_lengths, tx_active_index>>
vars == <<busVars, rxVars, txVars, tx_index, dropped_frames, status, publishing>>

Frames == [id : MessageIds, length : FrameLengths]

NotPublishing == [copied |-> -1]

Other(index) == 1 - index

(***************************************************************************)
(* The type invariant: every index and length that the handler and the     *)
(* main loop use stays inside its array.                                   *)
(***************************************************************************)
TypeOK ==
  /\ BusTypeOK
  /\ rx_buffers \in [0 .. 1 -> Seq(Byte)]
  /\ \A i \in 0 .. 1 : Len(rx_buffers[i]) <= kMaxEncodedFrameSize
  /\ rx_write_index \in 0 .. 1 /\ rx_ready_index \in 0 .. 1 /\ rx_ready \in BOOLEAN
  /\ tx_buffers \in [0 .. 1 -> [1 .. kMaxEncodedFrameSize -> Byte]]
  /\ tx_lengths \in [0 .. 1 -> 0 .. kMaxEncodedFrameSize]
  /\ tx_active_index \in 0 .. 1
  /\ tx_index \in 0 .. kMaxEncodedFrameSize
  /\ dropped_frames \in 0 .. DropModulus - 1
  /\ status \subseteq Conditions \cup {"RX_FULL"}
  /\ publishing \in {NotPublishing}
       \cup [frame : Frames, inactive : 0 .. 1, copied : 0 .. kMaxEncodedFrameSize]

Init ==
  /\ BusInit
  /\ rx_buffers = [i \in 0 .. 1 |-> <<>>]
  /\ rx_write_index = 0 /\ rx_ready_index = 0 /\ rx_ready = FALSE
  /\ tx_buffers = [i \in 0 .. 1 |-> [j \in 1 .. kMaxEncodedFrameSize |-> ZeroByte]]
  /\ tx_lengths = [i \in 0 .. 1 |-> 0]
  /\ tx_active_index = 0 /\ tx_index = 0
  /\ dropped_frames = 0
  /\ status = {}
  /\ publishing = NotPublishing

-----------------------------------------------------------------------------
(* Mistakes that were easy to make here; none of them is part of Spec. *)

HasRoom_off_by_one(buffer) == Len(buffer) <= kMaxEncodedFrameSize
Refused_never(received) == FALSE
WriteIndexAfter_unswapped(received) == rx_write_index
CanSwap_always == TRUE
TxIndexAfter_kept_at_end(index) ==
  IF index < tx_lengths[tx_active_index] /\ status \cap {"STOP_DET", "TX_ABRT"} # {}
    THEN 0 ELSE index
TxIndexAfter_abort_only(index) == IF "TX_ABRT" \in status THEN 0 ELSE index
Completes_if_free(received) == "STOP_DET" \in status /\ received # <<>> /\ ~rx_ready
AtStop_before_the_byte(received) == rx_buffers[rx_write_index]
NewDrops_of_frames(received) ==
  (IF "STOP_DET" \in status /\ received # <<>> /\ rx_ready THEN 1 ELSE 0)
    + (IF "RX_OVER" \in status THEN 1 ELSE 0)

-----------------------------------------------------------------------------
(* The interrupt handler. *)

IrqEnter ==
  /\ status = {} /\ ~Quiet
  /\ status' = Status
  /\ UNCHANGED <<busVars, rxVars, txVars, tx_index, dropped_frames, publishing>>

HasRoom(buffer) == Len(buffer) < kMaxEncodedFrameSize

\* The buffer being written after the handler has read one byte, if there is one.
Received ==
  LET buffer == rx_buffers[rx_write_index]
  IN  IF "RX_FULL" \in status /\ HasRoom(buffer)
        THEN Append(buffer, Head(fifo)) ELSE buffer

ByteRefused == "RX_FULL" \in status /\ ~HasRoom(rx_buffers[rx_write_index])

\* complete_receive_from_isr: the buffer that ends with this STOP.
AtStop(received) == received

Completes(received) == "STOP_DET" \in status /\ AtStop(received) # <<>>

\* The frame before it has not been polled.
Refused(received) == Completes(received) /\ rx_ready

Accepted(received) == Completes(received) /\ ~Refused(received)

WriteIndexAfter(received) ==
  IF Accepted(received) THEN Other(rx_write_index) ELSE rx_write_index

\* The position in the transmit buffer after the byte requested, if any.
Served ==
  IF "RD_REQ" \in status /\ tx_index < tx_lengths[tx_active_index]
    THEN tx_index + 1 ELSE tx_index

TxIndexAfter(index) ==
  IF "STOP_DET" \in status \/ "TX_ABRT" \in status THEN 0 ELSE index

\* How many of the handler's three increments of dropped_frames_ happen.
NewDrops(received) ==
    (IF ByteRefused THEN 1 ELSE 0)
  + (IF Refused(received) THEN 1 ELSE 0)
  + (IF "RX_OVER" \in status THEN 1 ELSE 0)

\* RX_FULL, RD_REQ, STOP_DET, TX_ABRT and RX_OVER of the snapshot, in that order.
IrqServe ==
  /\ status # {}
  /\ status' = {}
  /\ intr' = intr \ status
  /\ fifo' = IF "RX_FULL" \in status THEN Tail(fifo) ELSE fifo
  /\ rx_write_index' = WriteIndexAfter(Received)
  /\ rx_ready_index' = IF Accepted(Received) THEN rx_write_index ELSE rx_ready_index
  /\ rx_ready' = (rx_ready \/ Accepted(Received))
  /\ rx_buffers' =
       IF Accepted(Received)
         THEN [rx_buffers EXCEPT ![rx_write_index] = AtStop(Received),
                                 ![WriteIndexAfter(Received)] = <<>>]
         ELSE [rx_buffers EXCEPT ![rx_write_index] =
                 IF Refused(Received) THEN <<>> ELSE Received]
  /\ tx_index' = TxIndexAfter(Served)
  /\ tx_data' = IF "RD_REQ" \notin status THEN tx_data
                ELSE IF Served = tx_index THEN <<ZeroByte>>
                ELSE <<tx_buffers[tx_active_index][Served]>>
  /\ dropped_frames' = (dropped_frames + NewDrops(Received)) % DropModulus
  /\ completed' = IF "STOP_DET" \in status THEN <<>> ELSE completed
  /\ UNCHANGED <<bus, lag, readback, txVars, publishing>>

-----------------------------------------------------------------------------
(* The main loop. *)

\* poll with a frame ready: the bytes are copied and the buffer is given back.
Poll ==
  /\ status = {} /\ rx_ready
  /\ rx_ready' = FALSE
  /\ rx_buffers' = [rx_buffers EXCEPT ![rx_ready_index] = <<>>]
  /\ UNCHANGED <<busVars, rx_write_index, rx_ready_index, txVars, tx_index,
                 dropped_frames, status, publishing>>

\* publish has encoded the frame and chosen the buffer that is not being read.
PublishBegin(f) ==
  /\ status = {} /\ publishing = NotPublishing
  /\ publishing' = [frame |-> f, inactive |-> Other(tx_active_index), copied |-> 0]
  /\ UNCHANGED <<busVars, rxVars, txVars, tx_index, dropped_frames, status>>

PublishByte ==
  /\ status = {} /\ publishing # NotPublishing
  /\ publishing.copied < publishing.frame.length
  /\ LET i == publishing.copied + 1
     IN /\ tx_buffers' = [tx_buffers EXCEPT ![publishing.inactive][i] =
                            Bytes(publishing.frame)[i]]
        /\ publishing' = [publishing EXCEPT !.copied = i]
  /\ UNCHANGED <<busVars, rxVars, tx_lengths, tx_active_index, tx_index,
                 dropped_frames, status>>

\* No byte of the active buffer has been handed out in a read still in progress.
CanSwap == tx_index = 0

Copied ==
  /\ status = {} /\ publishing # NotPublishing
  /\ publishing.copied = publishing.frame.length

PublishCommit ==
  /\ Copied /\ CanSwap
  /\ tx_lengths' = [tx_lengths EXCEPT ![publishing.inactive] = publishing.frame.length]
  /\ tx_active_index' = publishing.inactive
  /\ publishing' = NotPublishing
  /\ UNCHANGED <<busVars, rxVars, tx_buffers, tx_index, dropped_frames, status>>

PublishRefused ==
  /\ Copied /\ ~CanSwap
  /\ publishing' = NotPublishing
  /\ UNCHANGED <<busVars, rxVars, txVars, tx_index, dropped_frames, status>>

-----------------------------------------------------------------------------

Hardware ==
  BusNext /\ UNCHANGED <<rxVars, txVars, tx_index, dropped_frames, status, publishing>>

Next ==
  \/ Hardware
  \/ IrqEnter \/ IrqServe
  \/ Poll
  \/ \E f \in Frames : PublishBegin(f)
  \/ PublishByte \/ PublishCommit \/ PublishRefused

(***************************************************************************)
(* The processor serves its interrupts, and a read that was begun moves on *)
(* to its end; nothing makes the controller begin one, or the main loop    *)
(* poll or publish.                                                        *)
(***************************************************************************)
Fairness ==
  /\ WF_vars(IrqEnter) /\ WF_vars(IrqServe)
  /\ WF_vars(Hardware /\ (ReadByte \/ StopRead))

Spec == Init /\ [][Next]_vars

-----------------------------------------------------------------------------

(***************************************************************************)
(* The handler never writes the buffer that holds the unread frame, and    *)
(* publish never the one that is being read, whatever the handler's delay. *)
(***************************************************************************)
BuffersApart ==
  /\ rx_ready => rx_ready_index # rx_write_index
  /\ publishing # NotPublishing => publishing.inactive # tx_active_index

(***************************************************************************)
(* An unread frame stays as it is until poll takes it, whatever arrives    *)
(* and however late the handler runs.                                      *)
(***************************************************************************)
UnreadFrameKept ==
  [][rx_ready /\ rx_ready' => /\ rx_ready_index' = rx_ready_index
                              /\ rx_buffers'[rx_ready_index] = rx_buffers[rx_ready_index]]_vars

\* What a buffer holds of m, whose last k bytes came late, and the j bytes of n after them.
LeftOver(m, k, n, j) ==
  SubSeq(Bytes(m), m.length - k + 1, m.length) \o SubSeq(Bytes(n), 1, j)

(***************************************************************************)
(* A handler one byte time late may end a frame before its last byte and   *)
(* find that byte in front of the next one (handle_irq takes one byte,     *)
(* then serves STOP of the same snapshot).  It does no more harm than      *)
(* that: a ready frame is the beginning of one write, behind at most the   *)
(* last byte of another.                                                   *)
(***************************************************************************)
LateFrame ==
  rx_ready =>
    \E m, n \in Messages : \E k \in 0 .. 1, j \in 0 .. n.length :
      k <= m.length /\ rx_buffers[rx_ready_index] = LeftOver(m, k, n, j)

\* The published frame as a controller sees it: zeros follow its last byte.
ActiveByte(i) ==
  IF i <= tx_lengths[tx_active_index] THEN tx_buffers[tx_active_index][i] ELSE ZeroByte

(***************************************************************************)
(* What a controller has read in one transaction is the beginning of the   *)
(* frame now published, however many frames main publishes meanwhile.  A   *)
(* read that began before anything was published starts with a zero.       *)
(***************************************************************************)
NoTornRead ==
  bus.mode = "read" /\ readback # <<>> /\ readback[1] # ZeroByte =>
    \A i \in DOMAIN readback : readback[i] = ActiveByte(i)

(***************************************************************************)
(* However late the handler is, a read is the published frame from its     *)
(* first byte on, behind one wrong byte at most: when the end of a read    *)
(* and the request of the next one are in one snapshot, the request is     *)
(* served first, from the position the read before it left.  A read that   *)
(* begins before the first publish has zeros in front of the frame.        *)
(***************************************************************************)
ReadShifted ==
  bus.mode = "read" =>
    \E z \in 0 .. Len(readback) :
      /\ z > 1 => \A i \in 1 .. z : readback[i] = ZeroByte
      /\ \A i \in z + 1 .. Len(readback) : readback[i] = ActiveByte(i - z)

(***************************************************************************)
(* "Concurrent publish/read: no torn or malformed frame is observed"       *)
(* (docs/hardware_validation.md): a read returns one frame or nothing but  *)
(* zeros.                                                                  *)
(***************************************************************************)
ReadsOneFrame ==
  bus.mode = "read" =>
    \/ \A i \in DOMAIN readback : readback[i] = ZeroByte
    \/ \A i \in DOMAIN readback : readback[i] = ActiveByte(i)

(***************************************************************************)
(* Publishing is blocked only while a read is in progress: the position in *)
(* the transmit buffer always returns to its beginning.                    *)
(***************************************************************************)
PublishUnblocked == tx_index # 0 ~> tx_index = 0

-----------------------------------------------------------------------------
(* The implementation of Mailbox, for a handler that is never late. *)

\* The bytes that have arrived of the write whose STOP is not served.
Arrived ==
  IF completed # <<>> THEN Len(completed) ELSE IF bus.mode = "write" THEN bus.sent ELSE 0

\* How many of them beyond the capacity the handler has read, and counted.
SurplusCounted ==
  LET taken == Arrived - Len(fifo)
  IN  IF taken > kMaxEncodedFrameSize THEN taken - kMaxEncodedFrameSize ELSE 0

Inbox == INSTANCE Mailbox
           WITH Message <- {Bytes(m) : m \in {n \in Messages : n.length > 0}},
                Capacity <- kMaxEncodedFrameSize,
                line <- completed,
                counted <- SurplusCounted,
                inbox <- IF rx_ready THEN rx_buffers[rx_ready_index] ELSE <<>>,
                dropped <- dropped_frames

(***************************************************************************)
(* A handler that serves every interrupt within a byte time makes the      *)
(* endpoint a mailbox: each complete write is delivered whole, up to its   *)
(* capacity, or counted, and an unread frame is left alone.                *)
(***************************************************************************)
MailboxSpec == Inbox!Spec
==============================================================================
