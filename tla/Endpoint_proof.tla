---------------------------- MODULE Endpoint_proof ----------------------------
(***************************************************************************)
(* Invariants of I2cPeripheralEndpoint, for every buffer size, FIFO depth  *)
(* and delay of the interrupt handler; then, for a handler that is never   *)
(* late, that reads are not torn and that the endpoint is a Mailbox; and   *)
(* that a begin stays in force, for every number of endpoints.             *)
(***************************************************************************)
EXTENDS I2cPeripheralEndpoint, EndpointRegistration, TLAPS

(***************************************************************************)
(* The handler's snapshot is still true when it acts on it, and of a read  *)
(* with bytes to come either the controller waits for one or one is ready. *)
(***************************************************************************)
Handshake ==
  /\ status \subseteq Status
  /\ bus.mode = "read" /\ bus.left > 0 => ("RD_REQ" \in intr <=> tx_data = <<>>)
  /\ bus.mode = "read" /\ bus.left = 0 => "RD_REQ" \notin intr /\ tx_data = <<>>
  /\ bus.mode # "read" => "RD_REQ" \notin intr /\ tx_data = <<>>

IInv == TypeOK /\ Handshake /\ BuffersApart

\* The driver as begin leaves it satisfies the invariant.
LEMMA InitIInv == Init => IInv
<1>. SUFFICES ASSUME Init PROVE IInv
  OBVIOUS
<1>1. BusTypeOK
  BY BusAssumption DEF Init, BusInit, BusTypeOK, BusState, Idle
<1>2. TypeOK
  <2>1. rx_buffers \in [0 .. 1 -> Seq(Byte)] /\ \A i \in 0 .. 1 : Len(rx_buffers[i]) = 0
    BY DEF Init
  <2>2. tx_buffers \in [0 .. 1 -> [1 .. kMaxEncodedFrameSize -> Byte]]
    BY DEF Init, Byte
  <2>3. tx_lengths \in [0 .. 1 -> 0 .. kMaxEncodedFrameSize] /\ 0 \in 0 .. kMaxEncodedFrameSize
    BY EndpointAssumption DEF Init
  <2>4. \A i \in 0 .. 1 : Len(rx_buffers[i]) <= kMaxEncodedFrameSize
    BY <2>1, EndpointAssumption
  <2>5. dropped_frames \in 0 .. DropModulus - 1
    BY EndpointAssumption DEF Init
  <2>6. /\ rx_write_index \in 0 .. 1 /\ rx_ready_index \in 0 .. 1
        /\ tx_active_index \in 0 .. 1 /\ tx_index \in 0 .. kMaxEncodedFrameSize
    BY <2>3 DEF Init
  <2>7. /\ rx_ready \in BOOLEAN
        /\ status \subseteq Conditions \cup {"RX_FULL"}
        /\ publishing \in {NotPublishing}
    BY DEF Init
  <2>8. QED
    BY <1>1, <2>1, <2>2, <2>3, <2>4, <2>5, <2>6, <2>7 DEF TypeOK
<1>3. Handshake
  BY DEF Init, BusInit, Handshake, Idle
<1>4. QED
  BY <1>2, <1>3 DEF IInv, Init, BuffersApart

-----------------------------------------------------------------------------
(* The bus keeps the types of its variables and the handshake. *)

\* The bytes of a message are as many as its length says.
LEMMA BytesType ==
  ASSUME NEW m \in Messages
  PROVE  Bytes(m) \in Seq(Byte) /\ Len(Bytes(m)) = m.length /\ m.length \in Nat
         /\ \A i \in 1 .. m.length : Bytes(m)[i] \in Byte
<1>1. m.length \in Nat /\ m.id \in MessageIds
  BY BusAssumption DEF Messages
<1>2. \A i \in 1 .. m.length : <<m.id, i>> \in Byte
  BY <1>1 DEF Byte
<1>3. QED
  BY <1>1, <1>2 DEF Bytes

\* A byte time on the bus keeps the lag within its bound.
LEMMA ByteTimeType ==
  ASSUME BusTypeOK, ByteTime
  PROVE  lag' \in 0 .. MaxLag
BY BusAssumption DEF BusTypeOK, ByteTime

\* The interrupt status holds the latched conditions, and RX_FULL exactly while the FIFO is not empty.
LEMMA StatusMembers ==
  ASSUME BusTypeOK
  PROVE  /\ \A c \in Conditions : c \in Status <=> c \in intr
         /\ "RX_FULL" \in Status <=> fifo # <<>>
         /\ Status \subseteq Conditions \cup {"RX_FULL"}
BY DEF Status, Conditions, BusTypeOK

\* A step of the bus keeps the hardware's types and the handshake with the handler.
LEMMA BusStep ==
  ASSUME BusTypeOK, Handshake, BusNext, UNCHANGED status
  PROVE  BusTypeOK' /\ Handshake'
<1>1. ASSUME NEW m \in Messages, StartWrite(m)
      PROVE  BusTypeOK' /\ Handshake'
  <2>1. BusTypeOK'
    BY <1>1, ByteTimeType DEF StartWrite, BusTypeOK, BusState
  <2>2. QED
    BY <1>1, <2>1 DEF StartWrite, Handshake, Status, Idle
<1>2. CASE WriteByte
  <2>1. bus \in [mode : {"write"}, message : Messages, sent : Nat]
    BY <1>2 DEF WriteByte, BusTypeOK, BusState
  <2>2. Bytes(bus.message)[bus.sent + 1] \in Byte
    BY <1>2, <2>1, BytesType DEF WriteByte
  <2>3. bus' \in [mode : {"write"}, message : Messages, sent : Nat]
    BY <1>2, <2>1 DEF WriteByte
  <2>4. fifo' \in Seq(Byte) /\ Len(fifo') <= FifoDepth /\ (fifo # <<>> => fifo' # <<>>)
    <3>1. fifo \in Seq(Byte) /\ Len(fifo) <= FifoDepth
      BY DEF BusTypeOK
    <3>2. CASE Len(fifo) < FifoDepth
      <4>1. fifo' = Append(fifo, Bytes(bus.message)[bus.sent + 1])
        BY <1>2, <3>2 DEF WriteByte
      <4>2. QED
        BY <2>2, <3>1, <3>2, <4>1, BusAssumption
    <3>3. CASE ~ (Len(fifo) < FifoDepth)
      <4>1. fifo' = fifo
        BY <1>2, <3>3 DEF WriteByte
      <4>2. QED
        BY <3>1, <4>1
    <3>4. QED
      BY <3>2, <3>3
  <2>5. intr' \subseteq Conditions /\ intr \subseteq intr'
        /\ ("RD_REQ" \in intr' <=> "RD_REQ" \in intr)
    BY <1>2 DEF WriteByte, BusTypeOK, Conditions
  <2>6. BusTypeOK'
    BY <1>2, <2>3, <2>4, <2>5, ByteTimeType DEF WriteByte, BusTypeOK, BusState
  <2>7. Status \subseteq Status'
    BY <2>4, <2>5 DEF Status
  <2>8. QED
    BY <1>2, <2>3, <2>5, <2>6, <2>7 DEF WriteByte, Handshake
<1>3. CASE StopWrite
  <2>1. bus \in [mode : {"write"}, message : Messages, sent : Nat]
    BY <1>3 DEF StopWrite, BusTypeOK, BusState
  <2>2. completed' \in Seq(Byte)
    BY <1>3, <2>1, BytesType DEF StopWrite, BusTypeOK
  <2>3. BusTypeOK'
    BY <1>3, <2>2 DEF StopWrite, BusTypeOK, BusState, Idle, Conditions
  <2>4. QED
    BY <1>3, <2>3 DEF StopWrite, Handshake, Idle, Status
<1>4. ASSUME NEW n \in ReadLengths, StartRead(n)
      PROVE  BusTypeOK' /\ Handshake'
  <2>1. n \in Nat /\ n > 0
    BY BusAssumption
  <2>2. BusTypeOK'
    BY <1>4, <2>1, ByteTimeType DEF StartRead, BusTypeOK, BusState, Conditions
  <2>3. QED
    BY <1>4, <2>1, <2>2 DEF StartRead, Handshake, Status, Idle
<1>5. CASE ReadByte
  <2>1. bus \in [mode : {"read"}, left : Nat]
    BY <1>5 DEF ReadByte, BusTypeOK, BusState
  <2>2. bus.left > 0 /\ "RD_REQ" \notin intr
    BY <1>5, <2>1 DEF ReadByte, Handshake
  <2>3. bus' = [mode |-> "read", left |-> bus.left - 1] /\ bus.left - 1 \in Nat
    BY <1>5, <2>1, <2>2 DEF ReadByte
  <2>4. tx_data \in Seq(Byte) /\ readback \in Seq(Byte)
    BY DEF BusTypeOK
  <2>5. readback \o tx_data \in Seq(Byte)
    BY <2>4
  <2>6. BusTypeOK'
    <3>1. tx_data' \in Seq(Byte) /\ Len(tx_data') <= 1
      BY <1>5 DEF ReadByte
    <3>2. bus' \in BusState
      BY <2>3 DEF BusState
    <3>3. intr' \subseteq Conditions
      BY <1>5 DEF ReadByte, BusTypeOK, Conditions
    <3>4. lag' \in 0 .. MaxLag
      BY <1>5, ByteTimeType DEF ReadByte
    <3>5. QED
      BY <1>5, <2>5, <3>1, <3>2, <3>3, <3>4 DEF ReadByte, BusTypeOK
  <2>7. QED
    BY <1>5, <2>1, <2>2, <2>3, <2>6 DEF ReadByte, Handshake, Status
<1>6. CASE StopRead
  <2>1. BusTypeOK'
    BY <1>6 DEF StopRead, BusTypeOK, BusState, Idle, Conditions
  <2>2. QED
    BY <1>6, <2>1 DEF StopRead, Handshake, Idle, Status
<1>7. CASE AbortRead
  <2>1. BusTypeOK'
    BY <1>7 DEF AbortRead, BusTypeOK, BusState, Idle, Conditions
  <2>2. QED
    BY <1>7, <2>1 DEF AbortRead, Handshake, Idle, Status
<1>8. CASE StartOther
  <2>1. BusTypeOK'
    BY <1>8, ByteTimeType DEF StartOther, BusTypeOK, BusState
  <2>2. QED
    BY <1>8, <2>1 DEF StartOther, Handshake, Status, Idle
<1>9. CASE StopOther
  <2>1. BusTypeOK'
    BY <1>9 DEF StopOther, BusTypeOK, BusState, Idle, Conditions
  <2>2. QED
    BY <1>9, <2>1 DEF StopOther, Handshake, Idle, Status
<1>10. QED
  BY <1>1, <1>2, <1>3, <1>4, <1>5, <1>6, <1>7, <1>8, <1>9 DEF BusNext

-----------------------------------------------------------------------------
(* The handler. *)

\* What a run of the handler has received fits into a buffer.
LEMMA ReceivedType ==
  ASSUME TypeOK, Handshake
  PROVE  Received \in Seq(Byte) /\ Len(Received) <= kMaxEncodedFrameSize
<1>. DEFINE buffer == rx_buffers[rx_write_index]
<1>1. buffer \in Seq(Byte) /\ Len(buffer) <= kMaxEncodedFrameSize
  BY DEF TypeOK
<1>2. CASE "RX_FULL" \in status /\ HasRoom(buffer)
  <2>1. fifo # <<>> /\ fifo \in Seq(Byte)
    BY <1>2, StatusMembers DEF Handshake, TypeOK, BusTypeOK
  <2>2. Head(fifo) \in Byte
    BY <2>1
  <2>3. Received = Append(buffer, Head(fifo))
    BY <1>2 DEF Received
  <2>4. QED
    BY <1>1, <1>2, <2>2, <2>3, EndpointAssumption DEF HasRoom
<1>3. CASE ~ ("RX_FULL" \in status /\ HasRoom(buffer))
  BY <1>1, <1>3 DEF Received
<1>4. QED
  BY <1>2, <1>3

\* Where a run of the handler leaves tx_index_, within the frame.
LEMMA ServedType ==
  ASSUME TypeOK
  PROVE  /\ Served \in 0 .. kMaxEncodedFrameSize
         /\ Served # tx_index => Served \in 1 .. kMaxEncodedFrameSize
BY EndpointAssumption DEF TypeOK, Served

\* The counter of dropped frames wraps.
LEMMA DropsType ==
  ASSUME TypeOK, NEW n \in Nat
  PROVE  (dropped_frames + n) % DropModulus \in 0 .. DropModulus - 1
BY EndpointAssumption DEF TypeOK

\* A run of the handler keeps the invariant.
LEMMA IrqServeStep ==
  ASSUME IInv, IrqServe
  PROVE  IInv'
<1>. DEFINE w == rx_write_index
<1>1. TypeOK /\ Handshake /\ BusTypeOK /\ w \in 0 .. 1 /\ Other(w) \in 0 .. 1 /\ Other(w) # w
  BY DEF IInv, TypeOK, Other
<1>2. Received \in Seq(Byte) /\ Len(Received) <= kMaxEncodedFrameSize
  BY <1>1, ReceivedType
<1>3. /\ fifo' \in Seq(Byte) /\ Len(fifo') <= FifoDepth
      /\ intr' \subseteq Conditions
  <2>1. fifo \in Seq(Byte) /\ Len(fifo) <= FifoDepth
    BY <1>1 DEF BusTypeOK
  <2>2. CASE "RX_FULL" \in status
    <3>1. fifo # <<>> /\ fifo' = Tail(fifo)
      BY <1>1, <2>2, StatusMembers DEF Handshake, IrqServe
    <3>2. QED
      BY <1>1, <2>1, <3>1, BusAssumption DEF IrqServe, BusTypeOK
  <2>3. CASE "RX_FULL" \notin status
    BY <1>1, <2>1, <2>3 DEF IrqServe, BusTypeOK
  <2>4. QED
    BY <2>2, <2>3
<1>4. tx_data' \in Seq(Byte) /\ Len(tx_data') <= 1
      /\ ("RD_REQ" \in status => tx_data' # <<>>)
      /\ ("RD_REQ" \notin status => tx_data' = tx_data)
  <2>1. CASE "RD_REQ" \notin status
    BY <1>1, <2>1 DEF IrqServe, BusTypeOK
  <2>2. CASE "RD_REQ" \in status /\ Served = tx_index
    <3>1. tx_data' = <<ZeroByte>> /\ ZeroByte \in Byte
      BY <2>2 DEF IrqServe, Byte
    <3>2. QED
      BY <2>2, <3>1
  <2>3. CASE "RD_REQ" \in status /\ Served # tx_index
    <3>1. tx_data' = <<tx_buffers[tx_active_index][Served]>>
      BY <2>3 DEF IrqServe
    <3>2. tx_buffers[tx_active_index][Served] \in Byte
      BY <1>1, <2>3, ServedType DEF TypeOK
    <3>3. QED
      BY <2>3, <3>1, <3>2
  <2>4. QED
    BY <2>1, <2>2, <2>3
<1>5. BusTypeOK'
  <2>1. completed' \in Seq(Byte)
    BY <1>1 DEF IrqServe, BusTypeOK
  <2>2. QED
    BY <1>1, <1>3, <1>4, <2>1 DEF IrqServe, BusTypeOK
<1>6. rx_buffers' \in [0 .. 1 -> Seq(Byte)]
      /\ \A i \in 0 .. 1 : Len(rx_buffers'[i]) <= kMaxEncodedFrameSize
  <2>1. <<>> \in Seq(Byte) /\ Len(<<>>) <= kMaxEncodedFrameSize
    BY EndpointAssumption
  <2>2. rx_buffers \in [0 .. 1 -> Seq(Byte)]
        /\ \A i \in 0 .. 1 : Len(rx_buffers[i]) <= kMaxEncodedFrameSize
    BY <1>1 DEF TypeOK
  <2>3. CASE Accepted(Received)
    <3>1. rx_buffers' = [rx_buffers EXCEPT ![w] = Received, ![Other(w)] = <<>>]
      BY <2>3 DEF IrqServe, AtStop, WriteIndexAfter
    <3>2. QED
      BY <1>1, <1>2, <2>1, <2>2, <3>1
  <2>4. CASE ~Accepted(Received)
    <3>1. PICK b \in {<<>>, Received} : rx_buffers' = [rx_buffers EXCEPT ![w] = b]
      BY <2>4 DEF IrqServe
    <3>2. QED
      BY <1>1, <1>2, <2>1, <2>2, <3>1
  <2>5. QED
    BY <2>3, <2>4
<1>7. /\ rx_write_index' \in 0 .. 1 /\ rx_ready_index' \in 0 .. 1 /\ rx_ready' \in BOOLEAN
      /\ tx_index' \in 0 .. kMaxEncodedFrameSize
  <2>1. rx_write_index' \in 0 .. 1 /\ rx_ready_index' \in 0 .. 1 /\ rx_ready' \in BOOLEAN
    BY <1>1 DEF IrqServe, WriteIndexAfter, TypeOK, Accepted, Completes
  <2>2. tx_index' \in 0 .. kMaxEncodedFrameSize
    BY <1>1, ServedType, EndpointAssumption DEF IrqServe, TxIndexAfter
  <2>3. QED
    BY <2>1, <2>2
<1>8. dropped_frames' \in 0 .. DropModulus - 1
  <2>1. NewDrops(Received) \in Nat
    BY DEF NewDrops
  <2>2. QED
    BY <1>1, <2>1, DropsType DEF IrqServe
<1>9. TypeOK'
  <2>1. status' = {}
    BY DEF IrqServe
  <2>2. QED
    BY <1>1, <1>5, <1>6, <1>7, <1>8, <2>1 DEF IrqServe, TypeOK, txVars, Frames
<1>10. Handshake'
  <2>1. "RD_REQ" \in status => "RD_REQ" \in intr
    BY <1>1, StatusMembers DEF Handshake, Conditions
  <2>2. status' = {} /\ intr' = intr \ status /\ bus' = bus
    BY DEF IrqServe
  <2>3. CASE "RD_REQ" \in status
    BY <1>1, <1>4, <2>1, <2>2, <2>3 DEF Handshake
  <2>4. CASE "RD_REQ" \notin status
    BY <1>1, <1>4, <2>2, <2>4 DEF Handshake
  <2>5. QED
    BY <2>3, <2>4
<1>11. BuffersApart'
  <2>1. rx_ready' => rx_ready_index' # rx_write_index'
    <3>1. CASE Accepted(Received)
      BY <1>1, <3>1 DEF IrqServe, WriteIndexAfter
    <3>2. CASE ~Accepted(Received)
      BY <3>2 DEF IrqServe, WriteIndexAfter, IInv, BuffersApart
    <3>3. QED
      BY <3>1, <3>2
  <2>2. QED
    BY <2>1 DEF IrqServe, IInv, BuffersApart, txVars
<1>12. QED
  BY <1>9, <1>10, <1>11 DEF IInv

-----------------------------------------------------------------------------
(* The main loop. *)

\* poll keeps the invariant.
LEMMA PollStep ==
  ASSUME IInv, Poll
  PROVE  IInv'
<1>1. BusTypeOK' /\ Handshake'
  BY DEF IInv, TypeOK, Poll, BusTypeOK, Handshake, Status, busVars
<1>2. rx_buffers' \in [0 .. 1 -> Seq(Byte)]
      /\ \A i \in 0 .. 1 : Len(rx_buffers'[i]) <= kMaxEncodedFrameSize
  <2>1. <<>> \in Seq(Byte) /\ Len(<<>>) <= kMaxEncodedFrameSize
    BY EndpointAssumption
  <2>2. QED
    BY <2>1 DEF IInv, TypeOK, Poll
<1>3. QED
  BY <1>1, <1>2 DEF IInv, TypeOK, Poll, BuffersApart, txVars, Frames

\* publish, up to its copy, keeps the invariant.
LEMMA PublishBeginStep ==
  ASSUME IInv, NEW f \in Frames, PublishBegin(f)
  PROVE  IInv'
<1>1. BusTypeOK' /\ Handshake'
  BY DEF IInv, TypeOK, PublishBegin, BusTypeOK, Handshake, Status, busVars
<1>2. publishing' \in [frame : Frames, inactive : 0 .. 1, copied : 0 .. kMaxEncodedFrameSize]
      /\ publishing'.inactive # tx_active_index
  BY EndpointAssumption DEF PublishBegin, IInv, TypeOK, Other
<1>3. QED
  BY <1>1, <1>2 DEF IInv, TypeOK, PublishBegin, BuffersApart, txVars, rxVars

\* A byte of publish's copy keeps the invariant.
LEMMA PublishByteStep ==
  ASSUME IInv, PublishByte
  PROVE  IInv'
<1>. DEFINE P == [frame : Frames, inactive : 0 .. 1, copied : 0 .. kMaxEncodedFrameSize]
            i == publishing.copied + 1
<1>1. BusTypeOK' /\ Handshake'
  BY DEF IInv, TypeOK, PublishByte, BusTypeOK, Handshake, Status, busVars
<1>2. publishing \in P
  BY DEF IInv, TypeOK, PublishByte
<1>3. /\ publishing.frame.length \in 1 .. kMaxEncodedFrameSize
      /\ publishing.frame.id \in MessageIds
  BY <1>2, EndpointAssumption DEF Frames
<1>4. i \in 1 .. publishing.frame.length /\ i \in 1 .. kMaxEncodedFrameSize
      /\ i \in 0 .. kMaxEncodedFrameSize
  BY <1>2, <1>3, EndpointAssumption DEF PublishByte
<1>5. Bytes(publishing.frame)[i] \in Byte
  BY <1>3, <1>4 DEF Bytes, Byte
<1>6. publishing' = [publishing EXCEPT !.copied = i]
  BY DEF PublishByte
<1>7. publishing' \in P /\ publishing'.inactive = publishing.inactive
  BY <1>2, <1>4, <1>6
<1>8. tx_buffers' \in [0 .. 1 -> [1 .. kMaxEncodedFrameSize -> Byte]]
  BY <1>2, <1>4, <1>5 DEF PublishByte, IInv, TypeOK
<1>9. QED
  BY <1>1, <1>7, <1>8 DEF IInv, TypeOK, PublishByte, BuffersApart, rxVars

\* The exchange of the transmit buffers keeps the invariant.
LEMMA PublishCommitStep ==
  ASSUME IInv, PublishCommit
  PROVE  IInv'
<1>1. BusTypeOK' /\ Handshake'
  BY DEF IInv, TypeOK, PublishCommit, Copied, BusTypeOK, Handshake, Status, busVars
<1>2. publishing \in [frame : Frames, inactive : 0 .. 1, copied : 0 .. kMaxEncodedFrameSize]
  BY DEF IInv, TypeOK, PublishCommit, Copied
<1>3. publishing.frame \in Frames /\ publishing.inactive \in 0 .. 1
  BY <1>2
<1>4. publishing.frame.length \in FrameLengths
  BY <1>3 DEF Frames
<1>5. \A n \in FrameLengths : n \in 0 .. kMaxEncodedFrameSize
  BY EndpointAssumption
<1>6. QED
  BY <1>1, <1>3, <1>4, <1>5 DEF IInv, TypeOK, PublishCommit, BuffersApart, rxVars

\* A refused publish keeps the invariant.
LEMMA PublishRefusedStep ==
  ASSUME IInv, PublishRefused
  PROVE  IInv'
<1>1. BusTypeOK' /\ Handshake'
  BY DEF IInv, TypeOK, PublishRefused, Copied, BusTypeOK, Handshake, Status, busVars
<1>2. QED
  BY <1>1 DEF IInv, TypeOK, PublishRefused, BuffersApart, rxVars, txVars

\* A stuttering step keeps the invariant.
LEMMA UnchangedStep ==
  ASSUME IInv, UNCHANGED vars
  PROVE  IInv'
<1>1. BusTypeOK' /\ Handshake'
  BY DEF IInv, TypeOK, BusTypeOK, Handshake, Status, vars, busVars
<1>2. QED
  BY <1>1 DEF IInv, TypeOK, BuffersApart, vars, rxVars, txVars, Frames

\* A step of the bus keeps the whole invariant: it touches no variable of the driver.
LEMMA HardwareStep ==
  ASSUME IInv, Hardware
  PROVE  IInv'
<1>1. BusTypeOK' /\ Handshake'
  BY BusStep DEF Hardware, IInv, TypeOK
<1>2. QED
  BY <1>1 DEF IInv, TypeOK, Hardware, BuffersApart, rxVars, txVars, Frames

\* The snapshot of the interrupt status keeps the invariant.
LEMMA IrqEnterStep ==
  ASSUME IInv, IrqEnter
  PROVE  IInv'
<1>1. BusTypeOK'
  BY DEF IInv, TypeOK, IrqEnter, BusTypeOK, busVars
<1>2. Handshake' /\ status' \subseteq Conditions \cup {"RX_FULL"}
  BY StatusMembers DEF IInv, TypeOK, IrqEnter, Handshake, Status, busVars
<1>3. QED
  BY <1>1, <1>2 DEF IInv, TypeOK, IrqEnter, BuffersApart, rxVars, txVars, Frames

\* The invariant holds in every state of the endpoint.
THEOREM InductiveInvariant == Spec => []IInv
<1>1. Init => IInv
  BY InitIInv
<1>2. IInv /\ [Next]_vars => IInv'
  BY HardwareStep, IrqEnterStep, IrqServeStep, PollStep, PublishBeginStep, PublishByteStep,
     PublishCommitStep, PublishRefusedStep, UnchangedStep DEF Next
<1>3. QED
  BY <1>1, <1>2, PTL DEF Spec

-----------------------------------------------------------------------------

(***************************************************************************)
(* No received byte is ever written beyond the end of a buffer, nor one    *)
(* transmitted from beyond it, and the drop counter wraps within its type. *)
(***************************************************************************)
THEOREM TypeCorrect == Spec => []TypeOK
<1>1. IInv => TypeOK
  BY DEF IInv
<1>2. QED
  BY <1>1, InductiveInvariant, PTL

(***************************************************************************)
(* The handler and the main loop never share a buffer, however late the    *)
(* handler runs.                                                           *)
(***************************************************************************)
THEOREM BuffersStayApart == Spec => []BuffersApart
<1>1. IInv => BuffersApart
  BY DEF IInv
<1>2. QED
  BY <1>1, InductiveInvariant, PTL

(***************************************************************************)
(* An unread frame stays as it is until poll takes it, however late the    *)
(* handler runs and whatever arrives.                                      *)
(***************************************************************************)
THEOREM UnreadFramesAreKept == Spec => UnreadFrameKept
<1>. DEFINE A == rx_ready /\ rx_ready' =>
                   /\ rx_ready_index' = rx_ready_index
                   /\ rx_buffers'[rx_ready_index] = rx_buffers[rx_ready_index]
<1>1. ASSUME IInv, [Next]_vars
      PROVE  A
  <2>1. CASE UNCHANGED rxVars
    BY <2>1 DEF rxVars
  <2>2. CASE Poll
    BY <2>2 DEF Poll
  <2>3. CASE IrqServe
    <3>. SUFFICES ASSUME rx_ready
                  PROVE  /\ rx_ready_index' = rx_ready_index
                         /\ rx_buffers'[rx_ready_index] = rx_buffers[rx_ready_index]
      OBVIOUS
    <3>1. ~Accepted(Received)
      BY DEF Accepted, Refused
    <3>2. rx_ready_index # rx_write_index /\ rx_ready_index \in 0 .. 1
      BY <1>1 DEF IInv, TypeOK, BuffersApart
    <3>3. rx_buffers \in [0 .. 1 -> Seq(Byte)]
      BY <1>1 DEF IInv, TypeOK
    <3>4. QED
      BY <2>3, <3>1, <3>2, <3>3 DEF IrqServe
  <2>4. QED
    BY <1>1, <2>1, <2>2, <2>3
    DEF Next, vars, Hardware, IrqEnter, PublishBegin, PublishByte, PublishCommit, PublishRefused
<1>2. QED
  BY <1>1, InductiveInvariant, PTL DEF Spec, UnreadFrameKept

-----------------------------------------------------------------------------
(* A handler that is never late: MaxLag = 0. *)

\* The bytes of this read that have been handed to the hardware.
HandedOut == readback \o tx_data

Smaller(a, b) == IF a < b THEN a ELSE b

(***************************************************************************)
(* A read begins at the beginning of the transmit buffer, and the index    *)
(* follows the bytes handed out from the first one of a frame on; it goes  *)
(* back with the end of the read.                                          *)
(***************************************************************************)
ReadInStep ==
  /\ bus.mode = "read" => intr \subseteq {"RD_REQ"} /\ fifo = <<>>
  /\ bus.mode # "read" => readback = <<>>
  /\ bus.mode # "read" /\ tx_index # 0 => intr \cap {"STOP_DET", "TX_ABRT"} # {}
  /\ bus.mode = "read" /\ HandedOut = <<>> => tx_index = 0
  /\ bus.mode = "read" /\ HandedOut # <<>> /\ HandedOut[1] # ZeroByte =>
       /\ tx_index > 0
       /\ tx_index = Smaller(Len(HandedOut), tx_lengths[tx_active_index])
       /\ \A i \in DOMAIN HandedOut : HandedOut[i] = ActiveByte(i)

\* The first n bytes of s have been received: at most one is still in the FIFO.
Holds(s, n) ==
  LET buffer == rx_buffers[rx_write_index]
  IN  /\ Len(fifo) <= 1
      /\ fifo # <<>> => n >= 1 /\ fifo[1] = s[n]
      /\ Len(buffer) = Smaller(n - Len(fifo), kMaxEncodedFrameSize)
      /\ \A i \in 1 .. Len(buffer) : buffer[i] = s[i]

(***************************************************************************)
(* The buffer being written and the FIFO hold what has arrived of the      *)
(* write in progress, or the write whose STOP is not served, and no more.  *)
(***************************************************************************)
WriteInStep ==
  /\ bus.mode = "write" =>
       /\ intr = {} /\ completed = <<>> /\ bus.sent <= bus.message.length
       /\ Holds(Bytes(bus.message), bus.sent)
  /\ bus.mode # "write" => Holds(completed, Len(completed))
  /\ completed # <<>> => "STOP_DET" \in intr
  /\ "STOP_DET" \in status /\ fifo # <<>> => "RX_FULL" \in status
  /\ "RX_OVER" \notin intr
  /\ rx_ready => rx_buffers[rx_ready_index] # <<>>

PInv == MaxLag = 0 /\ IInv /\ ReadInStep /\ WriteInStep

\* Without lag, nothing is left to serve when the bus moves a byte.
LEMMA PromptByteTime ==
  ASSUME PInv, ByteTime
  PROVE  intr = {} /\ fifo = <<>> /\ status = {}
BY DEF PInv, IInv, TypeOK, BusTypeOK, Handshake, ByteTime, Quiet, Status

\* What appending a byte does.
LEMMA SequenceFacts ==
  ASSUME NEW S, NEW s \in Seq(S), NEW b \in S
  PROVE  /\ s \o <<>> = s
         /\ s \o <<b>> = Append(s, b)
         /\ Append(s, b) # <<>>
         /\ Len(Append(s, b)) = Len(s) + 1
         /\ Append(s, b)[Len(s) + 1] = b
         /\ \A i \in 1 .. Len(s) : Append(s, b)[i] = s[i]
         /\ DOMAIN s = 1 .. Len(s)
         /\ DOMAIN Append(s, b) = 1 .. Len(s) + 1
         /\ Len(s) \in Nat
         /\ s = <<>> <=> Len(s) = 0
OBVIOUS

\* A sequence of at most one byte, when it is not empty.
LEMMA OneLong ==
  ASSUME NEW S, NEW s \in Seq(S), s # <<>>, Len(s) <= 1
  PROVE  Len(s) = 1 /\ Tail(s) = <<>> /\ Head(s) = s[1] /\ Head(s) \in S
<1>1. Len(s) \in Nat /\ Len(s) # 0
  OBVIOUS
<1>2. Len(s) = 1
  BY <1>1
<1>3. Len(Tail(s)) = 0 /\ Tail(s) \in Seq(S)
  BY <1>2
<1>4. Tail(s) = <<>>
  BY <1>3
<1>5. QED
  BY <1>2, <1>4

\* tx_index_ follows the number of bytes requested up to the frame's length.
LEMMA SmallerNext ==
  ASSUME NEW n \in Nat, NEW l \in Nat, NEW t, t = Smaller(n, l)
  PROVE  /\ (IF t < l THEN t + 1 ELSE t) = Smaller(n + 1, l)
         /\ t < l => t = n /\ n + 1 <= l /\ t + 1 # t
         /\ ~ (t < l) => ~ (n + 1 <= l)
BY DEF Smaller

\* The bus keeps a read in step with the frame it began with.
LEMMA HardwareReadInStep ==
  ASSUME PInv, Hardware
  PROVE  ReadInStep'
<1>. USE DEF ReadInStep, HandedOut, ActiveByte
<1>1. IInv /\ ReadInStep /\ bus \in BusState /\ readback \in Seq(Byte) /\ tx_data \in Seq(Byte)
      /\ UNCHANGED <<tx_index, tx_lengths, tx_active_index, tx_buffers>>
  BY DEF PInv, IInv, TypeOK, BusTypeOK, Hardware, txVars
<1>2. ASSUME bus'.mode # "read", readback' = <<>>,
             tx_index # 0 => intr' \cap {"STOP_DET", "TX_ABRT"} # {}
      PROVE  ReadInStep'
  BY <1>1, <1>2
<1>3. ASSUME NEW m \in Messages, StartWrite(m)
      PROVE  ReadInStep'
  BY <1>1, <1>2, <1>3, PromptByteTime DEF StartWrite, Idle
<1>4. CASE WriteByte
  <2>1. bus \in [mode : {"write"}, message : Messages, sent : Nat]
    BY <1>1, <1>4 DEF WriteByte, BusState
  <2>2. bus'.mode = "write"
    BY <1>4, <2>1 DEF WriteByte
  <2>3. QED
    BY <1>1, <1>2, <1>4, <2>1, <2>2, PromptByteTime DEF WriteByte
<1>5. CASE StopWrite
  BY <1>1, <1>2, <1>5 DEF StopWrite, Idle
<1>6. ASSUME NEW n \in ReadLengths, StartRead(n)
      PROVE  ReadInStep'
  <2>1. intr = {} /\ fifo = <<>> /\ tx_index = 0 /\ readback = <<>> /\ tx_data = <<>>
    BY <1>1, <1>6, PromptByteTime DEF StartRead, Idle, IInv, Handshake
  <2>2. HandedOut' = <<>>
    BY <1>6, <2>1 DEF StartRead
  <2>3. QED
    BY <1>1, <1>6, <2>1, <2>2 DEF StartRead
<1>7. CASE ReadByte
  <2>1. intr = {} /\ fifo = <<>>
    BY <1>7, PromptByteTime DEF ReadByte
  <2>2. bus \in [mode : {"read"}, left : Nat]
    BY <1>1, <1>7 DEF ReadByte, BusState
  <2>3. bus'.mode = "read"
    BY <1>7, <2>2 DEF ReadByte
  <2>4. HandedOut \in Seq(Byte)
    BY <1>1
  <2>5. HandedOut' = HandedOut
    <3>1. HandedOut' = HandedOut \o <<>>
      BY <1>7 DEF ReadByte
    <3>2. QED
      BY <2>4, <3>1
  <2>6. QED
    BY <1>1, <1>7, <2>1, <2>2, <2>3, <2>5 DEF ReadByte
<1>8. CASE StopRead
  BY <1>1, <1>2, <1>8 DEF StopRead, Idle
<1>9. CASE AbortRead
  BY <1>1, <1>2, <1>9 DEF AbortRead, Idle
<1>10. CASE StartOther
  BY <1>1, <1>2, <1>10, PromptByteTime DEF StartOther, Idle
<1>11. CASE StopOther
  BY <1>1, <1>2, <1>11 DEF StopOther, Idle
<1>12. QED
  BY <1>3, <1>4, <1>5, <1>6, <1>7, <1>8, <1>9, <1>10, <1>11 DEF Hardware, BusNext

\* The handler keeps a read in step with the frame it began with.
LEMMA IrqServeReadInStep ==
  ASSUME PInv, IrqServe
  PROVE  ReadInStep'
<1>. DEFINE L == tx_lengths[tx_active_index]
<1>1. /\ TypeOK /\ Handshake /\ ReadInStep
      /\ readback \in Seq(Byte) /\ tx_data \in Seq(Byte)
      /\ L \in 0 .. kMaxEncodedFrameSize /\ tx_index \in 0 .. kMaxEncodedFrameSize
      /\ kMaxEncodedFrameSize \in Nat
      /\ \A c \in Conditions : c \in status => c \in intr
  BY StatusMembers, EndpointAssumption DEF PInv, IInv, TypeOK, BusTypeOK, Handshake
<1>2. /\ bus' = bus /\ readback' = readback /\ intr' = intr \ status
      /\ tx_lengths' = tx_lengths /\ tx_buffers' = tx_buffers
      /\ tx_active_index' = tx_active_index
      /\ \A i : ActiveByte(i)' = ActiveByte(i)
  BY DEF IrqServe, txVars, ActiveByte
<1>3. CASE bus.mode # "read"
  <2>1. "RD_REQ" \notin status /\ tx_data' = <<>>
    BY <1>1, <1>3 DEF Handshake, Conditions, IrqServe
  <2>2. tx_index' # 0 => intr' \cap {"STOP_DET", "TX_ABRT"} # {}
    BY <1>1, <1>2, <1>3, <2>1 DEF ReadInStep, IrqServe, TxIndexAfter, Served
  <2>3. QED
    BY <1>1, <1>2, <1>3, <2>1, <2>2 DEF ReadInStep
<1>4. CASE bus.mode = "read"
  <2>1. /\ intr \subseteq {"RD_REQ"} /\ fifo = <<>> /\ fifo' = <<>>
        /\ "STOP_DET" \notin status /\ "TX_ABRT" \notin status
        /\ "RX_FULL" \notin status
    BY <1>1, <1>4, StatusMembers DEF ReadInStep, Conditions, IrqServe, Handshake, TypeOK
  <2>2. tx_index' = Served
    BY <2>1 DEF IrqServe, TxIndexAfter
  <2>3. "RD_REQ" \in status
    BY <1>1, <2>1 DEF IrqServe, TypeOK, Conditions
  <2>4. tx_data = <<>> /\ HandedOut = readback
    <3>1. bus \in [mode : {"read"}, left : Nat]
      BY <1>1, <1>4 DEF TypeOK, BusTypeOK, BusState
    <3>2. "RD_REQ" \in intr
      BY <1>1, <2>3 DEF Conditions
    <3>3. tx_data = <<>>
      BY <1>1, <1>4, <3>1, <3>2 DEF Handshake
    <3>4. QED
      BY <1>1, <3>3 DEF HandedOut
  <2>5. PICK b \in Byte : /\ tx_data' = <<b>>
                          /\ b = IF Served = tx_index THEN ZeroByte
                                  ELSE tx_buffers[tx_active_index][Served]
    <3>1. tx_data' = <<IF Served = tx_index THEN ZeroByte
                         ELSE tx_buffers[tx_active_index][Served]>>
      BY <2>3 DEF IrqServe
    <3>2. ZeroByte \in Byte
      BY DEF Byte
    <3>3. Served # tx_index => tx_buffers[tx_active_index][Served] \in Byte
      BY <1>1, ServedType DEF TypeOK
    <3>4. QED
      BY <3>1, <3>2, <3>3
  <2>6. HandedOut' = Append(readback, b)
    BY <1>1, <1>2, <2>5 DEF HandedOut
  <2>7. Served = IF tx_index < L THEN tx_index + 1 ELSE tx_index
    BY <2>3 DEF Served
  <2>8. ASSUME Append(readback, b)[1] # ZeroByte
        PROVE  /\ Served > 0
               /\ Served = Smaller(Len(readback) + 1, L)
               /\ b = ActiveByte(Len(readback) + 1)
               /\ \A i \in 1 .. Len(readback) : readback[i] = ActiveByte(i)
    <3>1. CASE readback = <<>>
      <4>1. tx_index = 0 /\ b # ZeroByte
        BY <1>1, <1>4, <2>4, <2>8, <3>1 DEF ReadInStep
      <4>2. L > 0 /\ Served = 1
        BY <1>1, <2>5, <2>7, <4>1
      <4>3. QED
        BY <1>1, <2>5, <3>1, <4>1, <4>2 DEF Smaller, ActiveByte
    <3>2. CASE readback # <<>>
      <4>1. readback[1] # ZeroByte /\ Len(readback) \in Nat \ {0}
            /\ DOMAIN readback = 1 .. Len(readback)
        BY <1>1, <2>8, <3>2
      <4>2. /\ tx_index > 0 /\ tx_index = Smaller(Len(readback), L)
            /\ \A i \in DOMAIN readback : readback[i] = ActiveByte(i)
        BY <1>1, <1>4, <2>4, <3>2, <4>1 DEF ReadInStep
      <4>. HIDE DEF L
      <4>3. /\ (IF tx_index < L THEN tx_index + 1 ELSE tx_index) = Smaller(Len(readback) + 1, L)
            /\ tx_index < L => /\ tx_index = Len(readback) /\ Len(readback) + 1 <= L
                               /\ tx_index + 1 # tx_index
            /\ ~ (tx_index < L) => ~ (Len(readback) + 1 <= L)
        <5>1. L \in Nat /\ Len(readback) \in Nat
          BY <1>1, <4>1
        <5>2. QED
          BY <4>2, <5>1, SmallerNext
      <4>4. Served > 0 /\ Served = Smaller(Len(readback) + 1, L)
        BY <1>1, <2>7, <4>2, <4>3
      <4>5. b = ActiveByte(Len(readback) + 1)
        <5>1. CASE tx_index < L
          <6>1. Served = Len(readback) + 1 /\ Served # tx_index /\ Served <= L
            BY <1>1, <2>7, <4>3, <5>1
          <6>2. QED
            BY <2>5, <6>1 DEF ActiveByte, L
        <5>2. CASE ~ (tx_index < L)
          <6>1. Served = tx_index /\ ~ (Len(readback) + 1 <= L)
            BY <1>1, <2>7, <4>3, <5>2
          <6>2. QED
            BY <2>5, <6>1 DEF ActiveByte, L
        <5>3. QED
          BY <5>1, <5>2
      <4>6. QED
        BY <4>1, <4>2, <4>4, <4>5
    <3>3. QED
      BY <3>1, <3>2
  <2>9. HandedOut' # <<>> /\ Len(HandedOut') = Len(readback) + 1
        /\ DOMAIN HandedOut' = 1 .. Len(readback) + 1
    BY <1>1, <2>6, SequenceFacts
  <2>10. ASSUME HandedOut'[1] # ZeroByte
         PROVE  /\ tx_index' > 0
                /\ tx_index' = Smaller(Len(HandedOut'), tx_lengths'[tx_active_index'])
                /\ \A i \in DOMAIN HandedOut' : HandedOut'[i] = ActiveByte(i)'
    <3>1. \A i \in DOMAIN HandedOut' : HandedOut'[i] = ActiveByte(i)
      BY <1>1, <2>6, <2>8, <2>9, <2>10, SequenceFacts
    <3>2. QED
      BY <1>2, <2>2, <2>6, <2>8, <2>9, <2>10, <3>1
  <2>11. QED
    BY <1>2, <1>4, <2>1, <2>9, <2>10 DEF ReadInStep
<1>5. QED
  BY <1>3, <1>4

\* publish leaves a read in progress alone.
LEMMA MainReadInStep ==
  ASSUME PInv, PublishByte \/ PublishCommit \/ PublishRefused
  PROVE  ReadInStep'
<1>1. TypeOK /\ ReadInStep /\ BuffersApart /\ UNCHANGED busVars /\ UNCHANGED tx_index
      /\ publishing \in [frame : Frames, inactive : 0 .. 1, copied : 0 .. kMaxEncodedFrameSize]
      /\ publishing # NotPublishing
  BY DEF PInv, IInv, PublishByte, PublishCommit, PublishRefused, Copied, TypeOK
<1>2. CASE PublishByte
  <2>1. publishing.inactive # tx_active_index /\ publishing.inactive \in 0 .. 1
    BY <1>1 DEF BuffersApart
  <2>2. tx_buffers'[tx_active_index] = tx_buffers[tx_active_index]
    BY <1>1, <1>2, <2>1 DEF PublishByte, TypeOK
  <2>3. QED
    BY <1>1, <1>2, <2>2 DEF PublishByte, ReadInStep, HandedOut, ActiveByte, busVars
<1>3. CASE PublishCommit
  <2>1. tx_index = 0
    BY <1>3 DEF PublishCommit, CanSwap
  <2>2. QED
    BY <1>1, <2>1 DEF ReadInStep, HandedOut, busVars
<1>4. CASE PublishRefused
  BY <1>1, <1>4 DEF PublishRefused, ReadInStep, HandedOut, ActiveByte, busVars, txVars
<1>5. QED
  BY <1>2, <1>3, <1>4

\* Before its first byte a write has left nothing in the FIFO and the buffer.
LEMMA EmptyHolds ==
  ASSUME PInv, NEW s, Holds(<<>>, 0)
  PROVE  Holds(s, 0) /\ fifo = <<>> /\ rx_buffers[rx_write_index] = <<>>
<1>1. fifo \in Seq(Byte) /\ rx_buffers[rx_write_index] \in Seq(Byte)
  BY DEF PInv, IInv, TypeOK, BusTypeOK
<1>2. Len(fifo) = 0
  BY <1>1 DEF Holds
<1>3. Len(rx_buffers[rx_write_index]) = 0
  <2>1. Len(rx_buffers[rx_write_index]) = Smaller(0 - Len(fifo), kMaxEncodedFrameSize)
    BY DEF Holds
  <2>2. 0 - Len(fifo) = 0
    BY <1>2
  <2>3. QED
    BY <2>1, <2>2, EndpointAssumption DEF Smaller
<1>4. fifo = <<>> /\ rx_buffers[rx_write_index] = <<>>
  BY <1>1, <1>2, <1>3
<1>5. QED
  BY <1>2, <1>3, <1>4 DEF Holds

\* The bus keeps a write in step with the receive buffer.
LEMMA HardwareWriteInStep ==
  ASSUME PInv, Hardware
  PROVE  WriteInStep'
<1>1. /\ WriteInStep /\ bus \in BusState /\ fifo \in Seq(Byte) /\ completed \in Seq(Byte)
      /\ status \subseteq Status
      /\ UNCHANGED <<rx_buffers, rx_write_index, rx_ready_index, rx_ready, status>>
  BY DEF PInv, IInv, TypeOK, BusTypeOK, Hardware, rxVars, Handshake
<1>2. ASSUME UNCHANGED <<fifo, completed>>, bus.mode # "write", bus'.mode # "write",
             intr \subseteq intr', "RX_OVER" \in intr' => "RX_OVER" \in intr
      PROVE  WriteInStep'
  BY <1>1, <1>2 DEF WriteInStep, Holds
<1>3. ASSUME NEW m \in Messages, StartWrite(m)
      PROVE  WriteInStep'
  <2>1. intr = {} /\ status = {} /\ completed = <<>> /\ Len(completed) = 0
    BY <1>1, <1>3, PromptByteTime DEF StartWrite, WriteInStep
  <2>2. Holds(<<>>, 0)
    BY <1>1, <1>3, <2>1 DEF StartWrite, WriteInStep, Idle
  <2>3. Holds(Bytes(m), 0)
    BY <2>2, EmptyHolds
  <2>4. Holds(Bytes(m), 0)'
    BY <1>1, <1>3, <2>3 DEF StartWrite, Holds
  <2>5. m.length \in Nat
    BY BytesType
  <2>6. bus'.mode = "write" /\ bus'.message = m /\ bus'.sent = 0
    BY <1>3 DEF StartWrite
  <2>7. Holds(Bytes(bus.message), bus.sent)'
    BY <2>4, <2>6 DEF Holds
  <2>8. QED
    BY <1>1, <1>3, <2>1, <2>5, <2>6, <2>7 DEF StartWrite, WriteInStep
<1>4. CASE WriteByte
  <2>1. bus \in [mode : {"write"}, message : Messages, sent : Nat]
    BY <1>1, <1>4 DEF WriteByte, BusState
  <2>. PICK m \in Messages, n \in Nat : m = bus.message /\ n = bus.sent
    BY <2>1
  <2>2. /\ bus' = [bus EXCEPT !.sent = @ + 1]
        /\ bus'.mode = "write" /\ bus'.message = m /\ bus'.sent = n + 1
        /\ n < m.length /\ m.length \in Nat /\ n \in Nat
    BY <1>4, <2>1, BytesType DEF WriteByte
  <2>3. intr = {} /\ fifo = <<>> /\ status = {} /\ Holds(Bytes(m), n) /\ completed = <<>>
    BY <1>1, <1>4, <2>1, PromptByteTime DEF WriteByte, WriteInStep
  <2>4. Len(fifo) < FifoDepth
    BY <2>3, BusAssumption
  <2>5. fifo' = <<Bytes(m)[n + 1]>> /\ intr' = {}
    BY <1>4, <2>3, <2>4 DEF WriteByte
  <2>6. Holds(Bytes(m), n + 1)'
    BY <1>1, <2>2, <2>3, <2>5 DEF Holds
  <2>7. Holds(Bytes(bus.message), bus.sent)'
    BY <2>2, <2>6 DEF Holds
  <2>8. QED
    BY <1>1, <1>4, <2>2, <2>3, <2>5, <2>7 DEF WriteByte, WriteInStep
<1>5. CASE StopWrite
  <2>1. bus \in [mode : {"write"}, message : Messages, sent : Nat]
    BY <1>1, <1>5 DEF StopWrite, BusState
  <2>. DEFINE m == bus.message
  <2>2. /\ intr = {} /\ completed = <<>> /\ Holds(Bytes(m), m.length)
        /\ m.length \in Nat /\ Len(Bytes(m)) = m.length
    BY <1>1, <1>5, <2>1, BytesType DEF StopWrite, WriteInStep
  <2>3. intr' = {"STOP_DET"} /\ "STOP_DET" \notin status' /\ bus'.mode # "write"
        /\ fifo' = fifo
    BY <1>1, <1>5, <2>2 DEF StopWrite, Status, Idle
  <2>4. Holds(completed, Len(completed))'
    <3>1. CASE m.length > 0
      <4>1. completed' = Bytes(m)
        BY <1>5, <3>1 DEF StopWrite
      <4>2. QED
        BY <1>1, <2>2, <2>3, <4>1 DEF Holds
    <3>2. CASE m.length = 0
      <4>1. completed' = <<>> /\ Len(completed') = 0
        BY <1>5, <2>2, <3>2 DEF StopWrite
      <4>2. Len(fifo) = 0 /\ Len(rx_buffers[rx_write_index]) = 0
        BY <1>1, <2>2, <3>2, EndpointAssumption DEF Holds, Smaller
      <4>3. QED
        BY <1>1, <2>2, <2>3, <3>2, <4>1, <4>2 DEF Holds
    <3>3. QED
      BY <2>2, <3>1, <3>2
  <2>5. QED
    BY <1>1, <2>3, <2>4 DEF WriteInStep
<1>6. ASSUME NEW n \in ReadLengths, StartRead(n)
      PROVE  WriteInStep'
  BY <1>2, <1>6 DEF StartRead, Idle
<1>7. CASE ReadByte
  <2>1. bus'.mode = "read"
    BY <1>1, <1>7 DEF ReadByte, BusState
  <2>2. QED
    BY <1>2, <1>7, <2>1 DEF ReadByte
<1>8. CASE StopRead \/ AbortRead
  BY <1>2, <1>8 DEF StopRead, AbortRead, Idle
<1>9. CASE StartOther
  BY <1>2, <1>9 DEF StartOther, Idle
<1>10. CASE StopOther
  BY <1>2, <1>10 DEF StopOther, Idle
<1>11. QED
  BY <1>3, <1>4, <1>5, <1>6, <1>7, <1>8, <1>9, <1>10 DEF Hardware, BusNext

\* The FIFO after the handler has read one byte, if there is one.
FifoLeft == IF "RX_FULL" \in status THEN Tail(fifo) ELSE fifo

\* A run of the handler moves the bytes of a write from the FIFO to the buffer in their order.
LEMMA ReceivedHolds ==
  ASSUME PInv, NEW s, NEW n \in Nat, Holds(s, n)
  PROVE  /\ Len(FifoLeft) <= 1
         /\ FifoLeft # <<>> => n >= 1 /\ FifoLeft[1] = s[n]
         /\ Len(Received) = Smaller(n - Len(FifoLeft), kMaxEncodedFrameSize)
         /\ \A i \in 1 .. Len(Received) : Received[i] = s[i]
         /\ ByteRefused => n > kMaxEncodedFrameSize
<1>. DEFINE buffer == rx_buffers[rx_write_index]
            K == kMaxEncodedFrameSize
<1>1. buffer \in Seq(Byte) /\ Len(buffer) \in Nat /\ fifo \in Seq(Byte) /\ K \in Nat
      /\ ("RX_FULL" \in status => fifo # <<>>)
  BY StatusMembers, EndpointAssumption DEF PInv, IInv, TypeOK, BusTypeOK, Handshake
<1>2. CASE "RX_FULL" \notin status
  BY <1>2 DEF Holds, Received, ByteRefused, FifoLeft
<1>3. CASE "RX_FULL" \in status
  <2>1. Len(fifo) = 1 /\ Tail(fifo) = <<>> /\ Head(fifo) = fifo[1]
    BY <1>1, <1>3, OneLong DEF Holds
  <2>2. FifoLeft = <<>> /\ Len(FifoLeft) = 0
    BY <1>3, <2>1 DEF FifoLeft
  <2>3. /\ Head(fifo) = s[n] /\ n >= 1
        /\ Len(buffer) = Smaller(n - 1, K)
        /\ \A i \in 1 .. Len(buffer) : buffer[i] = s[i]
    BY <1>1, <1>3, <2>1 DEF Holds
  <2>4. s[n] \in Byte
    BY <1>1, <1>3, <2>3
  <2>. HIDE DEF buffer, K
  <2>5. CASE HasRoom(buffer)
    <3>1. Received = Append(buffer, s[n]) /\ ~ByteRefused
      BY <1>3, <2>3, <2>5 DEF Received, ByteRefused, buffer
    <3>2. Len(buffer) = n - 1 /\ Smaller(n, K) = n
      BY <1>1, <2>3, <2>5 DEF HasRoom, Smaller, K
    <3>3. Len(Received) = n /\ \A i \in 1 .. n : Received[i] = s[i]
      BY <1>1, <2>3, <2>4, <3>1, <3>2
    <3>4. n - Len(FifoLeft) = n
      BY <2>2
    <3>5. QED
      BY <2>2, <3>1, <3>2, <3>3, <3>4 DEF K
  <2>6. CASE ~HasRoom(buffer)
    <3>1. Received = buffer
      BY <1>3, <2>6 DEF Received, buffer
    <3>2. Len(buffer) = K /\ n > K /\ Smaller(n, K) = K
      BY <1>1, <2>3, <2>6 DEF HasRoom, Smaller, K
    <3>3. n - Len(FifoLeft) = n
      BY <2>2
    <3>4. QED
      BY <2>2, <2>3, <3>1, <3>2, <3>3 DEF K
  <2>7. QED
    BY <2>5, <2>6
<1>4. QED
  BY <1>2, <1>3

\* What an interrupt leaves in the two buffers, by the way its snapshot ended.
LEMMA BuffersServed ==
  ASSUME PInv, IrqServe
  PROVE  /\ Accepted(Received) =>
              /\ rx_write_index' = Other(rx_write_index) /\ rx_ready_index' = rx_write_index
              /\ rx_buffers'[rx_write_index'] = <<>> /\ rx_buffers'[rx_ready_index'] = Received
              /\ rx_ready' /\ ~rx_ready
         /\ ~Accepted(Received) =>
              /\ UNCHANGED <<rx_write_index, rx_ready_index, rx_ready>>
              /\ rx_buffers'[rx_write_index] = IF Refused(Received) THEN <<>> ELSE Received
              /\ rx_ready => rx_buffers'[rx_ready_index] = rx_buffers[rx_ready_index]
<1>1. /\ rx_buffers \in [0 .. 1 -> Seq(Byte)] /\ rx_write_index \in 0 .. 1
      /\ rx_ready_index \in 0 .. 1 /\ rx_ready \in BOOLEAN
      /\ rx_ready => rx_ready_index # rx_write_index
      /\ Other(rx_write_index) \in 0 .. 1 /\ Other(rx_write_index) # rx_write_index
  BY DEF PInv, IInv, TypeOK, BuffersApart, Other
<1>2. CASE Accepted(Received)
  <2>1. rx_buffers' = [rx_buffers EXCEPT ![rx_write_index] = Received,
                                         ![Other(rx_write_index)] = <<>>]
    BY <1>2 DEF IrqServe, AtStop, WriteIndexAfter
  <2>2. QED
    BY <1>1, <1>2, <2>1 DEF IrqServe, WriteIndexAfter, Accepted, Refused
<1>3. CASE ~Accepted(Received)
  <2>1. rx_buffers' = [rx_buffers EXCEPT ![rx_write_index] =
                         IF Refused(Received) THEN <<>> ELSE Received]
    BY <1>3 DEF IrqServe
  <2>2. rx_ready' = rx_ready
    BY <1>1, <1>3 DEF IrqServe
  <2>3. QED
    BY <1>1, <1>3, <2>1, <2>2 DEF IrqServe, WriteIndexAfter
<1>4. QED
  BY <1>2, <1>3

\* The handler keeps a write in step with the receive buffer.
LEMMA IrqServeWriteInStep ==
  ASSUME PInv, IrqServe
  PROVE  WriteInStep'
<1>1. /\ WriteInStep /\ Received \in Seq(Byte) /\ fifo \in Seq(Byte)
      /\ completed \in Seq(Byte) /\ Len(completed) \in Nat
      /\ status \subseteq Status
      /\ \A c \in Conditions : c \in status => c \in intr
      /\ bus \in BusState
  BY ReceivedType, StatusMembers DEF PInv, IInv, TypeOK, BusTypeOK, Handshake
<1>2. status' = {} /\ intr' = intr \ status /\ bus' = bus /\ fifo' = FifoLeft
      /\ completed' = IF "STOP_DET" \in status THEN <<>> ELSE completed
  BY DEF IrqServe, FifoLeft
<1>3. rx_ready' => rx_buffers'[rx_ready_index'] # <<>>
  <2>1. CASE Accepted(Received)
    BY <2>1, BuffersServed DEF Accepted, Completes, AtStop
  <2>2. CASE ~Accepted(Received)
    BY <1>1, <2>2, BuffersServed DEF WriteInStep
  <2>3. QED
    BY <2>1, <2>2
<1>4. ASSUME NEW s, NEW n \in Nat, Holds(s, n), "STOP_DET" \notin status
      PROVE  Holds(s, n)'
  <2>1. ~Accepted(Received) /\ ~Refused(Received)
    BY <1>4 DEF Accepted, Refused, Completes
  <2>2. rx_buffers'[rx_write_index'] = Received
    BY <2>1, BuffersServed
  <2>3. QED
    BY <1>2, <1>4, <2>2, ReceivedHolds DEF Holds
<1>5. CASE bus.mode = "write"
  <2>1. bus \in [mode : {"write"}, message : Messages, sent : Nat]
    BY <1>1, <1>5 DEF BusState
  <2>2. PICK s \in Seq(Byte), n \in Nat : s = Bytes(bus.message) /\ n = bus.sent
    BY <2>1, BytesType
  <2>3. "STOP_DET" \notin status /\ intr = {} /\ completed = <<>> /\ Holds(s, n)
        /\ bus.sent <= bus.message.length
    BY <1>1, <1>5, <2>2 DEF WriteInStep, Conditions
  <2>4. Holds(s, n)'
    BY <1>4, <2>3
  <2>5. Holds(Bytes(bus.message), bus.sent)'
    BY <1>2, <2>2, <2>4 DEF Holds, Bytes
  <2>6. QED
    BY <1>2, <1>3, <1>5, <2>3, <2>5 DEF WriteInStep
<1>6. CASE bus.mode # "write" /\ "STOP_DET" \notin status
  <2>1. PICK s \in Seq(Byte), n \in Nat : s = completed /\ n = Len(completed)
    BY <1>1
  <2>2. Holds(s, n)'
    BY <1>1, <1>4, <1>6, <2>1 DEF WriteInStep
  <2>3. Holds(completed, Len(completed))'
    BY <1>2, <1>6, <2>1, <2>2 DEF Holds
  <2>4. QED
    BY <1>1, <1>2, <1>3, <1>6, <2>3 DEF WriteInStep
<1>7. CASE bus.mode # "write" /\ "STOP_DET" \in status
  <2>1. FifoLeft = <<>>
    <3>1. CASE fifo = <<>>
      BY <1>1, <3>1, StatusMembers DEF FifoLeft, PInv, IInv, TypeOK
    <3>2. CASE fifo # <<>>
      BY <1>1, <1>7, <3>2, OneLong DEF FifoLeft, WriteInStep, Holds
    <3>3. QED
      BY <3>1, <3>2
  <2>2. rx_buffers'[rx_write_index'] = <<>>
    <3>1. CASE Accepted(Received)
      BY <3>1, BuffersServed
    <3>2. CASE ~Accepted(Received) /\ Refused(Received)
      BY <3>2, BuffersServed
    <3>3. CASE ~Accepted(Received) /\ ~Refused(Received)
      <4>1. Received = <<>>
        BY <1>7, <3>3 DEF Accepted, Completes, AtStop
      <4>2. QED
        BY <3>3, <4>1, BuffersServed
    <3>4. QED
      BY <3>1, <3>2, <3>3
  <2>3. fifo' = <<>> /\ completed' = <<>>
    BY <1>2, <1>7, <2>1
  <2>4. Holds(completed, Len(completed))'
    <3>1. Len(fifo') = 0 /\ Len(completed') = 0 /\ Len(rx_buffers'[rx_write_index']) = 0
      BY <2>2, <2>3
    <3>2. Smaller(Len(completed') - Len(fifo'), kMaxEncodedFrameSize) = 0
      BY <3>1, EndpointAssumption DEF Smaller
    <3>3. QED
      BY <2>3, <3>1, <3>2 DEF Holds
  <2>5. QED
    BY <1>1, <1>2, <1>3, <1>7, <2>3, <2>4 DEF WriteInStep
<1>8. QED
  BY <1>5, <1>6, <1>7

\* poll takes whole frames only.
LEMMA PollWriteInStep ==
  ASSUME PInv, Poll
  PROVE  WriteInStep'
<1>1. /\ WriteInStep /\ rx_buffers'[rx_write_index] = rx_buffers[rx_write_index]
      /\ UNCHANGED <<busVars, rx_write_index, status>> /\ ~rx_ready'
  BY DEF PInv, IInv, TypeOK, BuffersApart, Poll
<1>2. QED
  BY <1>1 DEF WriteInStep, Holds, busVars

\* Every step keeps the invariant of a prompt handler.
LEMMA PInvStep ==
  ASSUME PInv, [Next]_vars
  PROVE  PInv'
<1>1. IInv' /\ MaxLag = 0
  BY HardwareStep, IrqEnterStep, IrqServeStep, PollStep, PublishBeginStep, PublishByteStep,
     PublishCommitStep, PublishRefusedStep, UnchangedStep DEF Next, PInv
<1>2. ASSUME UNCHANGED <<busVars, txVars, tx_index>>
      PROVE  ReadInStep'
  BY <1>2 DEF PInv, ReadInStep, HandedOut, ActiveByte, busVars, txVars
<1>3. ASSUME UNCHANGED <<busVars, rxVars>>,
             "STOP_DET" \in status' /\ fifo # <<>> => "RX_FULL" \in status'
      PROVE  WriteInStep'
  BY <1>3 DEF PInv, WriteInStep, Holds, busVars, rxVars
<1>4. CASE Hardware
  BY <1>1, <1>4, HardwareReadInStep, HardwareWriteInStep DEF PInv
<1>5. CASE IrqEnter
  BY <1>1, <1>2, <1>3, <1>5 DEF PInv, IrqEnter, Status, txVars
<1>6. CASE IrqServe
  BY <1>1, <1>6, IrqServeReadInStep, IrqServeWriteInStep DEF PInv
<1>7. CASE Poll
  BY <1>1, <1>2, <1>7, PollWriteInStep DEF PInv, Poll
<1>8. CASE \E f \in Frames : PublishBegin(f)
  BY <1>1, <1>2, <1>3, <1>8 DEF PInv, PublishBegin, WriteInStep
<1>9. CASE PublishByte \/ PublishCommit \/ PublishRefused
  <2>1. WriteInStep'
    BY <1>3, <1>9 DEF PInv, WriteInStep, PublishByte, PublishCommit, PublishRefused, Copied
  <2>2. QED
    BY <1>1, <1>9, <2>1, MainReadInStep DEF PInv
<1>10. CASE UNCHANGED vars
  BY <1>1, <1>2, <1>3, <1>10 DEF PInv, vars, WriteInStep
<1>11. QED
  BY <1>4, <1>5, <1>6, <1>7, <1>8, <1>9, <1>10 DEF Next

\* The endpoint begins with the invariant of a prompt handler.
LEMMA InitPInv == MaxLag = 0 /\ Init => PInv
<1>. SUFFICES ASSUME MaxLag = 0, Init PROVE PInv
  OBVIOUS
<1>1. IInv
  BY InitIInv
<1>2. ReadInStep
  BY DEF Init, BusInit, ReadInStep, Idle
<1>3. WriteInStep
  <2>1. Len(completed) = 0 /\ Len(fifo) = 0 /\ Len(rx_buffers[rx_write_index]) = 0
        /\ fifo = <<>> /\ bus.mode = "idle"
    BY DEF Init, BusInit, Idle
  <2>2. Smaller(Len(completed) - Len(fifo), kMaxEncodedFrameSize) = 0
    BY <2>1, EndpointAssumption DEF Smaller
  <2>3. QED
    BY <2>1, <2>2 DEF Init, BusInit, WriteInStep, Holds
<1>4. QED
  BY <1>1, <1>2, <1>3 DEF PInv

\* The invariant of a handler that runs before the bus moves the next byte.
LEMMA PromptInvariant == MaxLag = 0 /\ Spec => []PInv
<1>1. QED
  BY InitPInv, PInvStep, PTL DEF Spec

(***************************************************************************)
(* With a handler that serves every interrupt within a byte time, what a   *)
(* controller has read is always the beginning of the one frame that is    *)
(* published, whatever main publishes during the read.                     *)
(***************************************************************************)
THEOREM ReadsAreNotTorn == MaxLag = 0 /\ Spec => []NoTornRead
<1>1. PInv => NoTornRead
  <2>. SUFFICES ASSUME PInv, bus.mode = "read", readback # <<>>, readback[1] # ZeroByte,
                       NEW i \in DOMAIN readback
                PROVE  readback[i] = ActiveByte(i)
    BY DEF NoTornRead
  <2>1. readback \in Seq(Byte) /\ tx_data \in Seq(Byte) /\ ReadInStep
    BY DEF PInv, IInv, TypeOK, BusTypeOK
  <2>2. /\ HandedOut # <<>> /\ HandedOut[1] = readback[1]
        /\ i \in DOMAIN HandedOut /\ HandedOut[i] = readback[i]
    BY <2>1 DEF HandedOut
  <2>3. QED
    BY <2>1, <2>2 DEF ReadInStep
<1>2. QED
  BY <1>1, PromptInvariant, PTL

-----------------------------------------------------------------------------
(* The endpoint with such a handler is a mailbox. *)

\* Dropping nothing leaves the counter.
LEMMA NoDrop ==
  ASSUME TypeOK
  PROVE  (dropped_frames + 0) % DropModulus = dropped_frames
<1>1. \A x \in 0 .. DropModulus - 1 : x % DropModulus = x
  BY EndpointAssumption
<1>2. dropped_frames \in 0 .. DropModulus - 1 /\ dropped_frames + 0 = dropped_frames
  BY EndpointAssumption DEF TypeOK
<1>3. QED
  BY <1>1, <1>2

\* The message the mailbox keeps is what the handler has received at the STOP.
LEMMA KeptAtStop ==
  ASSUME PInv, "STOP_DET" \in status, status # {}
  PROVE  /\ completed = <<>> => Received = <<>>
         /\ completed # <<>> => Received = Inbox!Kept(completed) /\ Received # <<>>
         /\ ByteRefused => Len(completed) > kMaxEncodedFrameSize
         /\ bus.mode # "write"
<1>1. /\ WriteInStep /\ Received \in Seq(Byte) /\ fifo \in Seq(Byte)
      /\ completed \in Seq(Byte) /\ Len(completed) \in Nat
      /\ "STOP_DET" \in intr
      /\ kMaxEncodedFrameSize \in Nat \ {0}
  BY ReceivedType, StatusMembers, EndpointAssumption
  DEF PInv, IInv, TypeOK, BusTypeOK, Handshake, Conditions
<1>2. bus.mode # "write" /\ Holds(completed, Len(completed))
  BY <1>1 DEF WriteInStep
<1>3. FifoLeft = <<>> /\ Len(FifoLeft) = 0
  <2>1. CASE fifo = <<>>
    <3>1. "RX_FULL" \notin status
      BY <2>1, StatusMembers DEF PInv, IInv, TypeOK, Handshake
    <3>2. QED
      BY <2>1, <3>1 DEF FifoLeft
  <2>2. CASE fifo # <<>>
    <3>1. FifoLeft = <<>>
      BY <1>1, <1>2, <2>2, OneLong DEF FifoLeft, WriteInStep, Holds
    <3>2. QED
      BY <3>1
  <2>3. QED
    BY <2>1, <2>2
<1>4. /\ Len(Received) = Smaller(Len(completed) - Len(FifoLeft), kMaxEncodedFrameSize)
      /\ \A i \in 1 .. Len(Received) : Received[i] = completed[i]
      /\ ByteRefused => Len(completed) > kMaxEncodedFrameSize
  BY <1>1, <1>2, ReceivedHolds
<1>5. Len(completed) - Len(FifoLeft) = Len(completed)
  BY <1>1, <1>3
<1>6. Len(Received) = Smaller(Len(completed), kMaxEncodedFrameSize)
  BY <1>4, <1>5
<1>7. completed = <<>> => Received = <<>>
  <2>. SUFFICES ASSUME completed = <<>> PROVE Received = <<>>
    OBVIOUS
  <2>1. Len(completed) = 0
    OBVIOUS
  <2>2. Len(Received) = 0
    BY <1>1, <1>6, <2>1 DEF Smaller
  <2>3. QED
    BY <1>1, <2>2
<1>8. ASSUME completed # <<>>
      PROVE  Received = Inbox!Kept(completed) /\ Received # <<>>
  <2>1. Len(completed) > 0
    BY <1>1, <1>8
  <2>2. Len(Received) > 0
    BY <1>1, <1>6, <2>1 DEF Smaller
  <2>3. Inbox!Kept(completed) = SubSeq(completed, 1, Len(Received))
    BY <1>1, <1>6 DEF Inbox!Kept, Smaller
  <2>4. Len(Received) <= Len(completed) /\ Len(Received) \in Nat
    BY <1>1, <1>6 DEF Smaller
  <2>5. /\ SubSeq(completed, 1, Len(Received)) \in Seq(Byte)
        /\ Len(SubSeq(completed, 1, Len(Received))) = Len(Received)
        /\ \A i \in 1 .. Len(Received) : SubSeq(completed, 1, Len(Received))[i] = completed[i]
    BY <1>1, <2>4
  <2>6. SubSeq(completed, 1, Len(Received)) = Received
    BY <1>1, <1>4, <2>5
  <2>7. QED
    BY <1>1, <2>2, <2>3, <2>6
<1>9. QED
  BY <1>2, <1>4, <1>7, <1>8

\* What a buffer holding the first n bytes of a write says of lengths.
LEMMA HoldsLengths ==
  ASSUME PInv, NEW s, NEW n \in Nat, Holds(s, n)
  PROVE  /\ Len(fifo) \in {0, 1} /\ (Len(fifo) = 1 <=> fifo # <<>>)
         /\ fifo # <<>> => n >= 1
         /\ Len(rx_buffers[rx_write_index]) = Smaller(n - Len(fifo), kMaxEncodedFrameSize)
<1>1. Len(fifo) <= 1 /\ Len(fifo) \in Nat /\ (fifo = <<>> <=> Len(fifo) = 0)
  BY DEF Holds, PInv, IInv, TypeOK, BusTypeOK
<1>2. \A x \in Nat : x <= 1 => x \in {0, 1}
  OBVIOUS
<1>3. Len(fifo) \in {0, 1}
  BY <1>1, <1>2
<1>4. QED
  BY <1>1, <1>3 DEF Holds

\* The buffer being written holds what the handler has read of a write.
LEMMA ArrivedFacts ==
  ASSUME PInv
  PROVE  /\ Arrived \in Nat /\ Len(fifo) \in {0, 1} /\ (Len(fifo) = 1 <=> fifo # <<>>)
         /\ fifo # <<>> => Arrived >= 1
         /\ Len(rx_buffers[rx_write_index]) = Smaller(Arrived - Len(fifo), kMaxEncodedFrameSize)
         /\ kMaxEncodedFrameSize \in Nat
<1>1. /\ WriteInStep /\ fifo \in Seq(Byte) /\ completed \in Seq(Byte) /\ bus \in BusState
      /\ kMaxEncodedFrameSize \in Nat
  BY EndpointAssumption DEF PInv, IInv, TypeOK, BusTypeOK
<1>2. CASE bus.mode = "write"
  <2>1. Holds(Bytes(bus.message), bus.sent) /\ Arrived = bus.sent /\ bus.sent \in Nat
    BY <1>1, <1>2 DEF WriteInStep, Arrived, BusState
  <2>2. QED
    BY <1>1, <2>1, HoldsLengths
<1>3. CASE bus.mode # "write"
  <2>1. Arrived = Len(completed) /\ Len(completed) \in Nat
    BY <1>1, <1>3 DEF Arrived
  <2>2. Holds(completed, Len(completed))
    BY <1>1, <1>3 DEF WriteInStep
  <2>3. QED
    BY <1>1, <2>1, <2>2, HoldsLengths
<1>4. QED
  BY <1>2, <1>3

\* The bus alone counts nothing.
LEMMA HardwareCountsNothing ==
  ASSUME PInv, Hardware
  PROVE  SurplusCounted' = SurplusCounted
<1>1. /\ WriteInStep /\ bus \in BusState /\ fifo \in Seq(Byte) /\ FifoDepth \in Nat \ {0}
  BY BusAssumption DEF PInv, IInv, TypeOK, BusTypeOK
<1>2. CASE WriteByte
  <2>1. fifo = <<>> /\ completed = <<>>
    BY <1>1, <1>2, PromptByteTime DEF WriteByte, WriteInStep
  <2>2. bus' = [bus EXCEPT !.sent = @ + 1] /\ bus.mode = "write" /\ completed' = <<>>
    BY <1>2, <2>1 DEF WriteByte
  <2>3. Len(fifo) = 0
    BY <2>1
  <2>4. fifo' = Append(fifo, Bytes(bus.message)[bus.sent + 1])
    BY <1>1, <1>2, <2>3 DEF WriteByte
  <2>5. Len(fifo') = 1
    BY <2>1, <2>4
  <2>6. bus'.mode = "write" /\ bus'.sent = bus.sent + 1 /\ bus.sent \in Nat
    BY <1>1, <2>2 DEF BusState
  <2>7. Arrived = bus.sent /\ Arrived' = bus.sent + 1
    BY <2>1, <2>2, <2>6 DEF Arrived
  <2>8. Arrived' - Len(fifo') = Arrived - Len(fifo)
    BY <2>3, <2>5, <2>6, <2>7
  <2>9. QED
    BY <2>8 DEF SurplusCounted
<1>3. CASE StopWrite
  <2>1. bus.mode = "write" /\ bus.sent = bus.message.length /\ bus' = Idle /\ fifo' = fifo
    BY <1>3 DEF StopWrite
  <2>2. completed = <<>> /\ bus.message \in Messages /\ bus.message.length \in Nat
    BY <1>1, <2>1, BusAssumption DEF WriteInStep, BusState, Messages
  <2>3. Len(Bytes(bus.message)) = bus.message.length
    BY <2>2 DEF Bytes
  <2>4. Arrived' = Arrived
    <3>1. CASE bus.message.length > 0
      <4>1. completed' = Bytes(bus.message) /\ completed' # <<>>
        BY <1>3, <2>3, <3>1 DEF StopWrite
      <4>2. QED
        BY <2>1, <2>2, <2>3, <4>1 DEF Arrived
    <3>2. CASE ~(bus.message.length > 0)
      <4>1. completed' = <<>> /\ bus.message.length = 0
        BY <1>3, <2>2, <3>2 DEF StopWrite
      <4>2. QED
        BY <2>1, <2>2, <4>1 DEF Arrived, Idle
    <3>3. QED
      BY <3>1, <3>2
  <2>5. QED
    BY <2>1, <2>4 DEF SurplusCounted
<1>4. ASSUME NEW m \in Messages, StartWrite(m)
      PROVE  SurplusCounted' = SurplusCounted
  <2>1. completed = <<>> /\ completed' = <<>> /\ fifo' = fifo
    BY <1>1, <1>4, PromptByteTime DEF StartWrite, WriteInStep
  <2>2. Arrived = 0 /\ Arrived' = 0
    BY <1>4, <2>1 DEF StartWrite, Idle, Arrived
  <2>3. QED
    BY <2>1, <2>2 DEF SurplusCounted
<1>5. ASSUME UNCHANGED <<fifo, completed>>, bus.mode # "write", bus'.mode # "write"
      PROVE  SurplusCounted' = SurplusCounted
  BY <1>5 DEF SurplusCounted, Arrived
<1>6. CASE \/ \E n \in ReadLengths : StartRead(n)
           \/ ReadByte \/ StopRead \/ AbortRead \/ StartOther \/ StopOther
  <2>1. bus.mode # "write" /\ bus'.mode # "write" /\ UNCHANGED <<fifo, completed>>
    BY <1>1, <1>6
    DEF StartRead, ReadByte, StopRead, AbortRead, StartOther, StopOther, Idle, BusState
  <2>2. QED
    BY <1>5, <2>1
<1>7. QED
  BY <1>2, <1>3, <1>4, <1>6 DEF Hardware, BusNext

\* The handler counts the byte it reads exactly when it is a surplus one.
LEMMA HandlerCountsSurplus ==
  ASSUME PInv, IrqServe
  PROVE  LET late == IF ByteRefused THEN 1 ELSE 0
         IN  /\ SurplusCounted \in Nat
             /\ completed' = completed => SurplusCounted' = SurplusCounted + late
             /\ completed # <<>> /\ ByteRefused => SurplusCounted < Inbox!Surplus(completed)
             /\ completed # <<>> /\ completed' = <<>> =>
                  /\ SurplusCounted + late = Inbox!Surplus(completed)
                  /\ SurplusCounted' = 0
<1>. DEFINE late == IF ByteRefused THEN 1 ELSE 0
            read == IF "RX_FULL" \in status THEN 1 ELSE 0
            K == kMaxEncodedFrameSize
            a == Arrived
            l == Len(fifo)
<1>1. /\ a \in Nat /\ l \in {0, 1} /\ (fifo # <<>> => a >= 1 /\ l = 1) /\ K \in Nat
      /\ Len(rx_buffers[rx_write_index]) = Smaller(a - l, K)
  BY ArrivedFacts
<1>2. "RX_FULL" \in status => fifo # <<>>
  BY StatusMembers DEF PInv, IInv, Handshake, TypeOK
<1>3. read \in {0, 1} /\ read <= l /\ a - l >= 0 /\ Len(fifo') = l - read
  <2>1. fifo' = IF "RX_FULL" \in status THEN Tail(fifo) ELSE fifo
    BY DEF IrqServe
  <2>2. ASSUME fifo # <<>> PROVE Tail(fifo) = <<>>
    <3>1. fifo \in Seq(Byte) /\ Len(fifo) <= 1
      <4>1. fifo \in Seq(Byte) /\ Len(fifo) = l
        BY DEF PInv, IInv, TypeOK, BusTypeOK
      <4>. HIDE DEF l
      <4>2. QED
        BY <1>1, <4>1
    <3>2. QED
      BY <2>2, <3>1, OneLong
  <2>3. CASE "RX_FULL" \in status
    <3>1. fifo' = <<>> /\ read = 1 /\ l = 1
      BY <1>1, <1>2, <2>1, <2>2, <2>3
    <3>2. Len(fifo') = 0
      BY <3>1
    <3>3. QED
      BY <1>1, <1>2, <2>3, <3>1, <3>2
  <2>4. CASE "RX_FULL" \notin status
    <3>1. fifo' = fifo /\ read = 0
      BY <2>1, <2>4
    <3>2. Len(fifo') = l /\ read <= l
      BY <1>1, <3>1
    <3>. HIDE DEF l, read
    <3>3. fifo = <<>> => l = 0
      BY DEF l
    <3>4. QED
      BY <1>1, <3>1, <3>2, <3>3
  <2>5. QED
    BY <2>3, <2>4
<1>4. ByteRefused <=> read = 1 /\ a - l >= K
  BY <1>1, <1>3 DEF ByteRefused, HasRoom, Smaller
<1>. HIDE DEF read
<1>5. SurplusCounted = IF a - l > K THEN a - l - K ELSE 0
  BY DEF SurplusCounted
<1>6. completed # <<>> => a = Len(completed) /\ Inbox!Surplus(completed) = IF a > K THEN a - K ELSE 0
  BY DEF Arrived, Inbox!Surplus
<1>. HIDE DEF a, l, K
<1>7. ASSUME completed' = completed
      PROVE  SurplusCounted' = SurplusCounted + late
  <2>1. Arrived' = a
    BY <1>7 DEF IrqServe, Arrived, a
  <2>. DEFINE t == Arrived' - Len(fifo')
  <2>2. SurplusCounted' = IF t > K THEN t - K ELSE 0
    BY DEF SurplusCounted, K
  <2>3. t = (a - l) + read
    BY <1>1, <1>3, <2>1
  <2>. HIDE DEF t
  <2>4. QED
    BY <1>1, <1>3, <1>4, <1>5, <2>2, <2>3
<1>8. ASSUME completed # <<>>, ByteRefused
      PROVE  SurplusCounted < Inbox!Surplus(completed)
  BY <1>1, <1>3, <1>4, <1>5, <1>6, <1>8
<1>9. ASSUME completed # <<>>, completed' = <<>>
      PROVE  SurplusCounted + late = Inbox!Surplus(completed) /\ SurplusCounted' = 0
  <2>1. "STOP_DET" \in status /\ status # {}
    BY <1>9 DEF IrqServe
  <2>2. bus'.mode # "write"
    BY <2>1, KeptAtStop DEF IrqServe
  <2>3. fifo # <<>> => "RX_FULL" \in status
    BY <2>1 DEF PInv, WriteInStep
  <2>4. read = l
    BY <1>1, <1>3, <2>3, ArrivedFacts DEF read, l
  <2>5. Arrived' = 0 /\ Len(fifo') = 0
    BY <1>1, <1>3, <1>9, <2>2, <2>4 DEF Arrived
  <2>6. SurplusCounted' = 0
    BY <1>1, <2>5 DEF SurplusCounted, K
  <2>7. SurplusCounted + late = Inbox!Surplus(completed)
    BY <1>1, <1>3, <1>4, <1>5, <1>6, <1>9, <2>4
  <2>8. QED
    BY <2>6, <2>7
<1>10. SurplusCounted \in Nat
  BY <1>1, <1>3, <1>5
<1>11. QED
  BY <1>7, <1>8, <1>9, <1>10

\* A run of the handler is a step of the mailbox, or none.
LEMMA ServeMailbox ==
  ASSUME PInv, IrqServe
  PROVE  [Inbox!Next]_Inbox!vars
<1>. DEFINE inbox == IF rx_ready THEN rx_buffers[rx_ready_index] ELSE <<>>
            late == IF ByteRefused THEN 1 ELSE 0
<1>1. /\ TypeOK /\ WriteInStep /\ status # {} /\ "RX_OVER" \notin status
      /\ rx_ready \in BOOLEAN /\ DropModulus \in Nat
      /\ dropped_frames' = (dropped_frames + NewDrops(Received)) % DropModulus
      /\ dropped_frames \in 0 .. DropModulus - 1 /\ SurplusCounted \in Nat
  BY StatusMembers, EndpointAssumption, HandlerCountsSurplus
  DEF PInv, IInv, TypeOK, WriteInStep, IrqServe, Handshake, Conditions
<1>2. inbox # <<>> <=> rx_ready
  BY <1>1 DEF WriteInStep
<1>3. CASE ~Completes(Received)
  <2>1. ~Accepted(Received) /\ ~Refused(Received) /\ NewDrops(Received) = late
    BY <1>1, <1>3 DEF Accepted, Refused, NewDrops
  <2>2. inbox' = inbox
    BY <2>1, BuffersServed
  <2>3. completed' = completed
    BY <1>1, <1>3, KeptAtStop DEF Completes, AtStop, IrqServe
  <2>4. SurplusCounted' = SurplusCounted + late
    BY <2>3, HandlerCountsSurplus
  <2>5. CASE ByteRefused
    <3>1. completed # <<>> => SurplusCounted < Inbox!Surplus(completed)
      BY <2>5, HandlerCountsSurplus
    <3>2. Inbox!SurplusByte
      BY <1>1, <2>1, <2>2, <2>3, <2>4, <2>5, <3>1 DEF Inbox!SurplusByte
    <3>3. QED
      BY <3>2 DEF Inbox!Next
  <2>6. CASE ~ByteRefused
    <3>1. dropped_frames' = dropped_frames
      BY <1>1, <2>1, <2>6, NoDrop
    <3>2. SurplusCounted' = SurplusCounted
      BY <1>1, <2>4, <2>6
    <3>3. QED
      BY <2>2, <2>3, <3>1, <3>2 DEF Inbox!vars
  <2>7. QED
    BY <2>5, <2>6
<1>4. CASE Completes(Received)
  <2>1. /\ "STOP_DET" \in status /\ completed # <<>> /\ completed' = <<>>
        /\ Received = Inbox!Kept(completed)
    BY <1>1, <1>4, KeptAtStop DEF Completes, AtStop, IrqServe
  <2>2. Inbox!Surplus(completed) - SurplusCounted = late /\ SurplusCounted' = 0
    <3>1. SurplusCounted + late = Inbox!Surplus(completed) /\ SurplusCounted' = 0
      BY <2>1, HandlerCountsSurplus
    <3>2. QED
      BY <1>1, <3>1
  <2>3. CASE rx_ready
    <3>1. Refused(Received) /\ ~Accepted(Received)
      BY <1>4, <2>3 DEF Refused, Accepted
    <3>2. dropped_frames + NewDrops(Received) = dropped_frames + late + 1
      BY <1>1, <3>1 DEF NewDrops
    <3>3. inbox' = inbox
      BY <3>1, BuffersServed
    <3>4. Inbox!Drop
      BY <1>1, <1>2, <2>1, <2>2, <2>3, <3>2, <3>3 DEF Inbox!Drop, Inbox!Account
    <3>5. QED
      BY <3>4 DEF Inbox!Next
  <2>4. CASE ~rx_ready
    <3>1. Accepted(Received) /\ ~Refused(Received)
      BY <1>4, <2>4 DEF Refused, Accepted
    <3>2. dropped_frames + NewDrops(Received) = dropped_frames + late + 0
      BY <1>1, <3>1 DEF NewDrops
    <3>3. inbox' = Received
      BY <3>1, BuffersServed
    <3>4. Inbox!Deliver
      BY <1>1, <1>2, <2>1, <2>2, <2>4, <3>2, <3>3 DEF Inbox!Deliver, Inbox!Account
    <3>5. QED
      BY <3>4 DEF Inbox!Next
  <2>5. QED
    BY <2>3, <2>4
<1>5. QED
  BY <1>3, <1>4

\* Every step of the endpoint is a step of the mailbox, or none.
LEMMA MailboxStep ==
  ASSUME PInv, [Next]_vars
  PROVE  [Inbox!Next]_Inbox!vars
<1>1. ASSUME UNCHANGED <<completed, SurplusCounted, rxVars, dropped_frames>>
      PROVE  UNCHANGED Inbox!vars
  BY <1>1 DEF Inbox!vars, rxVars
<1>2. CASE Hardware
  <2>1. CASE StopWrite /\ bus.message.length > 0
    <3>1. bus \in [mode : {"write"}, message : Messages, sent : Nat]
      BY <2>1 DEF StopWrite, BusState, PInv, IInv, TypeOK, BusTypeOK
    <3>2. bus.message \in {n \in Messages : n.length > 0}
      BY <2>1, <3>1
    <3>3. completed = <<>> /\ completed' = Bytes(bus.message)
      BY <2>1 DEF StopWrite, PInv, WriteInStep
    <3>4. PICK m \in {Bytes(n) : n \in {k \in Messages : k.length > 0}} : completed' = m
      BY <3>2, <3>3
    <3>5. SurplusCounted <= Inbox!Surplus(m)
      <4>1. Arrived = Len(m)
        <5>1. Arrived = bus.message.length /\ bus.message.length \in Nat
          BY <2>1, <3>1, <3>3, BusAssumption DEF StopWrite, Arrived, Messages
        <5>2. Len(Bytes(bus.message)) = bus.message.length
          BY <5>1 DEF Bytes
        <5>3. QED
          BY <3>3, <3>4, <5>1, <5>2
      <4>2. QED
        BY <4>1, ArrivedFacts DEF SurplusCounted, Inbox!Surplus
    <3>6. Inbox!Arrive(m)
      BY <1>2, <3>3, <3>4, <3>5, HardwareCountsNothing DEF Inbox!Arrive, Hardware, rxVars
    <3>7. QED
      BY <3>6 DEF Inbox!Next
  <2>2. CASE ~ (StopWrite /\ bus.message.length > 0)
    <3>1. UNCHANGED <<completed, rxVars, dropped_frames>>
      BY <1>2, <2>2
      DEF Hardware, BusNext, StartWrite, WriteByte, StopWrite, StartRead, ReadByte, StopRead,
          AbortRead, StartOther, StopOther
    <3>2. QED
      BY <1>1, <1>2, <3>1, HardwareCountsNothing
  <2>3. QED
    BY <2>1, <2>2
<1>3. CASE IrqServe
  BY <1>3, ServeMailbox
<1>4. CASE Poll
  <2>1. rx_ready /\ rx_buffers[rx_ready_index] # <<>> /\ ~rx_ready'
        /\ UNCHANGED <<completed, dropped_frames, SurplusCounted>>
    BY <1>4 DEF Poll, PInv, WriteInStep, busVars, SurplusCounted, Arrived
  <2>2. QED
    BY <2>1 DEF Inbox!Next, Inbox!Take
<1>5. CASE IrqEnter \/ (\E f \in Frames : PublishBegin(f)) \/ PublishByte
           \/ PublishCommit \/ PublishRefused \/ UNCHANGED vars
  <2>1. UNCHANGED <<busVars, rxVars, dropped_frames>>
    BY <1>5
    DEF IrqEnter, PublishBegin, PublishByte, PublishCommit, PublishRefused, busVars, vars
  <2>2. SurplusCounted' = SurplusCounted
    BY <2>1 DEF SurplusCounted, Arrived, busVars
  <2>3. QED
    BY <1>1, <2>1, <2>2 DEF busVars
<1>6. QED
  BY <1>2, <1>3, <1>4, <1>5 DEF Next

(***************************************************************************)
(* The endpoint with a prompt handler implements Mailbox: every complete   *)
(* write is delivered whole, up to the size of a buffer, or counted as     *)
(* dropped, and none is delivered twice.                                   *)
(***************************************************************************)
THEOREM ImplementsMailbox == MaxLag = 0 /\ Spec => MailboxSpec
<1>1. Init => Inbox!Init
  BY EndpointAssumption DEF Init, BusInit, Inbox!Init, SurplusCounted, Arrived, Idle
<1>2. QED
  BY <1>1, MailboxStep, PromptInvariant, PTL DEF Spec, MailboxSpec, Inbox!Spec

-----------------------------------------------------------------------------
(***************************************************************************)
(* The endpoints of a program and the interrupts of the two instances.     *)
(***************************************************************************)
RegistrationTypeOK ==
  /\ endpoints \in [Instances -> Objects \cup {"nullptr"}]
  /\ instance \in [Objects -> Instances \cup {NoInstance}]

RInv == RegistrationTypeOK /\ BeginStays

(***************************************************************************)
(* begin turns away every object but the one that has the instance.        *)
(***************************************************************************)
LEMMA BeginStep ==
  ASSUME RInv, NEW o \in Objects, NEW i \in Instances, begin(o, i)
  PROVE  RInv'
<1>1. /\ endpoints[i] \in {"nullptr", o}
      /\ endpoints' = [endpoints EXCEPT ![i] = o] /\ instance' = [instance EXCEPT ![o] = i]
  BY DEF begin, Free
<1>2. RegistrationTypeOK'
  BY <1>1 DEF RInv, RegistrationTypeOK
<1>3. ASSUME NEW p \in Objects, instance'[p] # NoInstance
      PROVE  endpoints'[instance'[p]] = p
  <2>1. CASE p = o
    BY <1>1, <2>1 DEF RInv, RegistrationTypeOK
  <2>2. CASE p # o
    <3>1. instance'[p] = instance[p] /\ instance[p] \in Instances
      BY <1>1, <1>3, <2>2 DEF RInv, RegistrationTypeOK
    <3>2. endpoints[instance[p]] = p
      BY <1>3, <3>1 DEF RInv, BeginStays
    <3>3. instance[p] # i
      BY <1>1, <2>2, <3>2, RegistrationAssumption
    <3> QED BY <1>1, <3>1, <3>2, <3>3 DEF RInv, RegistrationTypeOK
  <2> QED BY <2>1, <2>2
<1> QED BY <1>2, <1>3 DEF RInv, BeginStays

(***************************************************************************)
(* A begin that succeeded stays in force, for every number of endpoints,   *)
(* in whatever order they call begin and however often.                    *)
(***************************************************************************)
THEOREM BeginStaysInForce == RegistrationSpec => []BeginStays
<1>1. RegistrationInit => RInv
  BY DEF RegistrationInit, RInv, RegistrationTypeOK, BeginStays
<1>2. RInv /\ [RegistrationNext]_registrationVars => RInv'
  <2> SUFFICES ASSUME RInv, [RegistrationNext]_registrationVars PROVE RInv'
    OBVIOUS
  <2>1. ASSUME NEW o \in Objects, NEW i \in Instances, begin(o, i) PROVE RInv'
    BY <2>1, BeginStep
  <2>2. ASSUME UNCHANGED <<endpoints, instance>> PROVE RInv'
    BY <2>2 DEF RInv, RegistrationTypeOK, BeginStays
  <2> QED BY <2>1, <2>2 DEF RegistrationNext, Raise, Handler, registrationVars
<1>3. RInv => BeginStays
  BY DEF RInv
<1> QED BY <1>1, <1>2, <1>3, PTL DEF RegistrationSpec
==============================================================================
