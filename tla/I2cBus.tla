-------------------------------- MODULE I2cBus --------------------------------
(***************************************************************************)
(* The I2C bus and the peripheral's hardware, as far as the Pico endpoint  *)
(* sees them: a receive FIFO, four latched interrupt conditions, one byte  *)
(* to transmit, and a controller that writes messages, reads the mailbox   *)
(* and talks to other nodes on the same bus.  None of this is picomesh     *)
(* code; it is what handle_irq reads and writes.                           *)
(*                                                                         *)
(* A byte of a message is the pair of the message's name and the byte's    *)
(* position, so that bytes of different messages are never mistaken.       *)
(***************************************************************************)
EXTENDS Integers, Sequences

CONSTANTS
  MessageIds,     \* names that tell messages apart
  WriteLengths,   \* the bytes of a write; 0 for a bus scan
  ReadLengths,    \* the bytes a read asks for
  FifoDepth,      \* bytes the receive FIFO holds
  MaxLag          \* byte times that may pass while an interrupt is pending

ASSUME BusAssumption ==
  /\ WriteLengths \subseteq Nat /\ ReadLengths \subseteq Nat \ {0}
  /\ FifoDepth \in Nat \ {0}
  /\ MaxLag \in Nat

VARIABLES
  bus,         \* the transaction in progress
  fifo,        \* received bytes the handler has not read
  intr,        \* latched interrupt conditions; RX_FULL is fifo # <<>>
  tx_data,     \* the byte handed to the hardware for the controller, if any
  lag,         \* byte times since the oldest pending condition arose
  completed,   \* history: the write that ended and whose STOP is not served
  readback     \* history: what the controller got in this read

busVars == <<bus, fifo, intr, tx_data, lag, completed, readback>>

Messages == [id : MessageIds, length : WriteLengths]

\* What a read returns where there is nothing to return.
ZeroByte == <<"zero", 0>>

Byte == (MessageIds \X (Nat \ {0})) \cup {ZeroByte}

Bytes(m) == [i \in 1 .. m.length |-> <<m.id, i>>]

Conditions == {"RD_REQ", "STOP_DET", "TX_ABRT", "RX_OVER"}

Idle == [mode |-> "idle"]

BusState ==
  [mode : {"idle", "other"}]
    \cup [mode : {"write"}, message : Messages, sent : Nat]
    \cup [mode : {"read"}, left : Nat]

BusTypeOK ==
  /\ bus \in BusState
  /\ fifo \in Seq(Byte) /\ Len(fifo) <= FifoDepth
  /\ intr \subseteq Conditions
  /\ tx_data \in Seq(Byte) /\ Len(tx_data) <= 1
  /\ lag \in 0 .. MaxLag
  /\ completed \in Seq(Byte)
  /\ readback \in Seq(Byte)

BusInit ==
  /\ bus = Idle
  /\ fifo = <<>> /\ intr = {} /\ tx_data = <<>>
  /\ lag = 0
  /\ completed = <<>> /\ readback = <<>>

\* The raw interrupt status register.
Status == intr \cup (IF fifo # <<>> THEN {"RX_FULL"} ELSE {})

Quiet == Status = {}

\* A byte takes its time on the wire: the handler is at most MaxLag bytes late.
ByteTime ==
  /\ Quiet \/ lag < MaxLag
  /\ lag' = IF Quiet THEN 0 ELSE lag + 1

-----------------------------------------------------------------------------

\* The address byte of a write; a message of length 0 is a bus scan.
StartWrite(m) ==
  /\ bus = Idle
  /\ ByteTime
  /\ bus' = [mode |-> "write", message |-> m, sent |-> 0]
  /\ UNCHANGED <<fifo, intr, tx_data, completed, readback>>

\* A byte that finds the FIFO full is lost.
WriteByte ==
  /\ bus.mode = "write" /\ bus.sent < bus.message.length
  /\ ByteTime
  /\ bus' = [bus EXCEPT !.sent = @ + 1]
  /\ IF Len(fifo) < FifoDepth
       THEN fifo' = Append(fifo, Bytes(bus.message)[bus.sent + 1]) /\ intr' = intr
       ELSE fifo' = fifo /\ intr' = intr \cup {"RX_OVER"}
  /\ UNCHANGED <<tx_data, completed, readback>>

\* STOP follows the last byte at once.
StopWrite ==
  /\ bus.mode = "write" /\ bus.sent = bus.message.length
  /\ bus' = Idle
  /\ intr' = intr \cup {"STOP_DET"}
  /\ completed' = IF bus.message.length > 0 THEN Bytes(bus.message) ELSE completed
  /\ UNCHANGED <<fifo, tx_data, lag, readback>>

\* The address byte of a read, which asks for the first data byte.
StartRead(n) ==
  /\ bus = Idle
  /\ ByteTime
  /\ bus' = [mode |-> "read", left |-> n]
  /\ intr' = intr \cup {"RD_REQ"}
  /\ UNCHANGED <<fifo, tx_data, completed, readback>>

\* The controller waits for the byte, takes it, and asks for the next one.
ReadByte ==
  /\ bus.mode = "read" /\ tx_data # <<>>
  /\ ByteTime
  /\ bus' = [bus EXCEPT !.left = @ - 1]
  /\ readback' = readback \o tx_data
  /\ tx_data' = <<>>
  /\ intr' = IF bus.left > 1 THEN intr \cup {"RD_REQ"} ELSE intr
  /\ UNCHANGED <<fifo, completed>>

StopRead ==
  /\ bus.mode = "read" /\ bus.left = 0
  /\ bus' = Idle
  /\ intr' = intr \cup {"STOP_DET"}
  /\ readback' = <<>>
  /\ UNCHANGED <<fifo, tx_data, lag, completed>>

\* The hardware gives a read up while it moves a byte.
AbortRead ==
  /\ bus.mode = "read" /\ "RD_REQ" \notin intr
  /\ bus' = Idle
  /\ intr' = intr \cup {"TX_ABRT"}
  /\ tx_data' = <<>>
  /\ readback' = <<>>
  /\ UNCHANGED <<fifo, lag, completed>>

\* A transaction with another node, whose STOP this node detects as well.
StartOther ==
  /\ bus = Idle
  /\ ByteTime
  /\ bus' = [mode |-> "other"]
  /\ UNCHANGED <<fifo, intr, tx_data, completed, readback>>

StopOther ==
  /\ bus.mode = "other"
  /\ bus' = Idle
  /\ intr' = intr \cup {"STOP_DET"}
  /\ UNCHANGED <<fifo, tx_data, lag, completed, readback>>

BusNext ==
  \/ \E m \in Messages : StartWrite(m)
  \/ WriteByte \/ StopWrite
  \/ \E n \in ReadLengths : StartRead(n)
  \/ ReadByte \/ StopRead \/ AbortRead
  \/ StartOther \/ StopOther
==============================================================================
