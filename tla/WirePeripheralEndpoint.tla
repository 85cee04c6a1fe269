------------------------ MODULE WirePeripheralEndpoint ------------------------
(***************************************************************************)
(* picomesh::arduino::WirePeripheralEndpoint: one receive and one transmit *)
(* buffer, shared by the main loop and the two callbacks that the Wire     *)
(* library makes from its interrupt.  A callback is one step, because the  *)
(* main loop does not run meanwhile; poll and publish copy one byte per    *)
(* step, and a callback comes between two of their steps unless interrupts *)
(* are disabled.                                                           *)
(*                                                                         *)
(* A byte is the pair of a message's name and a position.                  *)
(***************************************************************************)
EXTENDS Integers, Sequences

CONSTANTS
  MessageIds,
  WriteLengths,            \* the bytes of a controller's write; 0 for a bus scan
  FrameLengths,            \* encoded lengths of the frames main publishes
  kMaxEncodedFrameSize

ASSUME WireAssumption ==
  /\ WriteLengths \subseteq Nat
  /\ kMaxEncodedFrameSize \in Nat \ {0}
  /\ FrameLengths \subseteq 1 .. kMaxEncodedFrameSize

VARIABLES
  active,      \* active_: whose begin succeeded, "this" or another endpoint
  rx,          \* rx_bytes_ up to rx_length_
  rx_ready,
  tx_bytes,
  tx_length,
  masked,      \* interrupts are disabled
  main,        \* what the main loop is doing: the call and what it has copied
  taken,       \* the bytes the last completed poll decoded
  reply        \* the bytes the last read of the controller was given

vars == <<active, rx, rx_ready, tx_bytes, tx_length, masked, main, taken, reply>>

Byte == (MessageIds \cup {"none"}) \X Nat

Bytes(id, length) == [i \in 1 .. length |-> <<id, i>>]

Writes == {Bytes(id, n) : id \in MessageIds, n \in WriteLengths}

Frames == {Bytes(id, n) : id \in MessageIds, n \in FrameLengths}

Idle == [call |-> "none", bytes |-> <<>>, copied |-> 0]

Init ==
  /\ active = "nullptr"
  /\ rx = <<>> /\ rx_ready = FALSE
  /\ tx_bytes = [i \in 1 .. kMaxEncodedFrameSize |-> <<"none", 0>>] /\ tx_length = 0
  /\ masked = FALSE /\ main = Idle
  /\ taken = <<>> /\ reply = <<>>

-----------------------------------------------------------------------------
(* Mistakes that were easy to make here; none of them is part of Spec. *)

noInterrupts_missing == UNCHANGED masked
Truncated_not(m) == m

-----------------------------------------------------------------------------
(* The callbacks, once begin has registered them. *)

Truncated(m) ==
  SubSeq(m, 1, IF Len(m) < kMaxEncodedFrameSize THEN Len(m) ELSE kMaxEncodedFrameSize)

\* receive_from_isr: the frame before it is lost if it has not been polled.
OnReceive(m) ==
  /\ active = "this" /\ ~masked
  /\ rx' = Truncated(m)
  /\ rx_ready' = (Truncated(m) # <<>>)
  /\ UNCHANGED <<active, tx_bytes, tx_length, masked, main, taken, reply>>

\* request_from_isr: the whole frame is handed to the library at once.
OnRequest ==
  /\ active = "this" /\ ~masked
  /\ reply' = SubSeq(tx_bytes, 1, tx_length)
  /\ UNCHANGED <<active, rx, rx_ready, tx_bytes, tx_length, masked, main, taken>>

-----------------------------------------------------------------------------
(* The main loop. *)

noInterrupts == masked' = TRUE

interrupts == masked' = FALSE

\* begin of this endpoint or of another: the first one stays.
begin(endpoint) ==
  /\ main = Idle
  /\ active \in {"nullptr", endpoint}
  /\ active' = endpoint
  /\ UNCHANGED <<rx, rx_ready, tx_bytes, tx_length, masked, main, taken, reply>>

\* poll looks at rx_ready_ with interrupts enabled.
PollReady ==
  /\ main = Idle /\ rx_ready
  /\ main' = [call |-> "poll", bytes |-> <<>>, copied |-> 0]
  /\ UNCHANGED <<active, rx, rx_ready, tx_bytes, tx_length, masked, taken, reply>>

PollMask ==
  /\ main.call = "poll"
  /\ noInterrupts
  /\ main' = [call |-> "copy", bytes |-> <<>>, copied |-> Len(rx)]
  /\ UNCHANGED <<active, rx, rx_ready, tx_bytes, tx_length, taken, reply>>

\* main.copied is local_length here.  A byte beyond rx is whatever was there before.
PollByte ==
  /\ main.call = "copy" /\ Len(main.bytes) < main.copied
  /\ main' = [main EXCEPT !.bytes = Append(@, LET i == Len(@) + 1 IN
                IF i <= Len(rx) THEN rx[i] ELSE <<"none", 0>>)]
  /\ UNCHANGED <<active, rx, rx_ready, tx_bytes, tx_length, masked, taken, reply>>

PollEnd ==
  /\ main.call = "copy" /\ Len(main.bytes) = main.copied
  /\ taken' = main.bytes
  /\ rx_ready' = FALSE /\ rx' = <<>>
  /\ interrupts
  /\ main' = Idle
  /\ UNCHANGED <<active, tx_bytes, tx_length, reply>>

PublishMask(f) ==
  /\ main = Idle
  /\ noInterrupts
  /\ main' = [call |-> "publish", bytes |-> f, copied |-> 0]
  /\ UNCHANGED <<active, rx, rx_ready, tx_bytes, tx_length, taken, reply>>

PublishByte ==
  /\ main.call = "publish" /\ main.copied < Len(main.bytes)
  /\ tx_bytes' = [tx_bytes EXCEPT ![main.copied + 1] = main.bytes[main.copied + 1]]
  /\ main' = [main EXCEPT !.copied = @ + 1]
  /\ UNCHANGED <<active, rx, rx_ready, tx_length, masked, taken, reply>>

PublishEnd ==
  /\ main.call = "publish" /\ main.copied = Len(main.bytes)
  /\ tx_length' = main.copied
  /\ interrupts
  /\ main' = Idle
  /\ UNCHANGED <<active, rx, rx_ready, tx_bytes, taken, reply>>

Next ==
  \/ \E endpoint \in {"this", "other"} : begin(endpoint)
  \/ \E m \in Writes : OnReceive(m)
  \/ OnRequest
  \/ PollReady \/ PollMask \/ PollByte \/ PollEnd
  \/ \E f \in Frames : PublishMask(f)
  \/ PublishByte \/ PublishEnd

Spec == Init /\ [][Next]_vars

-----------------------------------------------------------------------------

(***************************************************************************)
(* The type invariant: neither callback nor main loop ever leaves the      *)
(* bounds of a buffer, and rx_ready_ says that there are bytes.            *)
(***************************************************************************)
TypeOK ==
  /\ active \in {"nullptr", "this", "other"}
  /\ rx \in Seq(Byte) /\ Len(rx) <= kMaxEncodedFrameSize
  /\ rx_ready = (rx # <<>>)
  /\ tx_bytes \in [1 .. kMaxEncodedFrameSize -> Byte]
  /\ tx_length \in 0 .. kMaxEncodedFrameSize
  /\ masked \in BOOLEAN
  /\ main \in [call : {"none", "poll", "copy", "publish"}, bytes : Seq(Byte),
               copied : 0 .. kMaxEncodedFrameSize]
  /\ Len(main.bytes) <= kMaxEncodedFrameSize
  /\ taken \in Seq(Byte) /\ reply \in Seq(Byte)

-----------------------------------------------------------------------------
(* The implementation of LatestMailbox.  A frame is in the outbox from the *)
(* moment publish has disabled interrupts.                                 *)

Mailbox == INSTANCE LatestMailbox
             WITH Message <- Writes, Frame <- Frames, Capacity <- kMaxEncodedFrameSize,
                  inbox <- rx,
                  outbox <- IF main.call = "publish" THEN main.bytes
                            ELSE SubSeq(tx_bytes, 1, tx_length)

(***************************************************************************)
(* The endpoint is a mailbox for the latest message, wherever a callback   *)
(* interrupts poll or publish: poll gives one whole write, the last one,   *)
(* even when it came after the test of rx_ready_, and a read gives one     *)
(* whole frame, the last one published.                                    *)
(***************************************************************************)
LatestMailboxSpec == Mailbox!Spec
==============================================================================
