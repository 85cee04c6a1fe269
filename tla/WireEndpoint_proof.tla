-------------------------- MODULE WireEndpoint_proof --------------------------
(***************************************************************************)
(* The Wire endpoint stays inside its buffers and is a mailbox for the     *)
(* latest message, for every buffer size and every message.                *)
(***************************************************************************)
EXTENDS WirePeripheralEndpoint, TLAPS

(***************************************************************************)
(* What holds while the main loop copies: interrupts are disabled from the *)
(* first byte to the last, so the receive buffer stays as poll found it    *)
(* and the transmit buffer agrees with the frame as far as it was copied.  *)
(***************************************************************************)
Masked ==
  /\ main.call \in {"copy", "publish"} => masked = TRUE
  /\ main.call \in {"none", "poll"} => masked = FALSE

\* What main is in TypeOK.
MainType ==
  [call : {"none", "poll", "copy", "publish"}, bytes : Seq(Byte),
   copied : 0 .. kMaxEncodedFrameSize]

Copying ==
  main.call = "copy" =>
    /\ main.copied = Len(rx) /\ Len(main.bytes) <= Len(rx)
    /\ \A i \in 1 .. Len(main.bytes) : main.bytes[i] = rx[i]

Publishing ==
  main.call = "publish" =>
    /\ main.bytes \in Frames /\ main.copied <= Len(main.bytes)
    /\ \A i \in 1 .. main.copied : tx_bytes[i] = main.bytes[i]

IInv == TypeOK /\ Masked /\ Copying /\ Publishing

-----------------------------------------------------------------------------

(***************************************************************************)
(* The bytes of a message are a sequence of its length.                    *)
(***************************************************************************)
LEMMA MessageBytes ==
  ASSUME NEW id \in MessageIds, NEW n \in Nat
  PROVE  Bytes(id, n) \in Seq(Byte) /\ Len(Bytes(id, n)) = n
<1>1. \A i \in 1 .. n : <<id, i>> \in Byte
  BY DEF Byte
<1>2. Bytes(id, n) \in [1 .. n -> Byte]
  BY <1>1 DEF Bytes
<1> QED BY <1>2

(***************************************************************************)
(* What receive_from_isr keeps of a write fits into rx_bytes_.             *)
(***************************************************************************)
LEMMA TruncatedFits ==
  ASSUME NEW m \in Writes
  PROVE  Truncated(m) \in Seq(Byte) /\ Len(Truncated(m)) <= kMaxEncodedFrameSize
<1>1. m \in Seq(Byte)
  BY MessageBytes, WireAssumption DEF Writes
<1>2. Len(m) \in Nat /\ kMaxEncodedFrameSize \in Nat
  BY <1>1, WireAssumption
<1>3. PICK k \in 0 .. Len(m) : k <= kMaxEncodedFrameSize /\ Truncated(m) = SubSeq(m, 1, k)
  BY <1>2 DEF Truncated
<1>4. SubSeq(m, 1, k) \in Seq(Byte) /\ Len(SubSeq(m, 1, k)) = k
  BY <1>1, <1>3
<1> QED BY <1>3, <1>4

(***************************************************************************)
(* A frame that main publishes is a sequence that fits into tx_bytes_.     *)
(***************************************************************************)
LEMMA FrameFits ==
  ASSUME NEW f \in Frames
  PROVE  f \in Seq(Byte) /\ Len(f) \in 1 .. kMaxEncodedFrameSize
BY MessageBytes, WireAssumption DEF Frames

(***************************************************************************)
(* A prefix of the transmit buffer is a sequence of bytes.                 *)
(***************************************************************************)
LEMMA SentIsBytes ==
  ASSUME TypeOK
  PROVE  SubSeq(tx_bytes, 1, tx_length) \in Seq(Byte)
<1>1. tx_bytes \in Seq(Byte) /\ Len(tx_bytes) = kMaxEncodedFrameSize
  BY WireAssumption DEF TypeOK
<1> QED BY <1>1, WireAssumption DEF TypeOK

-----------------------------------------------------------------------------

(***************************************************************************)
(* A main loop that has just begun a call, or is in none, is well-formed.  *)
(***************************************************************************)
LEMMA CallIsTyped ==
  ASSUME NEW c \in {"none", "poll", "copy", "publish"},
         NEW s \in Seq(Byte), NEW n \in 0 .. kMaxEncodedFrameSize
  PROVE  [call |-> c, bytes |-> s, copied |-> n] \in MainType
BY DEF MainType

(***************************************************************************)
(* An empty buffer is well-formed.                                         *)
(***************************************************************************)
LEMMA NoBytes == <<>> \in Seq(Byte) /\ Len(<<>>) = 0 /\ 0 \in 0 .. kMaxEncodedFrameSize
BY WireAssumption

(***************************************************************************)
(* An endpoint that has been given nothing satisfies the invariant.        *)
(***************************************************************************)
LEMMA InitInv == Init => IInv
<1> SUFFICES ASSUME Init PROVE IInv
  OBVIOUS
<1>1. main.call = "none" /\ main.bytes = <<>> /\ main.copied = 0
  BY DEF Init, Idle
<1>2. <<"none", 0>> \in Byte
  BY DEF Byte
<1>3. TypeOK
  <2>1. main \in MainType
    BY NoBytes, CallIsTyped DEF Init, Idle
  <2>2. rx_ready = (rx # <<>>)
    BY DEF Init
  <2>3. tx_bytes \in [1 .. kMaxEncodedFrameSize -> Byte]
    BY <1>2 DEF Init
  <2>4. rx = <<>> /\ taken = <<>> /\ reply = <<>> /\ tx_length = 0 /\ masked = FALSE /\ active = "nullptr"
    BY DEF Init
  <2>5. Len(rx) <= kMaxEncodedFrameSize /\ Len(main.bytes) <= kMaxEncodedFrameSize
    BY <1>1, <2>4, NoBytes, WireAssumption
  <2>6. rx \in Seq(Byte) /\ taken \in Seq(Byte) /\ reply \in Seq(Byte)
    BY <2>4, NoBytes
  <2>7. tx_length \in 0 .. kMaxEncodedFrameSize /\ masked \in BOOLEAN
        /\ active \in {"nullptr", "this", "other"}
    BY <2>4, NoBytes
  <2> QED BY <2>1, <2>2, <2>3, <2>5, <2>6, <2>7, Zenon DEF TypeOK, MainType
<1>4. Masked
  BY <1>1 DEF Init, Masked
<1> QED BY <1>1, <1>3, <1>4 DEF IInv, Copying, Publishing

(***************************************************************************)
(* Every step of the endpoint preserves the invariant.                     *)
(***************************************************************************)
LEMMA NextInv == IInv /\ [Next]_vars => IInv'
<1> SUFFICES ASSUME IInv, [Next]_vars PROVE IInv'
  OBVIOUS
<1>0. TypeOK /\ Masked /\ Copying /\ Publishing
  BY DEF IInv
<1>k. kMaxEncodedFrameSize \in Nat \ {0}
  BY WireAssumption
<1>1. ASSUME NEW endpoint \in {"this", "other"}, begin(endpoint) PROVE IInv'
  BY <1>0, <1>1 DEF begin, IInv, TypeOK, Masked, Copying, Publishing
<1>2. ASSUME NEW m \in Writes, OnReceive(m) PROVE IInv'
  <2>1. rx' \in Seq(Byte) /\ Len(rx') <= kMaxEncodedFrameSize /\ rx_ready' = (rx' # <<>>)
    BY <1>2, TruncatedFits DEF OnReceive
  <2>2. main.call # "copy"
    BY <1>0, <1>2 DEF OnReceive, Masked
  <2>3. TypeOK'
    BY <1>0, <1>2, <2>1 DEF OnReceive, TypeOK
  <2> QED BY <1>0, <1>2, <2>2, <2>3 DEF OnReceive, IInv, Masked, Copying, Publishing
<1>3. CASE OnRequest
  <2>1. reply' \in Seq(Byte)
    BY <1>0, <1>3, SentIsBytes DEF OnRequest
  <2>2. TypeOK'
    BY <1>0, <1>3, <2>1 DEF OnRequest, TypeOK
  <2> QED BY <1>0, <1>3, <2>2 DEF OnRequest, IInv, Masked, Copying, Publishing
<1>4. CASE PollReady
  <2>1. main'.call = "poll" /\ main'.bytes = <<>> /\ main'.copied = 0 /\ main.call = "none"
    BY <1>4 DEF PollReady, Idle
  <2>2. TypeOK'
    <3>1. main' \in MainType
      BY <1>4, NoBytes, CallIsTyped DEF PollReady
    <3>2. Len(main'.bytes) <= kMaxEncodedFrameSize
      BY <1>k, <2>1, NoBytes
    <3> QED BY <1>0, <1>4, <3>1, <3>2 DEF PollReady, TypeOK, MainType
  <2>3. Masked'
    BY <1>0, <1>4, <2>1 DEF PollReady, Masked
  <2> QED BY <2>1, <2>2, <2>3 DEF IInv, Copying, Publishing
<1>5. CASE PollMask
  <2>1. main'.call = "copy" /\ main'.bytes = <<>> /\ main'.copied = Len(rx) /\ rx' = rx
    BY <1>5 DEF PollMask
  <2>2. TypeOK'
    <3>1. Len(rx) \in 0 .. kMaxEncodedFrameSize
      BY <1>0, <1>k DEF TypeOK
    <3> QED BY <1>0, <1>5, <1>k, <3>1 DEF PollMask, noInterrupts, TypeOK
  <2>3. Masked'
    BY <1>5, <2>1 DEF PollMask, noInterrupts, Masked
  <2>4. Copying'
    BY <1>0, <2>1 DEF Copying, TypeOK
  <2> QED BY <2>1, <2>2, <2>3, <2>4 DEF IInv, Publishing
<1>6. CASE PollByte
  <2> PICK b : b = rx[Len(main.bytes) + 1]
    OBVIOUS
  <2>1. Len(main.bytes) + 1 \in 1 .. Len(rx) /\ main.bytes \in Seq(Byte) /\ rx \in Seq(Byte)
    BY <1>0, <1>6 DEF PollByte, Copying, TypeOK
  <2>2. main' = [main EXCEPT !.bytes = Append(main.bytes, b)]
    <3>1. Len(main.bytes) + 1 <= Len(rx)
      BY <2>1
    <3>2. main' = [main EXCEPT !.bytes = Append(main.bytes,
                     IF Len(main.bytes) + 1 <= Len(rx) THEN rx[Len(main.bytes) + 1]
                     ELSE <<"none", 0>>)]
      BY <1>6, Zenon DEF PollByte
    <3> QED BY <3>1, <3>2
  <2>3. main.call = "copy" /\ main'.call = "copy" /\ main'.copied = main.copied
        /\ main'.bytes = Append(main.bytes, b)
    BY <1>0, <1>6, <2>2 DEF PollByte, TypeOK
  <2>4. b \in Byte
    BY <2>1
  <2>5. main'.bytes \in Seq(Byte) /\ Len(main'.bytes) = Len(main.bytes) + 1
    BY <2>1, <2>3, <2>4
  <2>6. TypeOK'
    <3>1. main' \in [call : {"none", "poll", "copy", "publish"}, bytes : Seq(Byte),
                     copied : 0 .. kMaxEncodedFrameSize]
      BY <1>0, <2>2, <2>3, <2>5 DEF TypeOK
    <3>2. Len(main'.bytes) <= kMaxEncodedFrameSize
      BY <1>0, <1>k, <2>1, <2>5 DEF TypeOK
    <3> QED BY <1>0, <1>6, <3>1, <3>2 DEF PollByte, TypeOK
  <2>7. Masked'
    BY <1>0, <1>6, <2>3 DEF PollByte, Masked
  <2>8. Copying'
    <3>1. \A i \in 1 .. Len(main.bytes) + 1 : Append(main.bytes, b)[i] = rx[i]
      BY <1>0, <2>1, <2>3 DEF Copying
    <3> QED BY <1>0, <1>6, <2>1, <2>3, <2>5, <3>1 DEF PollByte, Copying
  <2> QED BY <2>3, <2>6, <2>7, <2>8 DEF IInv, Publishing
<1>7. CASE PollEnd
  <2>1. main'.call = "none" /\ main'.bytes = <<>> /\ main'.copied = 0 /\ rx' = <<>>
    BY <1>7 DEF PollEnd, Idle
  <2>2. TypeOK'
    <3>1. main' \in MainType
      BY <1>7, NoBytes, CallIsTyped DEF PollEnd, Idle
    <3>2. Len(main'.bytes) <= kMaxEncodedFrameSize
      BY <1>k, <2>1, NoBytes
    <3>3. rx_ready' = (rx' # <<>>)
      BY <1>7, Zenon DEF PollEnd
    <3>4. rx' \in Seq(Byte) /\ Len(rx') <= kMaxEncodedFrameSize
      BY <2>1, <1>k, NoBytes
    <3>5. taken' \in Seq(Byte)
      BY <1>0, <1>7 DEF PollEnd, TypeOK
    <3> QED BY <1>0, <1>7, <3>1, <3>2, <3>3, <3>4, <3>5 DEF PollEnd, interrupts, TypeOK, MainType
  <2>3. Masked'
    BY <1>7, <2>1 DEF PollEnd, interrupts, Masked
  <2> QED BY <2>1, <2>2, <2>3 DEF IInv, Copying, Publishing
<1>8. ASSUME NEW f \in Frames, PublishMask(f) PROVE IInv'
  <2>1. main'.call = "publish" /\ main'.bytes = f /\ main'.copied = 0
    BY <1>8 DEF PublishMask
  <2>2. f \in Seq(Byte) /\ Len(f) \in 1 .. kMaxEncodedFrameSize
    BY FrameFits
  <2>3. TypeOK'
    BY <1>0, <1>8, <1>k, <2>2 DEF PublishMask, noInterrupts, TypeOK
  <2>4. Masked'
    BY <1>8, <2>1 DEF PublishMask, noInterrupts, Masked
  <2>5. Publishing'
    BY <2>1, <2>2, <1>k DEF Publishing, Frames, Bytes
  <2> QED BY <2>1, <2>3, <2>4, <2>5 DEF IInv, Copying
<1>9. CASE PublishByte
  <2> PICK n : n = main.copied
    OBVIOUS
  <2>1. main.bytes \in Frames /\ n \in Nat /\ n < Len(main.bytes)
    BY <1>0, <1>9 DEF PublishByte, Publishing, TypeOK
  <2>2. main.bytes \in Seq(Byte) /\ Len(main.bytes) \in 1 .. kMaxEncodedFrameSize
    BY <2>1, FrameFits
  <2>3. main'.call = "publish" /\ main'.bytes = main.bytes /\ main'.copied = n + 1
    BY <1>0, <1>9 DEF PublishByte, TypeOK
  <2>4. n + 1 \in 1 .. Len(main.bytes) /\ n + 1 \in 1 .. kMaxEncodedFrameSize
    BY <1>k, <2>1, <2>2
  <2>5. tx_bytes' = [tx_bytes EXCEPT ![n + 1] = main.bytes[n + 1]]
    BY <1>9 DEF PublishByte
  <2>6. TypeOK'
    <3>1. main' \in [call : {"none", "poll", "copy", "publish"}, bytes : Seq(Byte),
                     copied : 0 .. kMaxEncodedFrameSize]
      <4>1. main' = [main EXCEPT !.copied = n + 1]
        BY <1>9 DEF PublishByte
      <4>2. n + 1 \in 0 .. kMaxEncodedFrameSize
        BY <2>4, <1>k
      <4> QED BY <1>0, <4>1, <4>2 DEF TypeOK
    <3>2. tx_bytes' \in [1 .. kMaxEncodedFrameSize -> Byte]
      BY <1>0, <2>2, <2>4, <2>5 DEF TypeOK
    <3> QED BY <1>0, <1>9, <2>3, <3>1, <3>2 DEF PublishByte, TypeOK
  <2>7. Masked'
    BY <1>0, <1>9, <2>3 DEF PublishByte, Masked
  <2>8. Publishing'
    <3>1. \A i \in 1 .. n : tx_bytes[i] = main.bytes[i]
      BY <1>0, <1>9 DEF PublishByte, Publishing
    <3>2. \A i \in 1 .. n + 1 : tx_bytes'[i] = main.bytes[i]
      BY <1>0, <2>1, <2>4, <2>5, <3>1 DEF TypeOK
    <3> QED BY <2>1, <2>3, <2>4, <3>2 DEF Publishing, Frames, Bytes
  <2> QED BY <2>3, <2>6, <2>7, <2>8 DEF IInv, Copying
<1>10. CASE PublishEnd
  <2>1. main'.call = "none" /\ main'.bytes = <<>> /\ main'.copied = 0
    BY <1>10 DEF PublishEnd, Idle
  <2>2. TypeOK'
    <3>1. main' \in MainType
      BY <1>10, NoBytes, CallIsTyped DEF PublishEnd, Idle
    <3>2. Len(main'.bytes) <= kMaxEncodedFrameSize
      BY <1>k, <2>1, NoBytes
    <3>3. tx_length' \in 0 .. kMaxEncodedFrameSize
      BY <1>0, <1>10 DEF PublishEnd, TypeOK
    <3> QED BY <1>0, <1>10, <3>1, <3>2, <3>3 DEF PublishEnd, interrupts, TypeOK, MainType
  <2>3. Masked'
    BY <1>10, <2>1 DEF PublishEnd, interrupts, Masked
  <2> QED BY <2>1, <2>2, <2>3 DEF IInv, Copying, Publishing
<1>11. CASE UNCHANGED vars
  BY <1>0, <1>11 DEF vars, IInv, TypeOK, Masked, Copying, Publishing
<1> QED BY <1>1, <1>2, <1>3, <1>4, <1>5, <1>6, <1>7, <1>8, <1>9, <1>10, <1>11 DEF Next

(***************************************************************************)
(* Neither a callback nor the main loop leaves the bounds of a buffer, and *)
(* rx_ready_ says that there are bytes, whatever is written and wherever   *)
(* it interrupts.                                                          *)
(***************************************************************************)
THEOREM TypeCorrect == Spec => []TypeOK
<1>1. IInv => TypeOK
  BY DEF IInv
<1> QED BY <1>1, InitInv, NextInv, PTL DEF Spec

-----------------------------------------------------------------------------

(***************************************************************************)
(* An endpoint that has been given nothing is an empty mailbox.            *)
(***************************************************************************)
LEMMA InitIsEmpty == Init => Mailbox!Init
<1> SUFFICES ASSUME Init PROVE Mailbox!Init
  OBVIOUS
<1>1. SubSeq(tx_bytes, 1, tx_length) = <<>>
  BY DEF Init
<1>2. main.call # "publish"
  BY DEF Init, Idle
<1> QED BY <1>1, <1>2 DEF Init, Mailbox!Init

(***************************************************************************)
(* Every step of the endpoint is a step of the mailbox or none.            *)
(***************************************************************************)
LEMMA StepIsMailboxStep == IInv /\ [Next]_vars => [Mailbox!Next]_(Mailbox!vars)
<1> SUFFICES ASSUME IInv, [Next]_vars PROVE [Mailbox!Next]_(Mailbox!vars)
  OBVIOUS
<1>0. TypeOK /\ Masked /\ Copying /\ Publishing
  BY DEF IInv
<1>1. ASSUME NEW endpoint \in {"this", "other"}, begin(endpoint) PROVE UNCHANGED Mailbox!vars
  BY <1>1 DEF begin, Mailbox!vars
<1>2. ASSUME NEW m \in Writes, OnReceive(m) PROVE Mailbox!Next
  <2>1. Mailbox!Arrive(m)
    BY <1>2 DEF OnReceive, Mailbox!Arrive, Mailbox!Kept, Truncated
  <2> QED BY <2>1 DEF Mailbox!Next
<1>3. CASE OnRequest
  <2>1. main.call # "publish"
    BY <1>0, <1>3 DEF OnRequest, Masked
  <2>2. Mailbox!Read
    BY <1>3, <2>1 DEF OnRequest, Mailbox!Read
  <2> QED BY <2>2 DEF Mailbox!Next
<1>4. CASE PollReady
  <2>1. main.call # "publish" /\ main'.call # "publish"
    BY <1>4 DEF PollReady, Idle
  <2> QED BY <1>4, <2>1 DEF PollReady, Mailbox!vars
<1>5. CASE PollMask
  <2>1. main.call # "publish" /\ main'.call # "publish"
    BY <1>5 DEF PollMask
  <2> QED BY <1>5, <2>1 DEF PollMask, Mailbox!vars
<1>6. CASE PollByte
  <2>1. main.call # "publish" /\ main'.call # "publish"
    BY <1>0, <1>6 DEF PollByte, TypeOK
  <2> QED BY <1>6, <2>1 DEF PollByte, Mailbox!vars
<1>7. CASE PollEnd
  <2>1. main.call # "publish" /\ main'.call # "publish"
    BY <1>7 DEF PollEnd, Idle
  <2>2. main.bytes = rx
    BY <1>0, <1>7 DEF PollEnd, Copying, TypeOK
  <2>3. Mailbox!Take
    BY <1>7, <2>1, <2>2 DEF PollEnd, Mailbox!Take
  <2> QED BY <2>3 DEF Mailbox!Next
<1>8. ASSUME NEW f \in Frames, PublishMask(f) PROVE Mailbox!Next
  <2>1. main'.call = "publish" /\ main'.bytes = f
    BY <1>8 DEF PublishMask
  <2>2. Mailbox!Publish(f)
    BY <1>8, <2>1 DEF PublishMask, Mailbox!Publish
  <2> QED BY <2>2 DEF Mailbox!Next
<1>9. CASE PublishByte
  <2>1. main.call = "publish" /\ main'.call = "publish" /\ main'.bytes = main.bytes
    BY <1>0, <1>9 DEF PublishByte, TypeOK
  <2> QED BY <1>9, <2>1 DEF PublishByte, Mailbox!vars
<1>10. CASE PublishEnd
  <2>1. main.call = "publish" /\ main'.call # "publish"
    BY <1>10 DEF PublishEnd, Idle
  <2>2. main.bytes \in Seq(Byte) /\ Len(main.bytes) \in 1 .. kMaxEncodedFrameSize
    BY <1>0, <2>1, FrameFits DEF Publishing
  <2>3. tx_length' = Len(main.bytes) /\ tx_bytes' = tx_bytes
    BY <1>10 DEF PublishEnd
  <2>4. \A i \in 1 .. Len(main.bytes) : tx_bytes[i] = main.bytes[i]
    BY <1>0, <1>10, <2>1 DEF PublishEnd, Publishing
  <2>5. SubSeq(tx_bytes, 1, Len(main.bytes)) = main.bytes
    <3>1. tx_bytes \in Seq(Byte) /\ Len(tx_bytes) = kMaxEncodedFrameSize
      BY <1>0, WireAssumption DEF TypeOK
    <3> QED BY <2>2, <2>4, <3>1, WireAssumption
  <2> QED BY <1>10, <2>1, <2>3, <2>5 DEF PublishEnd, Mailbox!vars
<1>11. CASE UNCHANGED vars
  BY <1>11 DEF vars, Mailbox!vars
<1> QED BY <1>1, <1>2, <1>3, <1>4, <1>5, <1>6, <1>7, <1>8, <1>9, <1>10, <1>11 DEF Next

(***************************************************************************)
(* The endpoint is a mailbox for the latest message: what poll gives is    *)
(* one whole write, the last one, and what a read gives is one whole       *)
(* frame, the last one published, for every size of the buffers.           *)
(***************************************************************************)
THEOREM EndpointIsLatestMailbox == Spec => LatestMailboxSpec
<1> QED BY InitInv, NextInv, InitIsEmpty, StepIsMailboxStep, PTL
        DEF Spec, LatestMailboxSpec, Mailbox!Spec
==============================================================================
