------------------------------ MODULE StreamLink ------------------------------
(***************************************************************************)
(* A StreamDecoder at the end of a byte stream (UART, USB): a sender puts  *)
(* one encoded frame after the other on it, and the line loses, changes    *)
(* and inserts bytes, MaxFaults times in all.                              *)
(***************************************************************************)
EXTENDS StreamDecoder

CONSTANTS SentFrames, MaxFaults

ASSUME StreamAssumption ==
  SentFrames \subseteq Frame /\ SentFrames # {} /\ MaxFaults \in Nat

VARIABLES
  frame,      \* the frame being sent
  sent,       \* how many of its bytes have been
  intact,     \* all of them arrived unchanged, and nothing between them
  in_step,    \* the decoder held nothing when the frame began
  faults,     \* faults so far
  plain,      \* no frame so far contains the magic byte but as its first
  missed      \* intact frames in a row, since the last fault, that the decoder
              \* has not delivered, counted up to one above MissBound while plain

linkVars == <<frame, sent, intact, in_step, faults, plain, missed>>

vars == <<decoderVars, linkVars>>

Encoded == encode_frame(frame)

AllSent == sent = Len(Encoded)

MagicFree(f) == \A i \in 2 .. Len(encode_frame(f)) : encode_frame(f)[i] # kFrameMagic

Init ==
  /\ DecoderInit
  /\ frame \in SentFrames /\ plain = MagicFree(frame)
  /\ sent = 0 /\ intact = TRUE /\ in_step = TRUE /\ faults = 0 /\ missed = 0

Ceiling(a, b) == (a + b - 1) \div b

\* The frames that a candidate of the greatest length reaches into, after its first byte.
MissBound == Ceiling(kMaxEncodedFrameSize - 1, kFrameOverhead)

BeginFrame(f) ==
  /\ AllSent
  /\ frame' = f /\ sent' = 0 /\ intact' = TRUE /\ in_step' = (buffer = <<>>)
  /\ plain' = (plain /\ MagicFree(f))
  /\ missed' = IF plain' THEN missed ELSE 0
  /\ UNCHANGED <<decoderVars, faults>>

Delivers == result'.status = "frame_ready" /\ result'.frame = Delivered(frame)

SendByte ==
  /\ ~AllSent
  /\ feed(Encoded[sent + 1])
  /\ sent' = sent + 1
  /\ missed' = IF sent + 1 < Len(Encoded) \/ ~intact \/ ~plain THEN missed
               ELSE IF Delivers THEN 0
               ELSE IF missed > MissBound THEN missed ELSE missed + 1
  /\ UNCHANGED <<frame, intact, in_step, faults, plain>>

Fault == faults < MaxFaults /\ faults' = faults + 1 /\ intact' = FALSE /\ missed' = 0

LoseByte ==
  /\ Fault /\ ~AllSent
  /\ sent' = sent + 1
  /\ UNCHANGED <<decoderVars, frame, in_step, plain>>

ChangeByte(b) ==
  /\ Fault /\ ~AllSent /\ b # Encoded[sent + 1]
  /\ feed(b)
  /\ sent' = sent + 1
  /\ UNCHANGED <<frame, in_step, plain>>

InsertByte(b) ==
  /\ Fault
  /\ feed(b)
  /\ UNCHANGED <<frame, sent, in_step, plain>>

\* The application gives up the candidate, after a pause on the line for example.
ResetDecoder ==
  /\ Fault
  /\ reset
  /\ UNCHANGED <<frame, sent, in_step, plain>>

Next ==
  \/ \E f \in SentFrames : BeginFrame(f)
  \/ SendByte \/ LoseByte
  \/ \E b \in Byte : ChangeByte(b) \/ InsertByte(b)
  \/ ResetDecoder

Spec == Init /\ [][Next]_vars

-----------------------------------------------------------------------------

(***************************************************************************)
(* A frame that arrives intact is delivered with its last byte, whatever   *)
(* happened on the line before, if the decoder held nothing when the frame *)
(* began; its bytes may look like other frames.                            *)
(***************************************************************************)
IntactFrameDelivered ==
  AllSent /\ intact /\ in_step =>
    result = StreamResult("frame_ready", Delivered(frame), "none")

(***************************************************************************)
(* The decoder falls into step again after any fault: as long as frames    *)
(* contain no magic byte but their first, at most MissBound intact frames  *)
(* are lost after it, those that a damaged header makes it swallow.        *)
(***************************************************************************)
LossBounded == missed <= MissBound
==============================================================================
