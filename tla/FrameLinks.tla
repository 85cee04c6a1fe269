------------------------------ MODULE FrameLinks ------------------------------
(***************************************************************************)
(* The two links on which the bytes of a frame reach a receiver: a byte    *)
(* stream with a StreamDecoder at its end, or fixed-size reads of a        *)
(* mailbox. A receiver is on one of them.                                  *)
(***************************************************************************)
EXTENDS StreamLink, PaddedRead

VARIABLE link    \* "stream" or "mailbox"

linkedVars == <<vars, readVars, link>>

LinksInit ==
  /\ Init /\ ReadInit
  /\ \/ link = "stream"
     \/ link = "mailbox" /\ frame = CHOOSE f \in SentFrames : TRUE

LinksNext ==
  \/ link = "stream" /\ Next /\ UNCHANGED <<readVars, link>>
  \/ link = "mailbox" /\ ReadNext /\ UNCHANGED <<vars, link>>

LinksSpec == LinksInit /\ [][LinksNext]_linkedVars
==============================================================================
