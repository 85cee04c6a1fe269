----------------------------- MODULE SequencedLink -----------------------------
(***************************************************************************)
(* Nodes that number their frames with sequence_number++, a link that      *)
(* loses, repeats, delays and reorders them, and a receiver that applies a *)
(* frame when its SequenceTracker calls it first or newer and prints every *)
(* frame into the log that SerialLog summarizes.                           *)
(*                                                                         *)
(* Frames are known here by their true numbers, which never wrap: sent,    *)
(* accepted, before, logged and delivered are not in the code.             *)
(***************************************************************************)
EXTENDS SequenceTracker, SerialLog

CONSTANTS
  Senders,      \* the node ids of the frames, any uint8_t
  MaxSent       \* bound of the model: the frames each node sends

ASSUME LinkAssumption ==
  /\ MaxSent \in Nat /\ Senders \subseteq Nat
  /\ LogModulus = SequenceModulus /\ LoggedIds = Senders

VARIABLES
  sequence_number,    \* sequence_number of the application on node n
  sent,         \* frames node n has sent; the last one's true number
  accepted,     \* the true number of the frame of n applied last, if any
  before,       \* the true number of the frame of n applied before that one, if any
  logged,       \* the true number of the frame of n the summary has last, if any
  delivered     \* the sender and true number of the frame delivered last

vars == <<trackerVars, summary, sequence_number, sent, accepted, before, logged, delivered>>

None == 0

Init ==
  /\ TrackerInit /\ LogInit
  /\ sequence_number = [n \in Senders |-> 0]
  /\ sent = [n \in Senders |-> 0]
  /\ accepted = [n \in Senders |-> None] /\ before = [n \in Senders |-> None]
  /\ logged = [n \in Senders |-> None]
  /\ delivered = <<>>

\* A mistake that was easy to make here: the numbers counted in a wider type.
Successor_wider(sequence) == sequence + 1

Successor(sequence) == (sequence + 1) % SequenceModulus

\* The number frame `number' was given: as far behind the next one as the frame is.
SequenceOf(n, number) ==
  (sequence_number[n] - 1 - (sent[n] - number)) % SequenceModulus

Send(n) ==
  /\ sent[n] < MaxSent
  /\ sent' = [sent EXCEPT ![n] = @ + 1]
  /\ sequence_number' = [sequence_number EXCEPT ![n] = Successor(@)]
  /\ UNCHANGED <<trackerVars, summary, accepted, before, logged, delivered>>

Apply(n, number) ==
  /\ accepted' = [accepted EXCEPT ![n] = number]
  /\ before' = [before EXCEPT ![n] = accepted[n]]

(***************************************************************************)
(* docs/protocol.md: distances of 1 to 127 are newer and 128 to 255 stale, *)
(* so these are the frames whose place the numbers can tell.               *)
(***************************************************************************)
InRange(number, last) == last # None => number - last \in -HalfSpace .. HalfSpace - 1

\* Any frame in range may arrive, again or for the first time.
Deliver(n, number) ==
  /\ InRange(number, accepted[n]) /\ InRange(number, logged[n])
  /\ observe(n, SequenceOf(n, number))
  /\ IF ret' \in {"first", "newer"} THEN Apply(n, number) ELSE UNCHANGED <<accepted, before>>
  /\ log(n, SequenceOf(n, number))
  /\ logged' = [logged EXCEPT ![n] = IF summary' # summary THEN number ELSE @]
  /\ delivered' = <<n, number>>
  /\ UNCHANGED <<sequence_number, sent>>

\* The application starts over with one node or with all.
ResetOne(n) ==
  /\ reset(n)
  /\ accepted' = [accepted EXCEPT ![n] = None] /\ before' = [before EXCEPT ![n] = None]
  /\ delivered' = <<>> /\ UNCHANGED <<summary, sequence_number, sent, logged>>

ResetAll ==
  /\ reset_all
  /\ accepted' = [n \in Senders |-> None] /\ before' = [n \in Senders |-> None]
  /\ delivered' = <<>> /\ UNCHANGED <<summary, sequence_number, sent, logged>>

Next ==
  \/ \E n \in Senders : Send(n) \/ ResetOne(n) \/ \E number \in 1 .. sent[n] : Deliver(n, number)
  \/ ResetAll

Spec == Init /\ [][Next]_vars

-----------------------------------------------------------------------------

(***************************************************************************)
(* The type invariant: sequence numbers and the tracker's copies of them   *)
(* stay a uint8_t, whatever arrives.                                       *)
(***************************************************************************)
TypeOK ==
  /\ TrackerTypeOK
  /\ sequence_number \in [Senders -> Sequence]
  /\ sent \in [Senders -> 0 .. MaxSent]
  /\ accepted \in [Senders -> 0 .. MaxSent] /\ before \in [Senders -> 0 .. MaxSent]
  /\ logged \in [Senders -> 0 .. MaxSent]
  /\ delivered \in {<<>>} \cup (Senders \X (1 .. MaxSent))

(***************************************************************************)
(* Every frame of a node that is applied was sent after the one applied    *)
(* before it: frames are applied in the order in which they were sent, and *)
(* none of them twice, however the numbers wrap and the link repeats and   *)
(* reorders ("duplicate sequence is not applied twice",                    *)
(* docs/hardware_validation.md).                                           *)
(***************************************************************************)
AppliedInOrder ==
  \A n \in Senders : before[n] # None => before[n] < accepted[n]

\* What a frame really is, by its true number.
Truth(n, number) ==
  IF n \notin NodeIds THEN "invalid_node"
  ELSE IF accepted[n] = None THEN "first"
  ELSE IF number = accepted[n] THEN "duplicate"
  ELSE IF number > accepted[n] THEN "newer" ELSE "stale"

(***************************************************************************)
(* Every frame is classified as what it is: none that is new is refused.   *)
(***************************************************************************)
ClassifiedTruly ==
  [][delivered' # <<>> /\ UNCHANGED sent =>
       ret' = Truth(delivered'[1], delivered'[2])]_vars

\* How often the numbers have come round before frame `number'.
Turns(number) == (number - 1) \div SequenceModulus

(***************************************************************************)
(* The summary of a log counts the true turns of a node's numbers, although *)
(* the log lacks frames, shows others twice and some late, and its last    *)
(* number is that of the newest frame in the log.                          *)
(***************************************************************************)
SummaryTrue ==
  [][\A n \in Senders : delivered' # <<>> /\ delivered'[1] = n /\ logged[n] # None =>
       /\ logged'[n] >= logged[n]
       /\ summary'[n].wraparounds - summary[n].wraparounds = Turns(logged'[n]) - Turns(logged[n])
       /\ summary'[n].last_sequence = (logged'[n] - 1) % SequenceModulus]_vars
==============================================================================
