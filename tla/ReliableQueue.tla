---------------------------- MODULE ReliableQueue ----------------------------
(***************************************************************************)
(* picomesh::ReliableQueue: a fixed array of slots that holds the frames   *)
(* waiting for an acknowledgement, each with the wrapping deadline of its  *)
(* next transmission.  Every method is one action: the class has no lock   *)
(* and its callers use it from one loop.                                   *)
(*                                                                         *)
(* Two variables are not in the code.  age[i] is the true time since the   *)
(* frame in slot i was queued or last sent, which the code knows only as a *)
(* wrapping deadline; it decides nothing.  ret is what the method called   *)
(* by the last step returned.                                              *)
(***************************************************************************)
EXTENDS Frames, Ticks, FiniteSets

CONSTANTS
  kMaxPendingTransmissions,
  timeout_ms,                \* RetryPolicy::timeout_ms
  policy_max_attempts        \* RetryPolicy::max_attempts as the caller gave it

(***************************************************************************)
(* A timeout above half the tick range is outside the documented use of    *)
(* the queue (docs/resource_limits.md).  max_attempts is a uint8_t.        *)
(***************************************************************************)
ASSUME PolicyAssumption ==
  /\ kMaxPendingTransmissions \in Nat \ {0}
  /\ timeout_ms \in 0 .. HalfRange
  /\ policy_max_attempts \in 0 .. 255

VARIABLES
  slots,    \* slots_
  now_ms,   \* the tick the next call is given
  age,      \* time since slot i was filled or its frame last sent, up to Forgotten
  ret       \* what the last step's call returned

vars == <<slots, now_ms, age, ret>>

SlotIds == 0 .. kMaxPendingTransmissions - 1

Slot == [frame : Frame, deadline_ms : TickValue, attempts : 0 .. 255, active : BOOLEAN]

EmptySlot == [frame |-> EmptyFrame, deadline_ms |-> 0, attempts |-> 0, active |-> FALSE]

\* The constructor allows at least one attempt.
max_attempts == IF policy_max_attempts = 0 THEN 1 ELSE policy_max_attempts

\* Ages are not told apart beyond the time at which a deadline stops to look reached.
Forgotten == timeout_ms + HalfRange

Init ==
  /\ slots = [i \in SlotIds |-> EmptySlot]
  /\ now_ms \in TickValue
  /\ age = [i \in SlotIds |-> 0]
  /\ ret = [call |-> "none"]

-----------------------------------------------------------------------------
Active == {i \in SlotIds : slots[i].active}

pending_count == Cardinality(Active)

\* Slot i holds the active frame with key k.
Holds(i, k) == slots[i].active /\ Key(slots[i].frame) = k

(* Mistakes that were easy to make here; none of them is part of Spec. *)

\* The search for a duplicate ends at the first free slot.
Duplicate_before_a_gap(f) ==
  \E i \in SlotIds : Holds(i, Key(f)) /\ \A j \in 0 .. i : slots[j].active

\* A wider type for the deadline than for the tick.
NextDeadline_unwrapped(i) == now_ms + timeout_ms

\* Each deadline computed from the one before.
NextDeadline_from_last(i) == Wrap(slots[i].deadline_ms + timeout_ms)

-----------------------------------------------------------------------------

\* An active slot has the node and sequence of f.
Duplicate(f) == \E i \in SlotIds : Holds(i, Key(f))

\* The loops over slots_ stop at the first slot that matches.
FirstOf(S) == CHOOSE i \in S : \A j \in S : i <= j

Due == {i \in Active : deadline_reached(now_ms, slots[i].deadline_ms)}

FirstFree == FirstOf(SlotIds \ Active)

\* A mistake: one attempt more than the policy has.
LastAttemptMade_later(i) == slots[i].attempts > max_attempts

LastAttemptMade(i) == slots[i].attempts >= max_attempts

\* Counted from this transmission, whenever it was due.
NextDeadline(i) == Wrap(now_ms + timeout_ms)

\* A slot is released by its active flag alone: the rest stays behind.
Release(i) ==
  /\ slots' = [slots EXCEPT ![i].active = FALSE]
  /\ age' = [age EXCEPT ![i] = 0]

-----------------------------------------------------------------------------

Tick ==
  /\ now_ms' = Wrap(now_ms + 1)
  /\ age' = [i \in SlotIds |-> IF slots[i].active /\ age[i] < Forgotten
                                 THEN age[i] + 1 ELSE age[i]]
  /\ ret' = [call |-> "none"]
  /\ UNCHANGED slots

\* The frame is oversized, or an active slot has its node and sequence.
EnqueueInvalid(f) ==
  /\ ~FitsPayload(f) \/ Duplicate(f)
  /\ ret' = [call |-> "enqueue", result |-> "invalid"]
  /\ UNCHANGED <<slots, now_ms, age>>

\* The key is looked up before a free slot: a duplicate is never "full".
EnqueueFull(f) ==
  /\ FitsPayload(f) /\ ~Duplicate(f)
  /\ Active = SlotIds
  /\ ret' = [call |-> "enqueue", result |-> "full"]
  /\ UNCHANGED <<slots, now_ms, age>>

EnqueueQueued(f) ==
  /\ FitsPayload(f) /\ ~Duplicate(f)
  /\ Active # SlotIds
  /\ slots' = [slots EXCEPT ![FirstFree] =
                 [frame |-> AckRequired(f), deadline_ms |-> now_ms,
                  attempts |-> 0, active |-> TRUE]]
  /\ age' = [age EXCEPT ![FirstFree] = 0]
  /\ ret' = [call |-> "enqueue", result |-> "queued"]
  /\ UNCHANGED now_ms

\* next_due finds nothing to do.
NextDueNone ==
  /\ Due = {}
  /\ ret' = [call |-> "next_due", action |-> "none"]
  /\ UNCHANGED <<slots, now_ms, age>>

\* next_due hands out the first due frame and dates its next transmission.
NextDueSend ==
  /\ Due # {}
  /\ LET i == FirstOf(Due)
     IN /\ ~LastAttemptMade(i)
        /\ slots' = [slots EXCEPT ![i].attempts = @ + 1,
                                  ![i].deadline_ms = NextDeadline(i)]
        /\ age' = [age EXCEPT ![i] = 0]
        /\ ret' = [call |-> "next_due", action |-> "send",
                   frame |-> slots[i].frame, attempts |-> slots[i].attempts + 1]
  /\ UNCHANGED now_ms

\* A mistake: exhaustion reported, the slot left active.
NextDueExhausted_kept ==
  /\ Due # {}
  /\ LastAttemptMade(FirstOf(Due))
  /\ ret' = [call |-> "next_due", action |-> "exhausted",
             frame |-> slots[FirstOf(Due)].frame, attempts |-> slots[FirstOf(Due)].attempts]
  /\ UNCHANGED <<slots, now_ms, age>>

\* next_due gives up the first due frame: its last attempt timed out.
NextDueExhausted ==
  /\ Due # {}
  /\ LET i == FirstOf(Due)
     IN /\ LastAttemptMade(i)
        /\ Release(i)
        /\ ret' = [call |-> "next_due", action |-> "exhausted",
                   frame |-> slots[i].frame, attempts |-> slots[i].attempts]
  /\ UNCHANGED now_ms

next_due == NextDueNone \/ NextDueSend \/ NextDueExhausted

\* Any status of the named frame ends its retries.
AcknowledgeFound(k, status) ==
  /\ \E i \in SlotIds : Holds(i, k)
  /\ Release(FirstOf({i \in SlotIds : Holds(i, k)}))
  /\ ret' = [call |-> "acknowledge",
             result |-> IF status = "accepted" THEN "accepted" ELSE "rejected"]
  /\ UNCHANGED now_ms

AcknowledgeNotFound(k) ==
  /\ ~\E i \in SlotIds : Holds(i, k)
  /\ ret' = [call |-> "acknowledge", result |-> "not_found"]
  /\ UNCHANGED <<slots, now_ms, age>>

CancelFound(k) ==
  /\ \E i \in SlotIds : Holds(i, k)
  /\ Release(FirstOf({i \in SlotIds : Holds(i, k)}))
  /\ ret' = [call |-> "cancel", result |-> TRUE]
  /\ UNCHANGED now_ms

CancelNotFound(k) ==
  /\ ~\E i \in SlotIds : Holds(i, k)
  /\ ret' = [call |-> "cancel", result |-> FALSE]
  /\ UNCHANGED <<slots, now_ms, age>>

Clear ==
  /\ slots' = [i \in SlotIds |-> EmptySlot]
  /\ age' = [i \in SlotIds |-> 0]
  /\ ret' = [call |-> "clear"]
  /\ UNCHANGED now_ms

enqueue(f) == EnqueueInvalid(f) \/ EnqueueFull(f) \/ EnqueueQueued(f)

acknowledge(k, status) == AcknowledgeFound(k, status) \/ AcknowledgeNotFound(k)

cancel(k) == CancelFound(k) \/ CancelNotFound(k)

Next ==
  \/ Tick
  \/ \E f \in Frame : enqueue(f)
  \/ next_due
  \/ \E k \in NodeIds \X Sequences : cancel(k) \/ \E s \in AckStatus : acknowledge(k, s)
  \/ Clear

Spec == Init /\ [][Next]_vars

-----------------------------------------------------------------------------

\* A frame that was never sent is due at once, any other one timeout_ms later.
Wait(i) == IF slots[i].attempts = 0 THEN 0 ELSE timeout_ms

Result ==
  [call : {"none", "clear"}]
    \cup [call : {"enqueue"}, result : {"queued", "full", "invalid"}]
    \cup [call : {"next_due"}, action : {"none"}]
    \cup [call : {"next_due"}, action : {"send", "exhausted"},
          frame : Frame, attempts : 0 .. 255]
    \cup [call : {"acknowledge"}, result : {"accepted", "rejected", "not_found"}]
    \cup [call : {"cancel"}, result : BOOLEAN]

(***************************************************************************)
(* The type invariant: in particular a deadline stays a wrapped tick and   *)
(* the uint8_t attempt counter never leaves its range.                     *)
(***************************************************************************)
TypeOK ==
  /\ slots \in [SlotIds -> Slot]
  /\ now_ms \in TickValue
  /\ age \in [SlotIds -> 0 .. Forgotten]
  /\ ret \in Result

(***************************************************************************)
(* No two active slots hold the same node and sequence, whatever mix of    *)
(* enqueues, exhaustions, acknowledgements and cancels filled and freed    *)
(* the slots: acknowledge and cancel stop at the first match, so a second  *)
(* copy would go on being sent after its acknowledgement.                  *)
(***************************************************************************)
UniqueKeys ==
  \A i, j \in Active : Key(slots[i].frame) = Key(slots[j].frame) => i = j

(***************************************************************************)
(* The wrapped deadline of an active slot stands for the true time since   *)
(* its last transmission, across any number of wraps of the tick, until    *)
(* the frame has been left alone for Forgotten ticks.                      *)
(***************************************************************************)
DeadlineTracksAge ==
  \A i \in Active :
    age[i] < Forgotten => slots[i].deadline_ms = Wrap(now_ms - age[i] + Wait(i))

-----------------------------------------------------------------------------
(* The implementation of RetryService. *)

PendingKeys == {Key(slots[i].frame) : i \in Active}

SlotOf(k) == CHOOSE i \in Active : Key(slots[i].frame) = k

Entry(i) ==
  [frame |-> slots[i].frame, attempts |-> slots[i].attempts, age |-> age[i]]

Pending == [k \in PendingKeys |-> Entry(SlotOf(k))]

Retry == INSTANCE RetryService
           WITH Capacity <- kMaxPendingTransmissions,
                Timeout <- timeout_ms,
                MaxAttempts <- policy_max_attempts,
                Window <- HalfRange,
                pending <- Pending,
                ret <- ret

(***************************************************************************)
(* The queue is a retry service: it never sends or gives up a frame early, *)
(* never overlooks one that came due within half the tick range, refuses a *)
(* frame only as a duplicate, as oversized or for want of a slot, and an   *)
(* acknowledgement or cancel ends the frame it names and no other.         *)
(***************************************************************************)
RetrySpec == Retry!Spec
==============================================================================
