------------------------- MODULE ReliableQueue_proof -------------------------
(***************************************************************************)
(* Invariants of ReliableQueue and its refinement of RetryService, for     *)
(* every number of slots, every retry policy and every width of the tick.  *)
(***************************************************************************)
EXTENDS ReliableQueue, Ticks_proof, FiniteSetTheorems, WellFoundedInduction

\* The constants of the queue as numbers.
LEMMA Constants ==
  /\ kMaxPendingTransmissions \in Nat /\ kMaxPendingTransmissions > 0
  /\ HalfRange \in Nat /\ HalfRange > 0 /\ timeout_ms \in Nat
  /\ timeout_ms <= HalfRange
  /\ TickModulus = 2 * HalfRange
  /\ max_attempts \in 1 .. 255
  /\ Forgotten = timeout_ms + HalfRange
  /\ 0 \in TickValue /\ TickValue \subseteq Nat
  /\ EmptyFrame \in Frame /\ EmptySlot \in Slot
<1>1. /\ HalfRange \in Nat /\ HalfRange > 0
      /\ timeout_ms \in Nat /\ timeout_ms <= HalfRange
      /\ kMaxPendingTransmissions \in Nat /\ kMaxPendingTransmissions > 0
  BY HalfRangeAssumption, PolicyAssumption
<1>2. max_attempts \in 1 .. 255
  BY PolicyAssumption DEF max_attempts
<1>3. 0 \in TickValue /\ TickValue \subseteq Nat /\ TickModulus = 2 * HalfRange
  BY <1>1 DEF TickValue, TickModulus
<1>4. EmptyFrame \in Frame
  BY FramesAssumption DEF EmptyFrame, Frame, Flags
<1>5. EmptySlot \in Slot
  BY <1>3, <1>4 DEF EmptySlot, Slot
<1>6. QED
  BY <1>1, <1>2, <1>3, <1>4, <1>5 DEF Forgotten

\* The flag that enqueue sets changes neither a frame's key nor its fit.
LEMMA MarkedFrame ==
  ASSUME NEW f \in Frame
  PROVE  /\ AckRequired(f) \in Frame
         /\ Key(AckRequired(f)) = Key(f)
         /\ FitsPayload(AckRequired(f)) <=> FitsPayload(f)
         /\ kFlagAckRequired \in AckRequired(f).flags
BY DEF AckRequired, Frame, Flags, Key, FitsPayload, kFlagAckRequired

(* The updates of a slot keep its type. *)
LEMMA SlotUpdates ==
  ASSUME NEW s \in Slot
  PROVE  /\ [s EXCEPT !.active = FALSE] \in Slot
         /\ \A n \in 0 .. 255, d \in TickValue :
              [s EXCEPT !.attempts = n, !.deadline_ms = d] \in Slot
BY DEF Slot

(* The first of a set of slots is one of them. *)
LEMMA FirstOfIsMember ==
  ASSUME NEW S \in SUBSET SlotIds, S # {}
  PROVE  FirstOf(S) \in S
<1>. DEFINE R == OpToRel(<, Nat)
<1>1. IsWellFoundedOn(R, Nat)
  BY NatLessThanWellFounded
<1>2. S \subseteq Nat
  BY Constants DEF SlotIds
<1>3. PICK i \in S : \A j \in S : <<j, i>> \notin R
  BY <1>1, <1>2, WFMin
<1>4. R = {ss \in Nat \X Nat : ss[1] < ss[2]}
  BY DEF OpToRel
<1>. HIDE DEF R
<1>5. ASSUME NEW j \in S PROVE i <= j
  <2>1. i \in Nat /\ j \in Nat
    BY <1>2
  <2>2. ~ (j < i)
    BY <1>3, <1>4, <2>1
  <2>3. QED
    BY <2>1, <2>2
<1>6. QED
  BY <1>5 DEF FirstOf
-----------------------------------------------------------------------------
(***************************************************************************)
(* The inductive invariant.  UniqueKeys needs PendingWellFormed only for   *)
(* the types; DeadlineTracksAge needs all of TypeOK, because it is about   *)
(* sums of ticks.                                                          *)
(***************************************************************************)

PendingWellFormed ==
  \A i \in Active : /\ kFlagAckRequired \in slots[i].frame.flags
                    /\ FitsPayload(slots[i].frame)
                    /\ slots[i].attempts <= max_attempts

SlotsOK ==
  /\ slots \in [SlotIds -> Slot]
  /\ now_ms \in TickValue
  /\ age \in [SlotIds -> 0 .. Forgotten]

Sound == SlotsOK /\ UniqueKeys /\ DeadlineTracksAge /\ PendingWellFormed

IInv == Sound /\ ret \in Result

\* The empty queue satisfies the invariant.
LEMMA InitSound == Init => IInv
<1>. SUFFICES ASSUME Init PROVE IInv
  OBVIOUS
<1>1. SlotsOK
  BY Constants DEF Init, SlotsOK
<1>2. Active = {}
  BY DEF Init, Active, EmptySlot
<1>3. ret \in Result
  BY DEF Init, Result
<1>4. QED
  BY <1>1, <1>2, <1>3 DEF IInv, Sound, UniqueKeys, DeadlineTracksAge, PendingWellFormed

(* An action that leaves the slots, the tick and the ages alone. *)
LEMMA UnchangedSound ==
  ASSUME Sound, UNCHANGED <<slots, now_ms, age>>
  PROVE  Sound'
BY DEF Sound, SlotsOK, UniqueKeys, DeadlineTracksAge, PendingWellFormed, Active, Wait

(* Releasing an active slot leaves what the others hold alone. *)
LEMMA ReleaseSound ==
  ASSUME Sound, NEW i \in SlotIds, Release(i), UNCHANGED now_ms
  PROVE  Sound'
<1>1. SlotsOK'
  <2>1. 0 \in 0 .. Forgotten
    BY Constants
  <2>2. [slots[i] EXCEPT !.active = FALSE] \in Slot
    BY SlotUpdates DEF Sound, SlotsOK
  <2>3. QED
    BY <2>1, <2>2 DEF Sound, SlotsOK, Release
<1>2. /\ Active' = Active \ {i}
      /\ \A j \in Active' : /\ slots'[j] = slots[j] /\ age'[j] = age[j]
                            /\ Wait(j)' = Wait(j)
  BY DEF Sound, SlotsOK, Release, Active, Slot, Wait
<1>3. QED
  BY <1>1, <1>2 DEF Sound, UniqueKeys, DeadlineTracksAge, PendingWellFormed

(* Filling a free slot with a frame that no active slot duplicates. *)
LEMMA EnqueueSound ==
  ASSUME Sound, NEW f \in Frame, EnqueueQueued(f)
  PROVE  Sound'
<1>1. PICK i \in SlotIds : i = FirstFree /\ i \notin Active
  <2>1. SlotIds \ Active \in SUBSET SlotIds /\ SlotIds \ Active # {}
    BY DEF EnqueueQueued, Active
  <2>2. QED
    BY <2>1, FirstOfIsMember DEF FirstFree
<1>2. SlotsOK'
  BY <1>1, Constants, MarkedFrame DEF Sound, SlotsOK, EnqueueQueued, Slot
<1>3. /\ Active' = Active \cup {i}
      /\ slots'[i] = [frame |-> AckRequired(f), deadline_ms |-> now_ms,
                      attempts |-> 0, active |-> TRUE]
      /\ age'[i] = 0 /\ now_ms' = now_ms
      /\ \A j \in Active : /\ j # i /\ slots'[j] = slots[j] /\ age'[j] = age[j]
                           /\ Wait(j)' = Wait(j)
  BY <1>1 DEF Sound, SlotsOK, EnqueueQueued, Active, Slot, Wait
<1>4. UniqueKeys'
  <2>1. \A j \in Active : Key(slots[j].frame) # Key(AckRequired(f))
    BY MarkedFrame DEF EnqueueQueued, Duplicate, Holds, Active
  <2>2. QED
    BY <2>1, <1>3 DEF Sound, UniqueKeys
<1>5. DeadlineTracksAge'
  <2>1. Wait(i)' = 0
    BY <1>3 DEF Wait
  <2>2. now_ms = Wrap(now_ms - 0 + 0)
    BY WrapNear, Constants DEF Sound, SlotsOK, TickValue
  <2>3. QED
    BY <2>1, <2>2, <1>3 DEF Sound, DeadlineTracksAge
<1>6. PendingWellFormed'
  BY <1>3, MarkedFrame, Constants DEF Sound, PendingWellFormed, EnqueueQueued
<1>7. QED
  BY <1>2, <1>4, <1>5, <1>6 DEF Sound

(* The first due slot is active. *)
LEMMA DueIsActive ==
  ASSUME Due # {}
  PROVE  FirstOf(Due) \in Active /\ FirstOf(Due) \in Due
BY FirstOfIsMember DEF Due, Active

(* Sending a frame dates its next transmission from now. *)
LEMMA SendSound ==
  ASSUME Sound, NextDueSend
  PROVE  Sound'
<1>1. PICK i \in SlotIds : i = FirstOf(Due) /\ i \in Active
  BY DueIsActive DEF NextDueSend, Active
<1>2. slots[i].attempts \in Nat /\ slots[i].attempts + 1 <= max_attempts
  <2>1. slots[i].attempts \in 0 .. 255
    BY <1>1 DEF Sound, SlotsOK, Slot
  <2>2. ~ (slots[i].attempts >= max_attempts)
    BY <1>1 DEF NextDueSend, LastAttemptMade
  <2>3. QED
    BY <2>1, <2>2, Constants
<1>3. NextDeadline(i) \in TickValue
  BY WrapType, Constants DEF NextDeadline, Sound, SlotsOK
<1>4. /\ slots' = [slots EXCEPT ![i].attempts = @ + 1, ![i].deadline_ms = NextDeadline(i)]
      /\ age' = [age EXCEPT ![i] = 0]
      /\ now_ms' = now_ms
  BY <1>1 DEF NextDueSend
<1>5. SlotsOK'
  <2>1. slots[i].attempts + 1 \in 0 .. 255 /\ 0 \in 0 .. Forgotten
    BY <1>2, Constants
  <2>2. [slots[i] EXCEPT !.attempts = slots[i].attempts + 1,
                         !.deadline_ms = NextDeadline(i)] \in Slot
    BY <2>1, <1>3, SlotUpdates DEF Sound, SlotsOK
  <2>3. slots' = [slots EXCEPT ![i] =
                    [slots[i] EXCEPT !.attempts = slots[i].attempts + 1,
                                     !.deadline_ms = NextDeadline(i)]]
    BY <1>4 DEF Sound, SlotsOK
  <2>4. QED
    BY <2>1, <2>2, <2>3, <1>4 DEF Sound, SlotsOK
<1>6. /\ Active' = Active
      /\ slots'[i].attempts = slots[i].attempts + 1
      /\ slots'[i].deadline_ms = NextDeadline(i)
      /\ age'[i] = 0
      /\ \A j \in Active : /\ slots'[j].frame = slots[j].frame
                           /\ j # i => /\ slots'[j] = slots[j] /\ age'[j] = age[j]
                                       /\ Wait(j)' = Wait(j)
  BY <1>1, <1>4 DEF Sound, SlotsOK, Active, Slot, Wait
<1>7. UniqueKeys'
  BY <1>6 DEF Sound, UniqueKeys
<1>8. DeadlineTracksAge'
  <2>1. Wait(i)' = timeout_ms
    BY <1>2, <1>6 DEF Wait
  <2>2. NextDeadline(i) = Wrap(now_ms - 0 + timeout_ms)
    BY Constants DEF NextDeadline, Sound, SlotsOK
  <2>3. QED
    BY <2>1, <2>2, <1>4, <1>6 DEF Sound, DeadlineTracksAge
<1>9. PendingWellFormed'
  BY <1>2, <1>6 DEF Sound, PendingWellFormed
<1>10. QED
  BY <1>5, <1>7, <1>8, <1>9 DEF Sound

(* A tick leaves every deadline where it is, though both sides of it move. *)
LEMMA TickSound ==
  ASSUME Sound, Tick
  PROVE  Sound'
<1>1. SlotsOK'
  <2>1. now_ms' \in TickValue
    BY WrapType, Constants DEF Tick, Sound, SlotsOK
  <2>2. QED
    BY <2>1, Constants DEF Tick, Sound, SlotsOK
<1>2. Active' = Active /\ slots' = slots
  BY DEF Tick, Active
<1>3. DeadlineTracksAge'
  <2>. SUFFICES ASSUME NEW i \in Active, age'[i] < Forgotten
                PROVE  slots[i].deadline_ms = Wrap(now_ms' - age'[i] + Wait(i))
    BY <1>2 DEF DeadlineTracksAge, Wait
  <2>1. i \in SlotIds /\ slots[i].active
    BY DEF Active
  <2>2. age[i] \in 0 .. Forgotten /\ now_ms \in TickValue
    BY <2>1 DEF Sound, SlotsOK
  <2>3. age[i] < Forgotten /\ age'[i] = age[i] + 1
    BY <2>1, <2>2, Constants DEF Tick
  <2>4. Wait(i) \in 0 .. timeout_ms
    BY Constants DEF Wait
  <2>5. slots[i].deadline_ms = Wrap(now_ms + (Wait(i) - age[i]))
    BY <2>2, <2>3, <2>4, Constants DEF Sound, DeadlineTracksAge
  <2>6. Wrap(Wrap(now_ms + 1) + (Wait(i) - age[i]) - 1) = Wrap(now_ms + (Wait(i) - age[i]))
    BY <2>2, <2>3, <2>4, Constants, WrapOfTheNextTick
  <2>7. now_ms' = Wrap(now_ms + 1) /\ now_ms' \in Int
    BY <1>1, Constants DEF Tick, SlotsOK
  <2>8. now_ms' - age'[i] + Wait(i) = Wrap(now_ms + 1) + (Wait(i) - age[i]) - 1
    BY <2>2, <2>3, <2>4, <2>7, Constants
  <2>9. QED
    BY <2>5, <2>6, <2>8
<1>4. QED
  BY <1>1, <1>2, <1>3 DEF Sound, UniqueKeys, PendingWellFormed

(* Emptying every slot. *)
LEMMA ClearSound ==
  ASSUME Sound, Clear
  PROVE  Sound'
<1>1. SlotsOK'
  BY Constants DEF Sound, SlotsOK, Clear
<1>2. Active' = {}
  BY DEF Clear, Active, EmptySlot
<1>3. QED
  BY <1>1, <1>2 DEF Sound, UniqueKeys, DeadlineTracksAge, PendingWellFormed

(* The slot whose key an acknowledge or a cancel names. *)
LEMMA HolderIsActive ==
  ASSUME NEW k, \E i \in SlotIds : Holds(i, k)
  PROVE  LET i == FirstOf({j \in SlotIds : Holds(j, k)})
         IN  i \in Active /\ Holds(i, k)
BY FirstOfIsMember DEF Holds, Active

(* What a call that hands out a frame returns. *)
LEMMA HandedOutFrameType ==
  ASSUME Sound, NEW i \in Active
  PROVE  /\ slots[i].frame \in Frame
         /\ slots[i].attempts \in 0 .. max_attempts
BY Constants DEF Sound, SlotsOK, PendingWellFormed, Slot, Active

\* Every step keeps the invariant.
LEMMA NextSound ==
  ASSUME IInv, [Next]_vars
  PROVE  IInv'
<1>1. CASE Tick
  BY <1>1, TickSound DEF IInv, Tick, Result
<1>2. ASSUME NEW f \in Frame, enqueue(f)
      PROVE  IInv'
  <2>1. CASE EnqueueInvalid(f)
    BY <2>1, UnchangedSound DEF IInv, EnqueueInvalid, Result
  <2>2. CASE EnqueueFull(f)
    BY <2>2, UnchangedSound DEF IInv, EnqueueFull, Result
  <2>3. CASE EnqueueQueued(f)
    BY <2>3, EnqueueSound DEF IInv, EnqueueQueued, Result
  <2>4. QED
    BY <1>2, <2>1, <2>2, <2>3 DEF enqueue
<1>3. CASE NextDueNone
  BY <1>3, UnchangedSound DEF IInv, NextDueNone, Result
<1>4. CASE NextDueSend
  <2>1. PICK i \in Active : i = FirstOf(Due)
    BY <1>4, DueIsActive DEF NextDueSend
  <2>2. slots[i].frame \in Frame /\ slots[i].attempts + 1 \in 0 .. 255
    <3>1. slots[i].frame \in Frame /\ slots[i].attempts \in 0 .. max_attempts
      BY <2>1, HandedOutFrameType DEF IInv
    <3>2. ~LastAttemptMade(i)
      BY <1>4, <2>1 DEF NextDueSend
    <3>3. max_attempts \in 1 .. 255
      BY Constants
    <3>4. slots[i].attempts < max_attempts
      BY <3>1, <3>2, <3>3 DEF LastAttemptMade
    <3>5. QED
      BY <3>1, <3>3, <3>4
  <2>3. ret' = [call |-> "next_due", action |-> "send",
                frame |-> slots[i].frame, attempts |-> slots[i].attempts + 1]
    BY <1>4, <2>1 DEF NextDueSend
  <2>4. ret' \in Result
    BY <2>2, <2>3 DEF Result
  <2>5. QED
    BY <1>4, <2>4, SendSound DEF IInv
<1>5. CASE NextDueExhausted
  <2>1. PICK i \in Active : i = FirstOf(Due)
    BY <1>5, DueIsActive DEF NextDueExhausted
  <2>2. slots[i].frame \in Frame /\ slots[i].attempts \in 0 .. 255
    BY HandedOutFrameType, Constants DEF IInv
  <2>3. /\ Release(i) /\ UNCHANGED now_ms
        /\ ret' = [call |-> "next_due", action |-> "exhausted",
                   frame |-> slots[i].frame, attempts |-> slots[i].attempts]
    BY <1>5, <2>1 DEF NextDueExhausted
  <2>4. ret' \in Result
    BY <2>2, <2>3 DEF Result
  <2>5. QED
    BY <2>3, <2>4, ReleaseSound DEF IInv, Active
<1>6. ASSUME NEW k \in NodeIds \X Sequences, cancel(k)
      PROVE  IInv'
  <2>1. CASE CancelFound(k)
    BY <2>1, HolderIsActive, ReleaseSound DEF IInv, CancelFound, Result, Active
  <2>2. CASE CancelNotFound(k)
    BY <2>2, UnchangedSound DEF IInv, CancelNotFound, Result
  <2>3. QED
    BY <1>6, <2>1, <2>2 DEF cancel
<1>7. ASSUME NEW k \in NodeIds \X Sequences, NEW s \in AckStatus, acknowledge(k, s)
      PROVE  IInv'
  <2>1. CASE AcknowledgeFound(k, s)
    BY <2>1, HolderIsActive, ReleaseSound DEF IInv, AcknowledgeFound, Result, Active
  <2>2. CASE AcknowledgeNotFound(k)
    BY <2>2, UnchangedSound DEF IInv, AcknowledgeNotFound, Result
  <2>3. QED
    BY <1>7, <2>1, <2>2 DEF acknowledge
<1>8. CASE Clear
  BY <1>8, ClearSound DEF IInv, Clear, Result
<1>9. CASE UNCHANGED vars
  BY <1>9, UnchangedSound DEF IInv, vars, Result
<1>10. QED
  BY <1>1, <1>2, <1>3, <1>4, <1>5, <1>6, <1>7, <1>8, <1>9 DEF Next, next_due

\* The invariant holds in every state of the queue.
THEOREM InductiveInvariant == Spec => []IInv
<1>1. Init => IInv
  BY InitSound
<1>2. IInv /\ [Next]_vars => IInv'
  BY NextSound
<1>3. QED
  BY <1>1, <1>2, PTL DEF Spec

-----------------------------------------------------------------------------

(***************************************************************************)
(* Every deadline stays a tick and every attempt counter a uint8_t.        *)
(***************************************************************************)
THEOREM TypeCorrect == Spec => []TypeOK
<1>1. IInv => TypeOK
  BY DEF IInv, Sound, SlotsOK, TypeOK
<1>2. QED
  BY <1>1, InductiveInvariant, PTL

(***************************************************************************)
(* No two active slots ever hold the same node and sequence.               *)
(***************************************************************************)
THEOREM KeysAreUnique == Spec => []UniqueKeys
<1>1. IInv => UniqueKeys
  BY DEF IInv, Sound
<1>2. QED
  BY <1>1, InductiveInvariant, PTL

(***************************************************************************)
(* A wrapped deadline always stands for the true time since the last send. *)
(***************************************************************************)
THEOREM DeadlinesTrackAges == Spec => []DeadlineTracksAge
<1>1. IInv => DeadlineTracksAge
  BY DEF IInv, Sound
<1>2. QED
  BY <1>1, InductiveInvariant, PTL

-----------------------------------------------------------------------------
(***************************************************************************)
(* ReliableQueue implements RetryService: each of its actions is the       *)
(* action of the same name on the pending frames, read through the slots.  *)
(***************************************************************************)

KeyAt(i) == Key(slots[i].frame)

(* Pending maps the key of each active slot to its entry, and nothing else. *)
PendingMirrorsSlots ==
  /\ DOMAIN Pending = PendingKeys
  /\ \A i \in Active : KeyAt(i) \in PendingKeys /\ Pending[KeyAt(i)] = Entry(i)
  /\ \A k \in PendingKeys : \E i \in Active : k = KeyAt(i)

\* Where no key occurs twice, what is pending under a key is what its slot holds.
LEMMA PendingLookup == UniqueKeys => PendingMirrorsSlots
<1>. SUFFICES ASSUME UniqueKeys PROVE PendingMirrorsSlots
  OBVIOUS
<1>1. DOMAIN Pending = PendingKeys
  BY DEF Pending
<1>2. ASSUME NEW i \in Active
      PROVE  KeyAt(i) \in PendingKeys /\ Pending[KeyAt(i)] = Entry(i)
  <2>1. KeyAt(i) \in PendingKeys
    BY DEF KeyAt, PendingKeys
  <2>2. SlotOf(KeyAt(i)) = i
    BY DEF SlotOf, KeyAt, UniqueKeys
  <2>3. QED
    BY <2>1, <2>2 DEF Pending
<1>3. QED
  BY <1>1, <1>2 DEF PendingMirrorsSlots, KeyAt, PendingKeys

\* The same before and after a step.
LEMMA PendingLookupInBothStates ==
  ASSUME Sound, Sound'
  PROVE  PendingMirrorsSlots /\ PendingMirrorsSlots'
<1>1. UniqueKeys /\ UniqueKeys'
  BY DEF Sound
<1>2. QED
  BY <1>1, PendingLookup, PTL

-----------------------------------------------------------------------------

(***************************************************************************)
(* What a step does to Pending, from what it does to the slots.            *)
(***************************************************************************)

(* The slots and ages of the active slots are what they were. *)
LEMMA PendingUnchanged ==
  ASSUME UNCHANGED <<slots, age>>
  PROVE  Pending' = Pending
BY DEF Pending, PendingKeys, SlotOf, Entry, Active

(* One active slot is released. *)
LEMMA PendingRelease ==
  ASSUME Sound, Sound', NEW i \in Active, Release(i)
  PROVE  Pending' = Retry!Without(KeyAt(i))
<1>1. /\ Active' = Active \ {i}
      /\ \A j \in Active' : Entry(j)' = Entry(j) /\ KeyAt(j)' = KeyAt(j)
  BY DEF Sound, SlotsOK, Release, Active, Slot, Entry, KeyAt
<1>2. PendingMirrorsSlots /\ PendingMirrorsSlots'
  BY PendingLookupInBothStates
<1>3. \A j \in Active : KeyAt(j) = KeyAt(i) <=> j = i
  BY DEF Sound, UniqueKeys, KeyAt
<1>4. PendingKeys' = PendingKeys \ {KeyAt(i)}
  BY <1>1, <1>2, <1>3 DEF PendingMirrorsSlots
<1>5. \A k \in PendingKeys' : Pending'[k] = Pending[k]
  BY <1>1, <1>2 DEF PendingMirrorsSlots
<1>6. Pending' = [k \in PendingKeys' |-> Pending'[k]]
  BY DEF Pending
<1>7. QED
  BY <1>2, <1>4, <1>5, <1>6 DEF Retry!Without, PendingMirrorsSlots

(***************************************************************************)
(* One slot holds a new entry, the other active slots what they held; the  *)
(* slot may have been free, or have held the same key.                     *)
(***************************************************************************)
LEMMA PendingWith ==
  ASSUME Sound, Sound', NEW i \in SlotIds, NEW k, NEW e,
         Active' = Active \cup {i}, KeyAt(i)' = k, Entry(i)' = e,
         i \in Active => KeyAt(i) = k,
         \A j \in Active : j # i => Entry(j)' = Entry(j) /\ KeyAt(j)' = KeyAt(j)
  PROVE  Pending' = Retry!With(k, e)
<1>1. PendingMirrorsSlots /\ PendingMirrorsSlots'
  BY PendingLookupInBothStates
<1>2. PendingKeys' = PendingKeys \cup {k}
  BY <1>1 DEF PendingMirrorsSlots
<1>3. Pending'[k] = e
  BY <1>1 DEF PendingMirrorsSlots
<1>4. \A l \in PendingKeys' : l # k => Pending'[l] = Pending[l]
  BY <1>1 DEF PendingMirrorsSlots
<1>5. Pending' = [l \in PendingKeys' |-> Pending'[l]]
  BY DEF Pending
<1>6. QED
  BY <1>1, <1>2, <1>3, <1>4, <1>5 DEF Retry!With, PendingMirrorsSlots

-----------------------------------------------------------------------------
(***************************************************************************)
(* The guards of RetryService, from the guards of the code.                *)
(***************************************************************************)

\* A key is pending exactly if a slot holds it.
LEMMA HeldIsPending ==
  ASSUME Sound, NEW k
  PROVE  (\E i \in SlotIds : Holds(i, k)) <=> k \in DOMAIN Pending
<1>1. PendingMirrorsSlots
  BY PendingLookup DEF Sound
<1>2. QED
  BY <1>1 DEF PendingMirrorsSlots, Holds, KeyAt, Active

\* The slot a search finds holds the key it was looking for.
LEMMA HolderHasKey ==
  ASSUME NEW k, \E i \in SlotIds : Holds(i, k)
  PROVE  \E i \in Active : /\ i = FirstOf({j \in SlotIds : Holds(j, k)})
                           /\ KeyAt(i) = k
BY HolderIsActive DEF Holds, KeyAt

(* As many frames are pending as slots are active. *)
LEMMA PendingFillsSlots ==
  ASSUME Sound
  PROVE  /\ Active = SlotIds => Cardinality(DOMAIN Pending) = kMaxPendingTransmissions
         /\ Active # SlotIds => Cardinality(DOMAIN Pending) < kMaxPendingTransmissions
<1>. DEFINE g == [i \in Active |-> KeyAt(i)]
<1>1. PendingMirrorsSlots
  BY PendingLookup DEF Sound
<1>2. IsFiniteSet(SlotIds) /\ Cardinality(SlotIds) = kMaxPendingTransmissions
  <2>1. kMaxPendingTransmissions - 1 \in Int /\ 0 \in Int
    BY Constants
  <2>2. /\ IsFiniteSet(0 .. kMaxPendingTransmissions - 1)
        /\ Cardinality(0 .. kMaxPendingTransmissions - 1)
             = IF 0 > kMaxPendingTransmissions - 1 THEN 0
               ELSE (kMaxPendingTransmissions - 1) - 0 + 1
    BY <2>1, FS_Interval
  <2>3. QED
    BY <2>2, Constants DEF SlotIds
<1>3. Active \in SUBSET SlotIds
  BY DEF Active
<1>4. /\ IsFiniteSet(Active) /\ Cardinality(Active) <= Cardinality(SlotIds)
      /\ Cardinality(SlotIds) = Cardinality(Active) => SlotIds = Active
  BY <1>2, <1>3, FS_Subset
<1>5. ExistsBijection(Active, PendingKeys)
  <2>1. g \in Surjection(Active, PendingKeys)
    BY <1>1 DEF Surjection, PendingMirrorsSlots
  <2>2. g \in Injection(Active, PendingKeys)
    BY <2>1 DEF Surjection, Injection, IsInjective, Sound, UniqueKeys, KeyAt
  <2>3. QED
    BY <2>1, <2>2 DEF ExistsBijection, Bijection
<1>6. Cardinality(PendingKeys) = Cardinality(Active)
  BY <1>4, <1>5, FS_Bijection
<1>7. Cardinality(Active) \in Nat
  BY <1>4, FS_CardinalityType
<1>8. QED
  BY <1>1, <1>2, <1>4, <1>6, <1>7, Constants DEF PendingMirrorsSlots

(***************************************************************************)
(* A deadline that looks reached is past, and one that is past by less     *)
(* than half the tick range looks reached.                                 *)
(***************************************************************************)
LEMMA DueAgrees ==
  ASSUME Sound, NEW i \in Active
  PROVE  /\ i \in Due => Retry!IsDue(Entry(i))
         /\ Retry!IsSurelyDue(Entry(i)) => i \in Due
<1>1. /\ age[i] \in 0 .. Forgotten /\ now_ms \in TickValue
      /\ Wait(i) \in {0, timeout_ms} /\ Wait(i) \in 0 .. HalfRange
  BY Constants DEF Sound, SlotsOK, Active, Wait
<1>2. /\ Retry!IsDue(Entry(i)) <=> age[i] >= Wait(i)
      /\ Retry!IsSurelyDue(Entry(i)) <=> age[i] >= Wait(i) /\ age[i] < Wait(i) + HalfRange
  BY DEF Retry!IsDue, Retry!IsSurelyDue, Retry!Wait, Entry, Wait
<1>3. CASE age[i] < Wait(i) + HalfRange
  <2>1. age[i] < Forgotten /\ age[i] \in Nat
    BY <1>1, <1>3, Constants
  <2>2. slots[i].deadline_ms = Wrap(now_ms - age[i] + Wait(i))
    BY <2>1 DEF Sound, DeadlineTracksAge
  <2>3. deadline_reached(now_ms, slots[i].deadline_ms) <=> age[i] >= Wait(i)
    BY <1>1, <1>3, <2>1, <2>2, DeadlineReachedIffPast
  <2>4. QED
    BY <1>2, <2>3 DEF Due
<1>4. CASE ~ (age[i] < Wait(i) + HalfRange)
  BY <1>1, <1>2, <1>4, Constants
<1>5. QED
  BY <1>3, <1>4

-----------------------------------------------------------------------------
(***************************************************************************)
(* The steps.                                                              *)
(***************************************************************************)

(* Both specifications read frames alike. *)
LEMMA SameFrames ==
  /\ Retry!Frame = Frame /\ Retry!AckStatus = AckStatus
  /\ \A f : /\ Retry!Key(f) = Key(f)
            /\ Retry!FitsPayload(f) <=> FitsPayload(f)
            /\ Retry!AckRequired(f) = AckRequired(f)
<1>1. Retry!Frame = Frame /\ Retry!AckStatus = AckStatus
  BY DEF Retry!Frame, Frame, Retry!Flags, Flags, Retry!kFlagAckRequired, kFlagAckRequired,
         Retry!AckStatus, AckStatus
<1>2. \A f : Retry!Key(f) = Key(f) /\ (Retry!FitsPayload(f) <=> FitsPayload(f))
  BY DEF Retry!Key, Key, Retry!FitsPayload, FitsPayload
<1>3. \A f : Retry!AckRequired(f) = AckRequired(f)
  BY DEF Retry!AckRequired, AckRequired, Retry!kFlagAckRequired, kFlagAckRequired
<1>4. QED
  BY <1>1, <1>2, <1>3

\* The service counts as the queue does.
LEMMA SameCardinality ==
  ASSUME NEW S
  PROVE  Retry!Cardinality(S) = Cardinality(S)
BY DEF Retry!Cardinality, Cardinality

\* A tick is a tick of the service.
LEMMA TickRefines ==
  ASSUME Sound, Sound', Tick
  PROVE  Retry!Tick
<1>1. slots' = slots /\ Active' = Active /\ PendingKeys' = PendingKeys
  BY DEF Tick, Active, PendingKeys
<1>2. PendingMirrorsSlots /\ PendingMirrorsSlots'
  BY PendingLookupInBothStates
<1>3. ASSUME NEW i \in Active
      PROVE  Entry(i)' = [Entry(i) EXCEPT !.age = IF @ < Forgotten THEN @ + 1 ELSE @]
  BY <1>1 DEF Tick, Entry, Active
<1>4. \A k \in PendingKeys :
        Pending'[k] = [Pending[k] EXCEPT !.age = IF @ < Forgotten THEN @ + 1 ELSE @]
  BY <1>1, <1>2, <1>3 DEF PendingMirrorsSlots, KeyAt
<1>5. Pending' = [k \in PendingKeys |-> Pending'[k]]
  BY <1>1 DEF Pending
<1>6. Retry!Forgotten = Forgotten
  BY DEF Retry!Forgotten, Forgotten
<1>7. QED
  BY <1>2, <1>4, <1>5, <1>6 DEF Retry!Tick, Tick, PendingMirrorsSlots

\* enqueue is one of the service's three answers to a frame.
LEMMA EnqueueRefines ==
  ASSUME Sound, Sound', NEW f \in Frame, enqueue(f)
  PROVE  Retry!EnqueueInvalid(f) \/ Retry!EnqueueFull(f) \/ Retry!EnqueueQueued(f)
<1>1. Duplicate(f) <=> Retry!Key(f) \in DOMAIN Pending
  BY HeldIsPending, SameFrames DEF Duplicate
<1>2. CASE EnqueueInvalid(f)
  <2>1. ~Retry!FitsPayload(f) \/ Retry!Key(f) \in DOMAIN Pending
    BY <1>1, <1>2, SameFrames DEF EnqueueInvalid
  <2>2. Pending' = Pending
    BY <1>2, PendingUnchanged DEF EnqueueInvalid
  <2>3. ret' = [call |-> "enqueue", result |-> "invalid"]
    BY <1>2 DEF EnqueueInvalid
  <2>4. QED
    BY <2>1, <2>2, <2>3 DEF Retry!EnqueueInvalid
<1>3. CASE EnqueueFull(f)
  BY <1>1, <1>3, PendingUnchanged, PendingFillsSlots, SameFrames, SameCardinality
  DEF EnqueueFull, Retry!EnqueueFull
<1>4. CASE EnqueueQueued(f)
  <2>. DEFINE e == [frame |-> AckRequired(f), attempts |-> 0, age |-> 0]
  <2>1. PICK i \in SlotIds : i = FirstFree /\ i \notin Active
    <3>1. SlotIds \ Active \in SUBSET SlotIds /\ SlotIds \ Active # {}
      BY <1>4 DEF EnqueueQueued, Active
    <3>2. QED
      BY <3>1, FirstOfIsMember DEF FirstFree
  <2>2. /\ Active' = Active \cup {i}
        /\ KeyAt(i)' = Key(f) /\ Entry(i)' = e
        /\ \A j \in Active : j # i => Entry(j)' = Entry(j) /\ KeyAt(j)' = KeyAt(j)
    BY <1>4, <2>1, MarkedFrame
    DEF Sound, SlotsOK, EnqueueQueued, Active, Slot, Entry, KeyAt
  <2>3. Pending' = Retry!With(Key(f), e)
    BY <2>1, <2>2, PendingWith
  <2>4. Retry!AckRequired(f) = AckRequired(f) /\ Retry!Key(f) = Key(f)
    BY SameFrames
  <2>5. Retry!FitsPayload(f) /\ Retry!Key(f) \notin DOMAIN Pending
    BY <1>1, <1>4, SameFrames DEF EnqueueQueued
  <2>6. Retry!Cardinality(DOMAIN Pending) < kMaxPendingTransmissions
    BY <1>4, PendingFillsSlots, SameCardinality DEF EnqueueQueued
  <2>7. ret' = [call |-> "enqueue", result |-> "queued"]
    BY <1>4 DEF EnqueueQueued
  <2>8. QED
    BY <2>3, <2>4, <2>5, <2>6, <2>7 DEF Retry!EnqueueQueued
<1>5. QED
  BY <1>2, <1>3, <1>4 DEF enqueue

\* The normalised policy has a send left exactly when the service has one.
LEMMA SendsLeftAgree ==
  ASSUME Sound, NEW i \in Active
  PROVE  LastAttemptMade(i) <=> ~Retry!HasSendLeft(Entry(i))
<1>1. slots[i].attempts \in 0 .. max_attempts /\ policy_max_attempts \in 0 .. 255
  BY HandedOutFrameType, PolicyAssumption
<1>2. Entry(i).attempts = slots[i].attempts
  BY DEF Entry
<1>3. QED
  BY <1>1, <1>2 DEF LastAttemptMade, max_attempts, Retry!HasSendLeft

\* next_due is a transmission, an exhaustion or nothing.
LEMMA NextDueRefines ==
  ASSUME Sound, Sound', next_due
  PROVE  \/ \E k \in DOMAIN Pending : Retry!Send(k) \/ Retry!Exhaust(k)
         \/ Retry!NothingDue
<1>1. PendingMirrorsSlots
  BY PendingLookup DEF Sound
<1>2. CASE NextDueNone
  <2>1. \A i \in Active : ~ Retry!IsSurelyDue(Entry(i))
    BY <1>2, DueAgrees DEF NextDueNone
  <2>2. \A k \in DOMAIN Pending : ~ Retry!IsSurelyDue(Pending[k])
    BY <1>1, <2>1 DEF PendingMirrorsSlots
  <2>3. QED
    BY <1>2, <2>2, PendingUnchanged DEF NextDueNone, Retry!NothingDue
<1>3. CASE NextDueSend
  <2>1. PICK i \in Active : i = FirstOf(Due) /\ i \in Due
    BY <1>3, DueIsActive DEF NextDueSend
  <2>2. i \in SlotIds
    BY DEF Active
  <2>. DEFINE n == slots[i].attempts + 1
              e == [frame |-> slots[i].frame, attempts |-> n, age |-> 0]
  <2>3. Retry!IsDue(Entry(i)) /\ Retry!HasSendLeft(Entry(i))
    BY <1>3, <2>1, DueAgrees, SendsLeftAgree DEF NextDueSend
  <2>4. /\ Active' = Active
        /\ KeyAt(i)' = KeyAt(i) /\ Entry(i)' = e
        /\ \A j \in Active : j # i => Entry(j)' = Entry(j) /\ KeyAt(j)' = KeyAt(j)
    <3>1. /\ slots' = [slots EXCEPT ![i].attempts = n, ![i].deadline_ms = NextDeadline(i)]
          /\ age' = [age EXCEPT ![i] = 0]
      BY <1>3, <2>1 DEF NextDueSend
    <3>2. /\ slots'[i].active = slots[i].active /\ slots'[i].frame = slots[i].frame
          /\ slots'[i].attempts = n /\ age'[i] = 0
          /\ \A j \in SlotIds : j # i => slots'[j] = slots[j] /\ age'[j] = age[j]
      BY <2>2, <3>1 DEF Sound, SlotsOK, Slot
    <3>3. Active' = Active
      BY <2>2, <3>2 DEF Active
    <3>4. Entry(i)' = e
      BY <3>2 DEF Entry
    <3>5. QED
      BY <3>2, <3>3, <3>4 DEF Entry, KeyAt, Active
  <2>5. Pending' = Retry!With(KeyAt(i), e)
    BY <2>2, <2>4, PendingWith
  <2>6. KeyAt(i) \in DOMAIN Pending /\ Pending[KeyAt(i)] = Entry(i)
    BY <1>1 DEF PendingMirrorsSlots
  <2>7. ret' = [call |-> "next_due", action |-> "send",
                frame |-> slots[i].frame, attempts |-> n]
    BY <1>3, <2>1 DEF NextDueSend
  <2>8. Retry!Send(KeyAt(i))
    <3>1. Entry(i).attempts = slots[i].attempts /\ Entry(i).frame = slots[i].frame
      BY DEF Entry
    <3>2. QED
      BY <2>3, <2>5, <2>6, <2>7, <3>1 DEF Retry!Send
  <2>9. QED
    BY <2>6, <2>8
<1>4. CASE NextDueExhausted
  <2>1. PICK i \in Active : i = FirstOf(Due) /\ i \in Due
    BY <1>4, DueIsActive DEF NextDueExhausted
  <2>2. Retry!IsDue(Entry(i)) /\ ~Retry!HasSendLeft(Entry(i))
    BY <1>4, <2>1, DueAgrees, SendsLeftAgree DEF NextDueExhausted
  <2>3. /\ Release(i)
        /\ ret' = [call |-> "next_due", action |-> "exhausted",
                   frame |-> slots[i].frame, attempts |-> slots[i].attempts]
    BY <1>4, <2>1 DEF NextDueExhausted
  <2>4. Pending' = Retry!Without(KeyAt(i))
    BY <2>3, PendingRelease
  <2>5. KeyAt(i) \in DOMAIN Pending /\ Pending[KeyAt(i)] = Entry(i)
    BY <1>1 DEF PendingMirrorsSlots
  <2>6. Retry!Exhaust(KeyAt(i))
    BY <2>2, <2>3, <2>4, <2>5 DEF Retry!Exhaust, Entry
  <2>7. QED
    BY <2>5, <2>6
<1>5. QED
  BY <1>2, <1>3, <1>4 DEF next_due

(* A key that is not pending: removing it changes nothing. *)
LEMMA WithoutAbsentKey ==
  ASSUME NEW k, k \notin DOMAIN Pending
  PROVE  Retry!Without(k) = Pending
<1>1. DOMAIN Pending \ {k} = DOMAIN Pending
  OBVIOUS
<1>2. Pending = [j \in DOMAIN Pending |-> Pending[j]]
  BY DEF Pending
<1>3. QED
  BY <1>1, <1>2 DEF Retry!Without

\* Releasing a key's slot takes that key from what is pending, and no other.
LEMMA ReleasingTheHolder ==
  ASSUME Sound, Sound', NEW k, \E i \in SlotIds : Holds(i, k),
         Release(FirstOf({i \in SlotIds : Holds(i, k)}))
  PROVE  Pending' = Retry!Without(k)
<1>1. PICK i \in Active : /\ i = FirstOf({j \in SlotIds : Holds(j, k)})
                          /\ KeyAt(i) = k
  BY HolderHasKey
<1>2. QED
  BY <1>1, PendingRelease

\* cancel is the service's.
LEMMA CancelRefines ==
  ASSUME Sound, Sound', NEW k, cancel(k)
  PROVE  Retry!Cancel(k)
<1>1. CASE CancelFound(k)
  <2>1. Pending' = Retry!Without(k)
    BY <1>1, ReleasingTheHolder DEF CancelFound
  <2>2. (k \in DOMAIN Pending) = TRUE
    BY <1>1, HeldIsPending DEF CancelFound
  <2>3. QED
    BY <1>1, <2>1, <2>2 DEF CancelFound, Retry!Cancel
<1>2. CASE CancelNotFound(k)
  <2>1. Pending' = Retry!Without(k)
    BY <1>2, PendingUnchanged, WithoutAbsentKey, HeldIsPending DEF CancelNotFound
  <2>2. (k \in DOMAIN Pending) = FALSE
    BY <1>2, HeldIsPending DEF CancelNotFound
  <2>3. QED
    BY <1>2, <2>1, <2>2 DEF CancelNotFound, Retry!Cancel
<1>3. QED
  BY <1>1, <1>2 DEF cancel

\* acknowledge is the service's.
LEMMA AcknowledgeRefines ==
  ASSUME Sound, Sound', NEW k, NEW s, acknowledge(k, s)
  PROVE  Retry!Acknowledge(k, s)
<1>1. CASE AcknowledgeFound(k, s)
  BY <1>1, ReleasingTheHolder, HeldIsPending DEF AcknowledgeFound, Retry!Acknowledge
<1>2. CASE AcknowledgeNotFound(k)
  BY <1>2, PendingUnchanged, WithoutAbsentKey, HeldIsPending
  DEF AcknowledgeNotFound, Retry!Acknowledge
<1>3. QED
  BY <1>1, <1>2 DEF acknowledge

\* clear is the service's.
LEMMA ClearRefines ==
  ASSUME Clear
  PROVE  Retry!Clear
<1>1. PendingKeys' = {}
  BY DEF Clear, PendingKeys, Active, EmptySlot
<1>2. Pending' = [k \in {} |-> 0]
  BY <1>1 DEF Pending
<1>3. QED
  BY <1>2 DEF Clear, Retry!Clear

\* There is a frame for every key.
LEMMA EveryKeyHasAFrame ==
  ASSUME NEW k \in NodeIds \X Sequences
  PROVE  \E f \in Frame : Key(f) = k
<1>. DEFINE f == [node_id |-> k[1], sequence |-> k[2], flags |-> {}, payload_length |-> 0]
<1>1. f \in Frame
  BY FramesAssumption DEF Frame, Flags
<1>2. Key(f) = k
  BY DEF Key
<1>3. QED
  BY <1>1, <1>2

(***************************************************************************)
(* ReliableQueue implements RetryService: for every number of slots, every *)
(* retry policy and every width of the tick, whatever the calls and their  *)
(* times, the queue keeps each promise of RetryService.                    *)
(***************************************************************************)
THEOREM QueueIsRetryService == Spec => RetrySpec
<1>1. Init => Retry!Init
  <2>. SUFFICES ASSUME Init PROVE Retry!Init
    OBVIOUS
  <2>1. PendingKeys = {}
    BY DEF Init, PendingKeys, Active, EmptySlot
  <2>2. Pending = [k \in {} |-> 0]
    BY <2>1 DEF Pending
  <2>3. QED
    BY <2>2 DEF Init, Retry!Init
<1>2. IInv /\ IInv' /\ [Next]_vars => [Retry!Next]_(Retry!vars)
  <2>. SUFFICES ASSUME IInv, IInv', [Next]_vars
                PROVE  [Retry!Next]_(Retry!vars)
    OBVIOUS
  <2>. USE DEF IInv
  <2>1. CASE Tick
    BY <2>1, TickRefines DEF Retry!Next
  <2>2. ASSUME NEW f \in Frame, enqueue(f)
        PROVE  Retry!Next
    BY <2>2, EnqueueRefines, SameFrames DEF Retry!Next
  <2>3. CASE next_due
    BY <2>3, NextDueRefines DEF Retry!Next
  <2>4. ASSUME NEW k \in NodeIds \X Sequences, cancel(k)
        PROVE  Retry!Next
    BY <2>4, CancelRefines, EveryKeyHasAFrame, SameFrames DEF Retry!Next
  <2>5. ASSUME NEW k \in NodeIds \X Sequences, NEW s \in AckStatus, acknowledge(k, s)
        PROVE  Retry!Next
    BY <2>5, AcknowledgeRefines, EveryKeyHasAFrame, SameFrames DEF Retry!Next
  <2>6. CASE Clear
    BY <2>6, ClearRefines DEF Retry!Next
  <2>7. CASE UNCHANGED vars
    BY <2>7, PendingUnchanged DEF vars, Retry!vars
  <2>8. QED
    BY <2>1, <2>2, <2>3, <2>4, <2>5, <2>6, <2>7 DEF Next
<1>3. QED
  BY <1>1, <1>2, InductiveInvariant, PTL DEF Spec, RetrySpec, Retry!Spec
==============================================================================
