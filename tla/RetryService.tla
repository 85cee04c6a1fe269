----------------------------- MODULE RetryService -----------------------------
(***************************************************************************)
(* What a retry queue promises, with no slots and no clock arithmetic: a   *)
(* bounded set of pending frames, each under its node and sequence, each   *)
(* with the number of times it was sent and the time since it was queued   *)
(* or last sent.  ReliableQueue implements this specification.             *)
(***************************************************************************)
EXTENDS Frames, FiniteSets

CONSTANTS
  Capacity,      \* how many frames may be pending
  Timeout,       \* the time between two sends of a frame
  MaxAttempts,   \* the sends the application asks for, which may be none
  Window         \* how long a due frame is sure to be recognised as due

VARIABLES
  pending,       \* the pending frames, by key
  ret            \* what the call made by the last step returned

vars == <<pending, ret>>

\* The time since a frame was queued or sent is not told apart beyond this.
Forgotten == Timeout + Window

\* A frame never sent is due at once, any other one Timeout after its last send.
Wait(entry) == IF entry.attempts = 0 THEN 0 ELSE Timeout

IsDue(entry) == entry.age >= Wait(entry)

IsSurelyDue(entry) == IsDue(entry) /\ entry.age < Wait(entry) + Window

Without(k) == [j \in DOMAIN pending \ {k} |-> pending[j]]

With(k, entry) ==
  [j \in DOMAIN pending \cup {k} |-> IF j = k THEN entry ELSE pending[j]]

-----------------------------------------------------------------------------

Init == /\ pending = [k \in {} |-> 0]
        /\ ret = [call |-> "none"]

\* Time passes for every pending frame.
Tick ==
  /\ pending' = [k \in DOMAIN pending |->
                   [pending[k] EXCEPT !.age = IF @ < Forgotten THEN @ + 1 ELSE @]]
  /\ ret' = [call |-> "none"]

\* A frame is refused when it is oversized or its key is already pending.
EnqueueInvalid(f) ==
  /\ ~FitsPayload(f) \/ Key(f) \in DOMAIN pending
  /\ ret' = [call |-> "enqueue", result |-> "invalid"]
  /\ UNCHANGED pending

\* A good frame is refused only when Capacity frames are pending.
EnqueueFull(f) ==
  /\ FitsPayload(f) /\ Key(f) \notin DOMAIN pending
  /\ Cardinality(DOMAIN pending) = Capacity
  /\ ret' = [call |-> "enqueue", result |-> "full"]
  /\ UNCHANGED pending

EnqueueQueued(f) ==
  /\ FitsPayload(f) /\ Key(f) \notin DOMAIN pending
  /\ Cardinality(DOMAIN pending) < Capacity
  /\ pending' = With(Key(f), [frame |-> AckRequired(f), attempts |-> 0, age |-> 0])
  /\ ret' = [call |-> "enqueue", result |-> "queued"]

\* Every frame is sent once, whatever the application asks for.
HasSendLeft(entry) == entry.attempts = 0 \/ entry.attempts < MaxAttempts

\* A frame is sent when it is due and has a send left.
Send(k) ==
  /\ IsDue(pending[k]) /\ HasSendLeft(pending[k])
  /\ LET n == pending[k].attempts + 1
     IN /\ pending' = With(k, [frame |-> pending[k].frame, attempts |-> n, age |-> 0])
        /\ ret' = [call |-> "next_due", action |-> "send",
                   frame |-> pending[k].frame, attempts |-> n]

\* A frame is given up a full Timeout after its last send.
Exhaust(k) ==
  /\ IsDue(pending[k]) /\ ~HasSendLeft(pending[k])
  /\ pending' = Without(k)
  /\ ret' = [call |-> "next_due", action |-> "exhausted",
             frame |-> pending[k].frame, attempts |-> pending[k].attempts]

\* "None" means that no frame is surely due.
NothingDue ==
  /\ \A k \in DOMAIN pending : ~IsSurelyDue(pending[k])
  /\ ret' = [call |-> "next_due", action |-> "none"]
  /\ UNCHANGED pending

\* An acknowledgement removes exactly the frame it names, if pending.
Acknowledge(k, status) ==
  /\ pending' = Without(k)
  /\ ret' = [call |-> "acknowledge",
             result |-> IF k \notin DOMAIN pending THEN "not_found"
                        ELSE IF status = "accepted" THEN "accepted"
                        ELSE "rejected"]

Cancel(k) ==
  /\ pending' = Without(k)
  /\ ret' = [call |-> "cancel", result |-> k \in DOMAIN pending]

Clear ==
  /\ pending' = [k \in {} |-> 0]
  /\ ret' = [call |-> "clear"]

Next ==
  \/ Tick
  \/ \E f \in Frame : EnqueueInvalid(f) \/ EnqueueFull(f) \/ EnqueueQueued(f)
  \/ \E k \in DOMAIN pending : Send(k) \/ Exhaust(k)
  \/ NothingDue
  \/ \E f \in Frame : Cancel(Key(f)) \/ \E s \in AckStatus : Acknowledge(Key(f), s)
  \/ Clear

Spec == Init /\ [][Next]_vars
==============================================================================
