-------------------------- MODULE SequencedLink_proof --------------------------
(***************************************************************************)
(* A SequenceTracker and the log summary classify the frames of a link by  *)
(* their true order, for every number of sequence numbers and any number   *)
(* of turns of them.                                                       *)
(***************************************************************************)
EXTENDS SequencedLink, TLAPS

M == SequenceModulus

\* A node's next sequence number is the count of its frames, wrapped.
Numbered == \A n \in Senders : sequence_number[n] = sent[n] % M

(***************************************************************************)
(* The tracker remembers the number of the frame accepted last, which came *)
(* after the one accepted before it.                                       *)
(***************************************************************************)
Tracked ==
  \A n \in Senders :
    /\ accepted[n] <= sent[n]
    /\ n \notin NodeIds => accepted[n] = None
    /\ n \in NodeIds => (seen[n] <=> accepted[n] # None)
    /\ accepted[n] # None => last_sequence[n] = (accepted[n] - 1) % M
    /\ before[n] # None => before[n] < accepted[n]

\* The same of the log summary, which has an entry for every sender.
Summarized ==
  /\ summary \in [Senders -> [last_sequence : Int, wraparounds : Int]]
  /\ \A n \in Senders :
       /\ logged[n] <= sent[n]
       /\ logged[n] = None => summary[n].last_sequence = NoSequence
       /\ logged[n] # None => summary[n].last_sequence = (logged[n] - 1) % M

LInv == TypeOK /\ Numbered /\ Tracked /\ Summarized

-----------------------------------------------------------------------------
(* Division with remainder. *)

\* The modulus is twice the half space.
LEMMA ModulusType == M \in Nat \ {0} /\ M = 2 * HalfSpace /\ HalfSpace \in Nat \ {0}
BY TrackerAssumption DEF M, SequenceModulus

\* Multiples of a modulus.
LEMMA Multiples ==
  ASSUME NEW m \in Nat \ {0}, NEW p \in Int, NEW q \in Int
  PROVE  /\ m * (p - q) = m * p - m * q
         /\ m * (p + q) = m * p + m * q
         /\ p >= 1 => m * p >= m
         /\ p <= -1 => m * p <= -m
OBVIOUS

\* Quotient and remainder.
LEMMA DivisionDefined ==
  ASSUME NEW m \in Nat \ {0}, NEW x \in Int
  PROVE  /\ x = m * (x \div m) + (x % m)
         /\ x % m \in 0 .. m - 1
         /\ x \div m \in Int
OBVIOUS

\* Quotient and remainder are unique.
LEMMA DivisionUnique ==
  ASSUME NEW m \in Nat \ {0}, NEW p \in Int, NEW q \in Int,
         NEW r \in 0 .. m - 1, NEW s \in 0 .. m - 1,
         m * p + r = m * q + s
  PROVE  p = q /\ r = s
<1>1. m * (p - q) = s - r /\ p - q \in Int
  BY Multiples
<1>2. ~ (p - q >= 1)
  <2>1. p - q >= 1 => m * (p - q) >= m
    BY <1>1, Multiples
  <2>2. QED
    BY <1>1, <2>1
<1>3. ~ (p - q <= -1)
  <2>1. p - q <= -1 => m * (p - q) <= -m
    BY <1>1, Multiples
  <2>2. QED
    BY <1>1, <2>1
<1>4. p = q
  BY <1>1, <1>2, <1>3
<1>5. QED
  BY <1>4

\* The quotient and the remainder of m * q + r.
LEMMA DivMod ==
  ASSUME NEW m \in Nat \ {0}, NEW q \in Int, NEW r \in 0 .. m - 1
  PROVE  (m * q + r) % m = r /\ (m * q + r) \div m = q
<1>. DEFINE x == m * q + r
<1>1. x \in Int
  OBVIOUS
<1>. HIDE DEF x
<1>2. /\ x = m * (x \div m) + (x % m)
      /\ x % m \in 0 .. m - 1
      /\ x \div m \in Int
  BY <1>1, DivisionDefined
<1>3. m * (x \div m) + (x % m) = m * q + r
  BY <1>2 DEF x
<1>4. (x \div m) = q /\ x % m = r
  BY <1>2, <1>3, DivisionUnique
<1>5. QED
  BY <1>4 DEF x

\* A whole number of turns changes no remainder.
LEMMA ModShift ==
  ASSUME NEW m \in Nat \ {0}, NEW x \in Int, NEW k \in Int
  PROVE  (x + m * k) % m = x % m
<1>. DEFINE q == x \div m
            r == x % m
<1>1. x = m * q + r /\ r \in 0 .. m - 1 /\ q \in Int
  BY DivisionDefined
<1>. HIDE DEF q, r
<1>2. x + m * k = m * (q + k) + r /\ q + k \in Int
  <2>1. m * (q + k) = m * q + m * k /\ m * q \in Int /\ m * k \in Int
    BY <1>1, Multiples
  <2>2. QED
    BY <1>1, <2>1
<1>3. (m * (q + k) + r) % m = r
  BY <1>1, <1>2, DivMod
<1>4. QED
  BY <1>2, <1>3 DEF r

\* Remainders close to zero, on both sides.
LEMMA ModNear ==
  ASSUME NEW m \in Nat \ {0}
  PROVE  /\ \A x \in 0 .. m - 1 : x % m = x
         /\ \A x \in (-m) .. -1 : x % m = x + m
OBVIOUS

\* The distance of two numbers on the circle is the distance of what they stand for.
LEMMA ModDifference ==
  ASSUME NEW m \in Nat \ {0}, NEW x \in Int, NEW y \in Int
  PROVE  ((x % m) - (y % m)) % m = (x - y) % m
<1>. DEFINE p == x \div m
            q == y \div m
<1>1. /\ x = m * p + (x % m) /\ p \in Int /\ x % m \in Int
      /\ y = m * q + (y % m) /\ q \in Int /\ y % m \in Int
  BY DivisionDefined
<1>. HIDE DEF p, q
<1>2. q - p \in Int /\ m * (q - p) = m * q - m * p /\ m * p \in Int /\ m * q \in Int
  BY <1>1, Multiples
<1>3. (x % m) - (y % m) = (x - y) + m * (q - p)
  BY <1>1, <1>2
<1>4. x - y \in Int
  OBVIOUS
<1>5. ((x - y) + m * (q - p)) % m = (x - y) % m
  BY <1>2, <1>4, ModShift
<1>6. QED
  BY <1>3, <1>5

\* It does not matter whether a number is wrapped before something is added to it.
LEMMA ModSum ==
  ASSUME NEW m \in Nat \ {0}, NEW x \in Int, NEW d \in Int
  PROVE  ((x % m) + d) % m = (x + d) % m
<1>. DEFINE p == x \div m
            r == x % m
<1>1. x = m * p + r /\ p \in Int /\ r \in Int
  BY DivisionDefined
<1>. HIDE DEF p, r
<1>2. 0 - p \in Int /\ m * (0 - p) = m * 0 - m * p /\ m * 0 = 0 /\ m * p \in Int
  BY <1>1, Multiples
<1>3. r + d = (x + d) + m * (0 - p)
  BY <1>1, <1>2
<1>4. x + d \in Int
  OBVIOUS
<1>5. ((x + d) + m * (0 - p)) % m = (x + d) % m
  BY <1>2, <1>4, ModShift
<1>6. QED
  BY <1>3, <1>5 DEF r

-----------------------------------------------------------------------------
(* The numbers of the frames. *)

\* The sequence byte of a frame is its number, wrapped.
LEMMA NumberOfFrame ==
  ASSUME LInv, NEW n \in Senders, NEW number \in Int
  PROVE  SequenceOf(n, number) = (number - 1) % M
<1>1. sequence_number[n] = sent[n] % M /\ sent[n] \in Int /\ M \in Nat \ {0}
  BY ModulusType, LinkAssumption DEF LInv, Numbered, TypeOK
<1>. DEFINE s == sent[n]
            d == number - 1 - s
<1>2. d \in Int /\ s + d = number - 1
  BY <1>1
<1>3. ((s % M) + d) % M = (s + d) % M
  BY <1>1, <1>2, ModSum
<1>4. s % M \in Int
  BY <1>1, DivisionDefined
<1>5. (s % M) - 1 - (s - number) = (s % M) + d
  BY <1>1, <1>4
<1>6. QED
  BY <1>1, <1>2, <1>3, <1>5 DEF SequenceOf, M

\* How far a frame is ahead of another one at most half the number space away.
LEMMA Ahead ==
  ASSUME NEW a \in Int, NEW b \in Int, b - a < HalfSpace, a - b <= HalfSpace
  PROVE  LET distance == (((b - 1) % M) - ((a - 1) % M)) % M
         IN  /\ distance = 0 <=> a = b
             /\ distance < HalfSpace <=> b >= a
             /\ b >= a => distance = b - a
<1>1. (((b - 1) % M) - ((a - 1) % M)) % M = (b - a) % M
  <2>1. a - 1 \in Int /\ b - 1 \in Int /\ (b - 1) - (a - 1) = b - a
    OBVIOUS
  <2>2. (((b - 1) % M) - ((a - 1) % M)) % M = ((b - 1) - (a - 1)) % M
    BY <2>1, ModulusType, ModDifference
  <2>3. QED
    BY <2>1, <2>2
<1>2. CASE b >= a
  <2>1. b - a \in 0 .. M - 1
    BY <1>2, ModulusType
  <2>2. (b - a) % M = b - a
    BY <2>1, ModulusType, ModNear
  <2>3. QED
    BY <1>1, <1>2, <2>2
<1>3. CASE b < a
  <2>1. b - a \in (-M) .. -1
    BY <1>3, ModulusType
  <2>2. (b - a) % M = b - a + M
    BY <2>1, ModulusType, ModNear
  <2>3. QED
    BY <1>1, <1>3, <2>2, ModulusType
<1>4. QED
  BY <1>2, <1>3

\* A wrapped number is a sequence byte.
LEMMA SequenceRange ==
  ASSUME NEW x \in Int
  PROVE  x % M \in Sequence /\ x % M \in Int /\ x % M # NoSequence
BY ModulusType, DivisionDefined DEF Sequence, M, NoSequence

-----------------------------------------------------------------------------
(* A delivery. *)

\* What every delivered frame of n may use of the invariant.
LEMMA DeliveryFacts ==
  ASSUME LInv, NEW n \in Senders, NEW number \in 1 .. sent[n], Deliver(n, number)
  PROVE  /\ number \in 1 .. MaxSent /\ number \in Int /\ number # None /\ sent[n] \in Nat
         /\ accepted[n] \in Int /\ logged[n] \in Int /\ number <= sent[n]
         /\ accepted[n] # None => number - accepted[n] < HalfSpace /\ accepted[n] - number <= HalfSpace
         /\ logged[n] # None => number - logged[n] < HalfSpace /\ logged[n] - number <= HalfSpace
         /\ SequenceOf(n, number) = (number - 1) % M
         /\ SequenceOf(n, number) \in Sequence
<1>1. /\ sent[n] \in 0 .. MaxSent /\ accepted[n] \in 0 .. MaxSent /\ logged[n] \in 0 .. MaxSent
      /\ MaxSent \in Nat /\ HalfSpace \in Nat \ {0}
  BY LinkAssumption, ModulusType DEF LInv, TypeOK
<1>2. number \in 1 .. MaxSent /\ number <= sent[n]
  BY <1>1
<1>3. /\ accepted[n] # None => number - accepted[n] \in -HalfSpace .. HalfSpace - 1
      /\ logged[n] # None => number - logged[n] \in -HalfSpace .. HalfSpace - 1
  BY DEF Deliver, InRange
<1>4. SequenceOf(n, number) = (number - 1) % M
  BY <1>1, NumberOfFrame
<1>5. SequenceOf(n, number) \in Sequence
  BY <1>1, <1>4, SequenceRange
<1>6. QED
  BY <1>1, <1>2, <1>3, <1>4, <1>5 DEF None

\* observe says of a frame what its true number says.
LEMMA ObservesTruly ==
  ASSUME LInv, NEW n \in Senders, NEW number \in 1 .. sent[n], Deliver(n, number)
  PROVE  /\ ret' = Truth(n, number)
         /\ ret' \in {"first", "newer"} =>
              /\ n \in NodeIds
              /\ seen' = [seen EXCEPT ![n] = TRUE]
              /\ last_sequence' = [last_sequence EXCEPT ![n] = SequenceOf(n, number)]
         /\ ret' \notin {"first", "newer"} => UNCHANGED <<seen, last_sequence>>
<1>. DEFINE q == SequenceOf(n, number)
<1>1. observe(n, q) /\ TrackerTypeOK
  BY DEF Deliver, LInv, TypeOK
<1>2. n \in NodeIds => (seen[n] <=> accepted[n] # None)
  BY DEF LInv, Tracked
<1>. HIDE DEF q
<1>3. CASE n \notin NodeIds
  BY <1>1, <1>3
  DEF observe, ObserveInvalid, ObserveFirst, ObserveDuplicate, ObserveNewer, ObserveStale, Truth
<1>4. CASE n \in NodeIds /\ accepted[n] = None
  <2>1. ~seen[n]
    BY <1>2, <1>4
  <2>2. ObserveFirst(n, q)
    BY <1>1, <1>4, <2>1
    DEF observe, ObserveInvalid, ObserveDuplicate, ObserveNewer, ObserveStale
  <2>3. QED
    BY <1>4, <2>2 DEF ObserveFirst, Remember, Truth, q
<1>5. CASE n \in NodeIds /\ accepted[n] # None
  <2>1. seen[n]
    BY <1>2, <1>5
  <2>2. Delta(n, q) = (((number - 1) % M) - ((accepted[n] - 1) % M)) % M
    BY <1>5, DeliveryFacts DEF Delta, q, M, LInv, Tracked
  <2>3. /\ Delta(n, q) = 0 <=> accepted[n] = number
        /\ Delta(n, q) < HalfSpace <=> number >= accepted[n]
    BY <1>5, <2>2, DeliveryFacts, Ahead
  <2>4. CASE number = accepted[n]
    <3>1. ObserveDuplicate(n, q)
      BY <1>1, <1>5, <2>1, <2>3, <2>4
      DEF observe, ObserveInvalid, ObserveFirst, ObserveNewer, ObserveStale
    <3>2. QED
      BY <1>5, <2>4, <3>1 DEF ObserveDuplicate, Truth
  <2>5. CASE number > accepted[n]
    <3>1. ObserveNewer(n, q)
      BY <1>1, <1>5, <2>1, <2>3, <2>5, DeliveryFacts
      DEF observe, ObserveInvalid, ObserveFirst, ObserveDuplicate, ObserveStale, IsNewer
    <3>2. number # accepted[n]
      BY <2>5, DeliveryFacts
    <3>3. seen' = [seen EXCEPT ![n] = TRUE]
      BY <1>1, <1>5, <2>1, <3>1 DEF ObserveNewer, TrackerTypeOK
    <3>4. QED
      BY <1>5, <2>5, <3>1, <3>2, <3>3 DEF ObserveNewer, Remember, Truth, q
  <2>6. CASE number < accepted[n]
    <3>1. ObserveStale(n, q)
      BY <1>1, <1>5, <2>1, <2>3, <2>6, DeliveryFacts
      DEF observe, ObserveInvalid, ObserveFirst, ObserveDuplicate, ObserveNewer, IsNewer
    <3>2. number # accepted[n] /\ ~ (number > accepted[n])
      BY <2>6, DeliveryFacts
    <3>3. QED
      BY <1>5, <3>1, <3>2 DEF ObserveStale, Truth
  <2>7. QED
    BY <2>4, <2>5, <2>6, DeliveryFacts
<1>6. QED
  BY <1>3, <1>4, <1>5

\* A delivery keeps the tracker at the newest frame it accepted.
LEMMA DeliverTracked ==
  ASSUME LInv, NEW n \in Senders, NEW number \in 1 .. sent[n], Deliver(n, number)
  PROVE  /\ TrackerTypeOK' /\ Tracked'
         /\ accepted' \in [Senders -> 0 .. MaxSent]
         /\ before' \in [Senders -> 0 .. MaxSent]
<1>1. /\ TrackerTypeOK /\ Tracked /\ accepted \in [Senders -> 0 .. MaxSent]
      /\ before \in [Senders -> 0 .. MaxSent]
      /\ MaxSent \in Nat /\ number \in 0 .. MaxSent
      /\ seen \in [NodeIds -> BOOLEAN] /\ last_sequence \in [NodeIds -> Sequence]
  <2>1. TrackerTypeOK /\ Tracked /\ accepted \in [Senders -> 0 .. MaxSent]
        /\ before \in [Senders -> 0 .. MaxSent]
    BY DEF LInv, TypeOK
  <2>2. seen \in [NodeIds -> BOOLEAN] /\ last_sequence \in [NodeIds -> Sequence]
    BY <2>1 DEF TrackerTypeOK
  <2>3. MaxSent \in Nat /\ number \in 1 .. MaxSent
    BY DeliveryFacts, LinkAssumption
  <2>4. QED
    BY <2>1, <2>2, <2>3
<1>2. sent' = sent /\ ret' = Truth(n, number)
      /\ IF ret' \in {"first", "newer"} THEN Apply(n, number) ELSE UNCHANGED <<accepted, before>>
  BY ObservesTruly DEF Deliver
<1>3. ret' \in SequenceState
  BY <1>2 DEF Truth, SequenceState
<1>4. CASE ret' \in {"first", "newer"}
  <2>1. /\ n \in NodeIds
        /\ seen' = [seen EXCEPT ![n] = TRUE]
        /\ last_sequence' = [last_sequence EXCEPT ![n] = SequenceOf(n, number)]
        /\ accepted' = [accepted EXCEPT ![n] = number]
        /\ before' = [before EXCEPT ![n] = accepted[n]]
    BY <1>2, <1>4, ObservesTruly DEF Apply
  <2>2. TrackerTypeOK'
    BY <1>1, <1>3, <2>1, DeliveryFacts DEF TrackerTypeOK
  <2>3. /\ seen'[n] /\ last_sequence'[n] = (number - 1) % M /\ accepted'[n] = number
        /\ \A k \in NodeIds \ {n} : seen'[k] = seen[k] /\ last_sequence'[k] = last_sequence[k]
        /\ before'[n] = accepted[n]
        /\ \A k \in Senders \ {n} : accepted'[k] = accepted[k] /\ before'[k] = before[k]
    BY <1>1, <2>1, DeliveryFacts
  <2>4. Tracked'
    <3>. SUFFICES ASSUME NEW k \in Senders
                  PROVE  /\ accepted'[k] <= sent[k]
                         /\ k \notin NodeIds => accepted'[k] = None
                         /\ k \in NodeIds => (seen'[k] <=> accepted'[k] # None)
                         /\ accepted'[k] # None => last_sequence'[k] = (accepted'[k] - 1) % M
                         /\ before'[k] # None => before'[k] < accepted'[k]
      BY <1>2 DEF Tracked, NodeIds, None, M, SequenceModulus
    <3>1. CASE k = n
      <4>1. accepted[n] # None => accepted[n] < number
        BY <1>2, <1>4, <2>1, DeliveryFacts DEF Truth
      <4>2. QED
        BY <2>1, <2>3, <3>1, <4>1, DeliveryFacts
    <3>2. CASE k # n
      <4>1. k \notin NodeIds => accepted[k] = None
        BY <1>1 DEF Tracked
      <4>2. QED
        BY <1>1, <2>3, <3>2, <4>1 DEF Tracked
    <3>3. QED
      BY <3>1, <3>2
  <2>5. QED
    BY <1>1, <2>1, <2>2, <2>4, DeliveryFacts
<1>5. CASE ret' \notin {"first", "newer"}
  <2>1. UNCHANGED <<seen, last_sequence, accepted, before>>
    BY <1>1, <1>2, <1>5, ObservesTruly
  <2>2. TrackerTypeOK'
    BY <1>1, <1>3, <2>1 DEF TrackerTypeOK
  <2>3. Tracked'
    BY <1>1, <1>2, <2>1 DEF Tracked
  <2>4. QED
    BY <1>1, <2>1, <2>2, <2>3, DeliveryFacts
<1>6. QED
  BY <1>4, <1>5

\* The numbers come round between two frames when the later one's is the smaller.
LEMMA TurnBetween ==
  ASSUME NEW a \in Int, NEW b \in Int, a <= b, b - a < M
  PROVE  Turns(b) = Turns(a) + (IF (b - 1) % M < (a - 1) % M THEN 1 ELSE 0)
         /\ Turns(a) \in Int
<1>. DEFINE t == (a - 1) \div M
            r == (a - 1) % M
            d == b - a
<1>1. M \in Nat \ {0} /\ d \in 0 .. M - 1 /\ a - 1 \in Int
  BY ModulusType
<1>2. a - 1 = M * t + r /\ r \in 0 .. M - 1 /\ t \in Int
  BY <1>1, DivisionDefined
<1>3. b - 1 = (a - 1) + d
  OBVIOUS
<1>. HIDE DEF t, r, d
<1>4. M * t \in Int /\ M * (t + 1) = M * t + M /\ t + 1 \in Int
  BY <1>1, <1>2
<1>5. CASE r + d < M
  <2>1. b - 1 = M * t + (r + d) /\ r + d \in 0 .. M - 1
    BY <1>1, <1>2, <1>3, <1>4, <1>5
  <2>2. (b - 1) % M = r + d /\ (b - 1) \div M = t
    BY <1>1, <1>2, <2>1, DivMod
  <2>3. ~ ((b - 1) % M < r)
    BY <1>1, <1>2, <2>2
  <2>4. QED
    BY <1>2, <2>2, <2>3 DEF Turns, M, t, r
<1>6. CASE ~ (r + d < M)
  <2>1. PICK k \in Int, s \in 0 .. M - 1 : k = t + 1 /\ s = r + d - M
    BY <1>1, <1>2, <1>4, <1>6
  <2>2. b - 1 = M * k + s
    BY <1>1, <1>2, <1>3, <1>4, <2>1
  <2>3. (b - 1) % M = s /\ (b - 1) \div M = t + 1 /\ s < r
    <3>1. (M * k + s) % M = s /\ (M * k + s) \div M = k
      BY <1>1, <2>1, DivMod
    <3>2. s < r
      BY <1>1, <1>2, <2>1
    <3>3. QED
      BY <2>1, <2>2, <3>1, <3>2
  <2>4. QED
    BY <1>2, <2>3 DEF Turns, M, t, r
<1>7. QED
  BY <1>5, <1>6

\* A delivery keeps the summary of the log true.
LEMMA DeliverSummarized ==
  ASSUME LInv, NEW n \in Senders, NEW number \in 1 .. sent[n], Deliver(n, number)
  PROVE  /\ Summarized' /\ logged' \in [Senders -> 0 .. MaxSent]
         /\ logged[n] # None =>
              /\ logged'[n] >= logged[n]
              /\ summary'[n].wraparounds - summary[n].wraparounds
                   = Turns(logged'[n]) - Turns(logged[n])
<1>. DEFINE q == SequenceOf(n, number)
            E == [last_sequence : Int, wraparounds : Int]
<1>1. /\ Summarized /\ summary \in [Senders -> E]
      /\ logged \in [Senders -> 0 .. MaxSent] /\ MaxSent \in Nat
      /\ number \in 0 .. MaxSent /\ sent' = sent
      /\ q = (number - 1) % M /\ q \in Int /\ q # NoSequence
      /\ log(n, q)
      /\ logged' = [logged EXCEPT ![n] = IF summary' # summary THEN number ELSE @]
  <2>1. number \in 1 .. MaxSent /\ q = (number - 1) % M /\ MaxSent \in Nat
    BY DeliveryFacts, LinkAssumption
  <2>2. number - 1 \in Int /\ number \in 0 .. MaxSent
    BY <2>1
  <2>3. q \in Int /\ q # NoSequence
    BY <2>1, <2>2, SequenceRange
  <2>4. Summarized /\ summary \in [Senders -> E] /\ logged \in [Senders -> 0 .. MaxSent]
    BY DEF LInv, Summarized, TypeOK
  <2>5. QED
    BY <2>1, <2>2, <2>3, <2>4 DEF Deliver
<1>2. summary[n] \in E /\ summary[n].last_sequence \in Int /\ summary[n].wraparounds \in Int
  BY <1>1
<1>. HIDE DEF q
<1>3. ASSUME NEW e \in E, summary' = [summary EXCEPT ![n] = e], e # summary[n],
             e.last_sequence = q
      PROVE  Summarized' /\ logged' = [logged EXCEPT ![n] = number]
             /\ logged'[n] = number /\ logged' \in [Senders -> 0 .. MaxSent]
             /\ summary'[n] = e
  <2>1. summary'[n] = e /\ summary' # summary /\ summary' \in [Senders -> E]
    BY <1>1, <1>3
  <2>2. logged' = [logged EXCEPT ![n] = number] /\ logged'[n] = number
        /\ logged' \in [Senders -> 0 .. MaxSent]
    BY <1>1, <2>1
  <2>3. ASSUME NEW k \in Senders
        PROVE  /\ logged'[k] <= sent'[k]
               /\ logged'[k] = None => summary'[k].last_sequence = NoSequence
               /\ logged'[k] # None => summary'[k].last_sequence = (logged'[k] - 1) % M
    <3>1. CASE k = n
      BY <1>1, <1>3, <2>1, <2>2, <3>1, DeliveryFacts
    <3>2. CASE k # n
      <4>1. logged'[k] = logged[k] /\ summary'[k] = summary[k]
        BY <1>1, <1>3, <2>2, <3>2
      <4>2. QED
        BY <1>1, <4>1 DEF Summarized
    <3>3. QED
      BY <3>1, <3>2
  <2>4. QED
    BY <2>1, <2>2, <2>3 DEF Summarized, None, NoSequence, M, SequenceModulus
<1>4. CASE LogFirst(n, q)
  <2>1. logged[n] = None
    BY <1>1, <1>4, DeliveryFacts, SequenceRange DEF LogFirst, Summarized
  <2>2. PICK e \in E : e = [summary[n] EXCEPT !.last_sequence = q]
    BY <1>1, <1>2
  <2>3. summary' = [summary EXCEPT ![n] = e] /\ e.last_sequence = q /\ e # summary[n]
    BY <1>1, <1>2, <1>4, <2>2 DEF LogFirst
  <2>4. QED
    BY <1>3, <2>1, <2>3
<1>5. CASE LogForward(n, q)
  <2>1. /\ logged[n] # None /\ summary[n].last_sequence = (logged[n] - 1) % M
        /\ Distance(n, q) # 0 /\ IsForward(n, q)
    BY <1>1, <1>5 DEF LogForward, Summarized
  <2>2. Distance(n, q) = (((number - 1) % M) - ((logged[n] - 1) % M)) % M
    BY <1>1, <2>1, LinkAssumption DEF Distance, M
  <2>3. Distance(n, q) < HalfSpace
    <3>1. 2 * Distance(n, q) < 2 * HalfSpace
      BY <2>1, LinkAssumption, ModulusType DEF IsForward, M
    <3>2. Distance(n, q) \in Int
      <4>1. q - summary[n].last_sequence \in Int
        BY <1>1, <1>2
      <4>2. QED
        BY <4>1, SequenceRange, LinkAssumption DEF Distance, M
    <3>3. QED
      BY <3>1, <3>2, ModulusType
  <2>4. number >= logged[n] /\ number # logged[n] /\ number - logged[n] < M
    <3>1. /\ Distance(n, q) = 0 <=> logged[n] = number
          /\ Distance(n, q) < HalfSpace <=> number >= logged[n]
      BY <2>1, <2>2, DeliveryFacts, Ahead
    <3>2. number - logged[n] < HalfSpace
      BY <2>1, DeliveryFacts
    <3>3. QED
      BY <2>1, <2>3, <3>1, <3>2, DeliveryFacts, ModulusType
  <2>5. PICK w \in {0, 1} : w = IF Wrapped(n, q) THEN 1 ELSE 0
    OBVIOUS
  <2>6. PICK e \in E : e = [last_sequence |-> q, wraparounds |-> summary[n].wraparounds + w]
    <3>1. summary[n].wraparounds + w \in Int
      BY <1>2
    <3>2. QED
      BY <1>1, <3>1
  <2>7. summary' = [summary EXCEPT ![n] = e] /\ e.last_sequence = q
        /\ e.wraparounds = summary[n].wraparounds + w
    <3>1. summary' = [summary EXCEPT ![n].last_sequence = q,
                        ![n].wraparounds = IF Wrapped(n, q) THEN @ + 1 ELSE @]
      BY <1>5 DEF LogForward
    <3>2. PICK x \in Int, v \in Int : summary[n] = [last_sequence |-> x, wraparounds |-> v]
      BY <1>2
    <3>3. e = [last_sequence |-> q, wraparounds |-> IF Wrapped(n, q) THEN v + 1 ELSE v]
      BY <2>5, <2>6, <3>2
    <3>4. summary' = [summary EXCEPT ![n] = e]
      <4>. DEFINE half == [summary EXCEPT ![n].last_sequence = q]
      <4>1. half = [summary EXCEPT ![n] = [last_sequence |-> q, wraparounds |-> v]]
        <5>1. [summary[n] EXCEPT !.last_sequence = q] = [last_sequence |-> q, wraparounds |-> v]
          BY <3>2
        <5>2. half = [summary EXCEPT ![n] = [summary[n] EXCEPT !.last_sequence = q]]
          BY <1>1
        <5>3. QED
          BY <5>1, <5>2, Zenon
      <4>2. half[n] = [last_sequence |-> q, wraparounds |-> v] /\ half \in [Senders -> E]
        BY <1>1, <3>2, <4>1
      <4>3. summary' = [half EXCEPT ![n].wraparounds = IF Wrapped(n, q) THEN @ + 1 ELSE @]
        BY <3>1, Zenon
      <4>. HIDE DEF half
      <4>4. summary' = [half EXCEPT ![n] = e]
        <5>1. [half[n] EXCEPT !.wraparounds = IF Wrapped(n, q) THEN @ + 1 ELSE @] = e
          BY <3>3, <4>2
        <5>2. summary' = [half EXCEPT ![n] =
                [half[n] EXCEPT !.wraparounds = IF Wrapped(n, q) THEN @ + 1 ELSE @]]
          BY <4>2, <4>3
        <5>3. QED
          BY <5>1, <5>2, Zenon
      <4>5. QED
        BY <1>1, <4>1, <4>4
    <3>5. QED
      BY <2>6, <3>4
  <2>8. e # summary[n]
    <3>1. q # summary[n].last_sequence
      <4>1. \A x \in Int : (x - x) % M = 0
        BY ModulusType
      <4>2. QED
        BY <1>1, <2>1, <2>2, <4>1, SequenceRange, DeliveryFacts
    <3>2. QED
      BY <2>7, <3>1
  <2>9. Summarized' /\ logged'[n] = number /\ logged' \in [Senders -> 0 .. MaxSent]
        /\ summary'[n] = e
    BY <1>3, <2>7, <2>8
  <2>10. Turns(number) = Turns(logged[n]) + w /\ Turns(logged[n]) \in Int
    BY <1>1, <2>1, <2>4, <2>5, TurnBetween, DeliveryFacts DEF Wrapped
  <2>11. QED
    BY <1>2, <2>4, <2>7, <2>9, <2>10
<1>6. CASE LogOther(n, q)
  <2>1. summary' = summary /\ logged' = logged
    BY <1>1, <1>6 DEF LogOther
  <2>2. Summarized'
    BY <1>1, <2>1 DEF Summarized
  <2>3. logged[n] # None => Turns(logged[n]) \in Int
    <3>1. logged[n] - 1 \in Int
      BY <1>1
    <3>2. QED
      BY <3>1, ModulusType, DivisionDefined DEF Turns, M
  <2>4. QED
    BY <1>1, <1>2, <2>1, <2>2, <2>3
<1>7. QED
  BY <1>1, <1>4, <1>5, <1>6 DEF log

-----------------------------------------------------------------------------
(* The invariant is inductive. *)

\* The link begins with the invariant.
LEMMA InitLInv == Init => LInv
<1>. SUFFICES ASSUME Init PROVE LInv
  OBVIOUS
<1>1. MaxSent \in Nat /\ 0 \in 0 .. MaxSent /\ 0 \in Sequence /\ 0 % M = 0
  BY LinkAssumption, ModulusType DEF Sequence, M
<1>2. TypeOK
  BY <1>1 DEF Init, TrackerInit, TypeOK, TrackerTypeOK, None
<1>3. Numbered
  BY <1>1 DEF Init, Numbered
<1>4. Tracked
  BY DEF Init, TrackerInit, Tracked, None
<1>5. Summarized
  BY LinkAssumption DEF Init, LogInit, Summarized, None, NoSequence
<1>6. QED
  BY <1>2, <1>3, <1>4, <1>5 DEF LInv

\* A new frame keeps the invariant.
LEMMA SendStep ==
  ASSUME LInv, NEW n \in Senders, Send(n)
  PROVE  LInv'
<1>1. /\ sent \in [Senders -> 0 .. MaxSent] /\ sequence_number \in [Senders -> Sequence]
      /\ accepted \in [Senders -> 0 .. MaxSent] /\ logged \in [Senders -> 0 .. MaxSent]
      /\ MaxSent \in Nat
  BY LinkAssumption, ModulusType DEF LInv, TypeOK
<1>2. /\ UNCHANGED <<seen, last_sequence, ret, summary, accepted, before, logged, delivered>>
      /\ sent' = [sent EXCEPT ![n] = @ + 1] /\ sent[n] < MaxSent
      /\ sequence_number' = [sequence_number EXCEPT ![n] = (@ + 1) % M]
  BY DEF Send, trackerVars, Successor, M
<1>3. sent' \in [Senders -> 0 .. MaxSent] /\ sent'[n] = sent[n] + 1
      /\ \A k \in Senders \ {n} : sent'[k] = sent[k]
  BY <1>1, <1>2
<1>4. sequence_number'[n] = (sent[n] + 1) % M
  <2>1. sequence_number[n] = sent[n] % M /\ sent[n] \in Int
    BY <1>1 DEF LInv, Numbered
  <2>2. ((sent[n] % M) + 1) % M = (sent[n] + 1) % M
    BY <2>1, ModSum, ModulusType
  <2>3. QED
    BY <1>1, <1>2, <2>1, <2>2
<1>5. TypeOK'
  <2>1. (sent[n] + 1) % M \in Sequence
    BY <1>1, SequenceRange
  <2>2. sequence_number' \in [Senders -> Sequence]
    BY <1>1, <1>2, <1>4, <2>1
  <2>3. QED
    BY <1>2, <1>3, <2>2 DEF LInv, TypeOK, TrackerTypeOK
<1>6. Numbered'
  <2>. SUFFICES ASSUME NEW k \in Senders PROVE sequence_number'[k] = sent'[k] % M
    BY DEF Numbered, M, SequenceModulus
  <2>1. CASE k = n
    BY <1>3, <1>4, <2>1
  <2>2. CASE k # n
    BY <1>1, <1>2, <1>3, <2>2 DEF LInv, Numbered
  <2>3. QED
    BY <2>1, <2>2
<1>7. Tracked'
  <2>. SUFFICES ASSUME NEW k \in Senders PROVE accepted[k] <= sent'[k]
    BY <1>2 DEF LInv, Tracked, NodeIds, None, M, SequenceModulus
  <2>1. CASE k = n
    BY <1>1, <1>2, <1>3, <2>1 DEF LInv, Tracked
  <2>2. CASE k # n
    BY <1>3, <2>2 DEF LInv, Tracked
  <2>3. QED
    BY <2>1, <2>2
<1>8. Summarized'
  <2>. SUFFICES ASSUME NEW k \in Senders PROVE logged[k] <= sent'[k]
    BY <1>2 DEF LInv, Summarized, NoSequence, None, M, SequenceModulus
  <2>1. CASE k = n
    BY <1>1, <1>2, <1>3, <2>1 DEF LInv, Summarized
  <2>2. CASE k # n
    BY <1>3, <2>2 DEF LInv, Summarized
  <2>3. QED
    BY <2>1, <2>2
<1>9. QED
  BY <1>5, <1>6, <1>7, <1>8 DEF LInv

\* A delivery, in any order, keeps the invariant.
LEMMA DeliverStep ==
  ASSUME LInv, NEW n \in Senders, NEW number \in 1 .. sent[n], Deliver(n, number)
  PROVE  LInv'
<1>1. UNCHANGED <<sequence_number, sent>> /\ delivered' = <<n, number>>
  BY DEF Deliver
<1>2. TypeOK'
  BY <1>1, DeliverTracked, DeliverSummarized, DeliveryFacts DEF LInv, TypeOK
<1>3. QED
  BY <1>1, <1>2, DeliverTracked, DeliverSummarized DEF LInv, Numbered

\* A reset of the tracker keeps the invariant.
LEMMA ResetStep ==
  ASSUME LInv, ResetAll \/ \E n \in Senders : ResetOne(n)
  PROVE  LInv'
<1>1. PICK S \in SUBSET NodeIds : /\ Forget(S)
                                  /\ accepted' = [n \in Senders |-> IF n \in S THEN None ELSE accepted[n]]
  <2>1. ASSUME NEW n \in Senders, ResetOne(n), n \in NodeIds
        PROVE  \E S \in SUBSET NodeIds : /\ Forget(S)
                 /\ accepted' = [k \in Senders |-> IF k \in S THEN None ELSE accepted[k]]
    <3>1. {n} \cap NodeIds = {n} /\ {n} \in SUBSET NodeIds
      BY <2>1
    <3>2. accepted' = [k \in Senders |-> IF k \in {n} THEN None ELSE accepted[k]]
      BY <2>1 DEF ResetOne, LInv, TypeOK
    <3>3. QED
      BY <2>1, <3>1, <3>2 DEF ResetOne, reset
  <2>2. ASSUME NEW n \in Senders, ResetOne(n), n \notin NodeIds
        PROVE  \E S \in SUBSET NodeIds : /\ Forget(S)
                 /\ accepted' = [k \in Senders |-> IF k \in S THEN None ELSE accepted[k]]
    <3>1. {n} \cap NodeIds = {} /\ {} \in SUBSET NodeIds
      BY <2>2
    <3>2. accepted[n] = None
      BY <2>2 DEF LInv, Tracked
    <3>3. accepted' = [k \in Senders |-> IF k \in {} THEN None ELSE accepted[k]]
      BY <2>2, <3>2 DEF ResetOne, LInv, TypeOK
    <3>4. QED
      BY <2>2, <3>1, <3>3 DEF ResetOne, reset
  <2>3. ASSUME ResetAll
        PROVE  \E S \in SUBSET NodeIds : /\ Forget(S)
                 /\ accepted' = [k \in Senders |-> IF k \in S THEN None ELSE accepted[k]]
    <3>1. accepted' = [k \in Senders |-> IF k \in NodeIds THEN None ELSE accepted[k]]
      BY <2>3 DEF ResetAll, LInv, Tracked
    <3>2. QED
      BY <2>3, <3>1 DEF ResetAll, reset_all
  <2>4. QED
    BY <2>1, <2>2, <2>3
<1>2. UNCHANGED <<summary, sequence_number, sent, logged>> /\ delivered' = <<>>
  BY DEF ResetAll, ResetOne
<1>3. MaxSent \in Nat /\ 0 \in 0 .. MaxSent /\ 0 \in Sequence
  BY LinkAssumption, ModulusType DEF Sequence, M
<1>4. TrackerTypeOK' /\ accepted' \in [Senders -> 0 .. MaxSent]
  BY <1>1, <1>3 DEF Forget, TrackerTypeOK, LInv, TypeOK, None
<1>5. /\ before' \in [Senders -> 0 .. MaxSent]
      /\ \A k \in Senders : before'[k] # None =>
                          before'[k] = before[k] /\ accepted'[k] = accepted[k]
  <2>1. /\ accepted \in [Senders -> 0 .. MaxSent]
        /\ before \in [Senders -> 0 .. MaxSent]
    BY DEF LInv, TypeOK
  <2>2. CASE ResetAll
    BY <1>3, <2>1, <2>2 DEF ResetAll, None
  <2>3. ASSUME NEW n \in Senders, ResetOne(n)
        PROVE  /\ before' \in [Senders -> 0 .. MaxSent]
               /\ \A k \in Senders : before'[k] # None =>
                          before'[k] = before[k] /\ accepted'[k] = accepted[k]
    BY <1>3, <2>1, <2>3 DEF ResetOne, None
  <2>4. QED
    BY <2>2, <2>3
<1>6. Tracked'
  <2>. SUFFICES ASSUME NEW k \in Senders
                PROVE  /\ accepted'[k] <= sent[k]
                       /\ k \notin NodeIds => accepted'[k] = None
                       /\ k \in NodeIds => (seen'[k] <=> accepted'[k] # None)
                       /\ accepted'[k] # None => last_sequence'[k] = (accepted'[k] - 1) % M
    BY <1>2, <1>5 DEF LInv, Tracked, NodeIds, None, M, SequenceModulus
  <2>1. CASE k \in S
    <3>1. accepted'[k] = None /\ k \in NodeIds
      BY <1>1, <2>1
    <3>2. ~seen'[k]
      BY <1>1, <2>1, <3>1 DEF Forget
    <3>3. 0 <= sent[k]
      BY <1>3 DEF LInv, TypeOK
    <3>4. QED
      BY <3>1, <3>2, <3>3 DEF None
  <2>2. CASE k \notin S
    <3>1. accepted'[k] = accepted[k]
          /\ (k \in NodeIds => (seen'[k] <=> seen[k]) /\ last_sequence'[k] = last_sequence[k])
      BY <1>1, <2>2 DEF Forget
    <3>2. accepted[k] # None => k \in NodeIds
      BY DEF LInv, Tracked
    <3>3. QED
      BY <3>1, <3>2 DEF LInv, Tracked
  <2>3. QED
    BY <2>1, <2>2
<1>7. QED
  BY <1>2, <1>4, <1>5, <1>6 DEF LInv, TypeOK, Numbered, Summarized

\* A stuttering step keeps the invariant.
LEMMA StutterStep ==
  ASSUME LInv, UNCHANGED vars
  PROVE  LInv'
BY DEF LInv, TypeOK, TrackerTypeOK, Numbered, Tracked, Summarized, vars, trackerVars

\* The invariant holds in every state of the link.
THEOREM LinkInvariant == Spec => []LInv
<1>1. LInv /\ [Next]_vars => LInv'
  BY SendStep, DeliverStep, ResetStep, StutterStep DEF Next
<1>2. QED
  BY <1>1, InitLInv, PTL DEF Spec

-----------------------------------------------------------------------------

(***************************************************************************)
(* The sequence numbers, the tracker's copies of them and what observe     *)
(* returns stay within their types.                                        *)
(***************************************************************************)
THEOREM TypeCorrect == Spec => []TypeOK
<1>1. LInv => TypeOK
  BY DEF LInv
<1>2. QED
  BY <1>1, LinkInvariant, PTL

(***************************************************************************)
(* Each frame that is applied was sent after the one applied before it,    *)
(* however often the numbers have wrapped: none is applied late or twice.  *)
(***************************************************************************)
THEOREM FramesApplyInOrder == Spec => []AppliedInOrder
<1>1. LInv => AppliedInOrder
  BY DEF LInv, Tracked, AppliedInOrder
<1>2. QED
  BY <1>1, LinkInvariant, PTL

(***************************************************************************)
(* observe returns first, duplicate, newer or stale exactly as the true    *)
(* order of the frames has it, for every frame less than half the number   *)
(* space ahead of the one accepted last or up to half of it behind.        *)
(***************************************************************************)
THEOREM FramesAreClassifiedTruly == Spec => ClassifiedTruly
<1>. DEFINE A == delivered' # <<>> /\ UNCHANGED sent =>
                   ret' = Truth(delivered'[1], delivered'[2])
<1>1. ASSUME LInv, Next
      PROVE  A
  <2>1. ASSUME NEW n \in Senders, NEW number \in 1 .. sent[n], Deliver(n, number)
        PROVE  A
    <3>1. delivered' = <<n, number>>
      BY <2>1 DEF Deliver
    <3>2. QED
      BY <1>1, <2>1, <3>1, ObservesTruly
  <2>2. ASSUME NEW n \in Senders, Send(n)
        PROVE  sent' # sent
    <3>1. sent[n] \in Int /\ sent \in [Senders -> 0 .. MaxSent]
      BY <1>1, LinkAssumption DEF LInv, TypeOK
    <3>2. sent'[n] = sent[n] + 1
      BY <2>2, <3>1 DEF Send
    <3>3. QED
      BY <3>1, <3>2
  <2>3. ASSUME ResetAll \/ \E n \in Senders : ResetOne(n)
        PROVE  delivered' = <<>>
    BY <2>3 DEF ResetAll, ResetOne
  <2>4. QED
    BY <1>1, <2>1, <2>2, <2>3 DEF Next
<1>2. QED
  BY <1>1, LinkInvariant, PTL DEF Spec, ClassifiedTruly

(***************************************************************************)
(* The log summary counts the true turns of a node's numbers and ends with *)
(* the number of the newest frame logged.                                  *)
(***************************************************************************)
THEOREM SummariesAreTrue == Spec => SummaryTrue
<1>. DEFINE A == \A n \in Senders : delivered' # <<>> /\ delivered'[1] = n /\ logged[n] # None =>
       /\ logged'[n] >= logged[n]
       /\ summary'[n].wraparounds - summary[n].wraparounds = Turns(logged'[n]) - Turns(logged[n])
       /\ summary'[n].last_sequence = (logged'[n] - 1) % SequenceModulus
<1>1. ASSUME LInv, Next, LInv'
      PROVE  A
  <2>. SUFFICES ASSUME NEW n \in Senders, delivered' # <<>>, delivered'[1] = n, logged[n] # None
                PROVE  /\ logged'[n] >= logged[n]
                       /\ summary'[n].wraparounds - summary[n].wraparounds
                            = Turns(logged'[n]) - Turns(logged[n])
                       /\ summary'[n].last_sequence = (logged'[n] - 1) % SequenceModulus
    OBVIOUS
  <2>1. logged[n] \in 0 .. MaxSent /\ MaxSent \in Nat /\ summary[n].wraparounds \in Int
    BY <1>1, LinkAssumption DEF LInv, TypeOK, Summarized
  <2>2. CASE UNCHANGED <<logged, summary>>
    <3>1. logged[n] - 1 \in Int /\ logged[n] \in Int
      BY <2>1
    <3>2. Turns(logged[n]) \in Int
      BY <3>1, ModulusType, DivisionDefined DEF Turns, M
    <3>3. summary[n].last_sequence = (logged[n] - 1) % SequenceModulus
      BY <1>1 DEF LInv, Summarized, M
    <3>4. logged'[n] = logged[n] /\ summary'[n] = summary[n]
      BY <2>2
    <3>5. QED
      BY <2>1, <3>1, <3>2, <3>3, <3>4
  <2>3. ASSUME NEW k \in Senders, NEW number \in 1 .. sent[k], Deliver(k, number)
        PROVE  /\ logged'[n] >= logged[n]
               /\ summary'[n].wraparounds - summary[n].wraparounds
                    = Turns(logged'[n]) - Turns(logged[n])
               /\ summary'[n].last_sequence = (logged'[n] - 1) % SequenceModulus
    <3>1. k = n
      BY <2>3 DEF Deliver
    <3>2. logged'[n] >= logged[n]
          /\ summary'[n].wraparounds - summary[n].wraparounds
                    = Turns(logged'[n]) - Turns(logged[n])
          /\ Summarized' /\ logged' \in [Senders -> 0 .. MaxSent]
      BY <1>1, <2>3, <3>1, DeliverSummarized
    <3>3. logged'[n] # None
      BY <2>1, <3>2 DEF None
    <3>4. summary'[n].last_sequence = (logged'[n] - 1) % SequenceModulus
      BY <3>2, <3>3 DEF Summarized, M
    <3>5. QED
      BY <3>2, <3>4
  <2>4. QED
    BY <1>1, <2>2, <2>3 DEF Next, Send, ResetOne, ResetAll
<1>2. QED
  BY <1>1, LinkInvariant, PTL DEF Spec, SummaryTrue

==============================================================================
