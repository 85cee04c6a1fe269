--------------------------- MODULE FrameLinks_proof ---------------------------
(***************************************************************************)
(* The codec and the two links on which frames travel, for every size of   *)
(* byte, header and payload, every frame and every stream of bytes.        *)
(***************************************************************************)
EXTENDS FrameLinks, TLAPS, WellFoundedInduction

(***************************************************************************)
(* The sizes of the codec are numbers in their order.                      *)
(***************************************************************************)
LEMMA Sizes ==
  /\ kFrameHeaderSize \in Nat /\ kFrameHeaderSize >= 3
  /\ kFrameOverhead = kFrameHeaderSize + 1
  /\ kMaxPayloadSize \in Nat /\ kMaxEncodedFrameSize = kFrameOverhead + kMaxPayloadSize
BY CodecAssumption DEF kFrameHeaderSize, kFrameOverhead, kMaxEncodedFrameSize

(***************************************************************************)
(* Bytes are natural numbers.                                              *)
(***************************************************************************)
LEMMA BytesAreNumbers == \A b \in Byte : b \in Nat
BY CodecAssumption DEF Byte

-----------------------------------------------------------------------------
(* The checksum. *)

(***************************************************************************)
(* Every set of natural numbers that is not empty has a least one.         *)
(***************************************************************************)
LEMMA LeastNumber ==
  ASSUME NEW S \in SUBSET Nat, S # {}
  PROVE  \E i \in S : \A j \in S : i <= j
<1>. DEFINE R == OpToRel(<, Nat)
<1>1. IsWellFoundedOn(R, Nat)
  BY NatLessThanWellFounded
<1>3. PICK i \in S : \A j \in S : <<j, i>> \notin R
  BY <1>1, WFMin
<1>4. R = {ss \in Nat \X Nat : ss[1] < ss[2]}
  BY DEF OpToRel
<1>. HIDE DEF R
<1>5. ASSUME NEW j \in S PROVE i <= j
  <2>1. i \in Nat /\ j \in Nat
    OBVIOUS
  <2>2. ~ (j < i)
    BY <1>3, <1>4, <2>1
  <2>3. QED
    BY <2>1, <2>2
<1> QED BY <1>5

(***************************************************************************)
(* Induction up to a bound, on a set: what holds of 0 and, with each       *)
(* number, of the next, holds of all of them.                              *)
(***************************************************************************)
LEMMA CountUp ==
  ASSUME NEW N \in Nat, NEW S, 0 \in S, \A n \in 0 .. N - 1 : n \in S => n + 1 \in S
  PROVE  0 .. N \subseteq S
<1> SUFFICES ASSUME NEW m \in 0 .. N, m \notin S PROVE FALSE
  OBVIOUS
<1> DEFINE T == {n \in 0 .. N : n \notin S}
<1>1. T \in SUBSET Nat /\ T # {}
  OBVIOUS
<1>2. PICK i \in T : \A j \in T : i <= j
  BY <1>1, LeastNumber
<1>3. i \in 0 .. N /\ i \notin S /\ i # 0
  BY <1>2
<1>4. i - 1 \in 0 .. N - 1 /\ i - 1 \in 0 .. N /\ i - 1 + 1 = i
  BY <1>3
<1>5. i - 1 \in S
  <2>1. i - 1 \notin T
    BY <1>2, <1>3, <1>4
  <2> QED BY <2>1, <1>4
<1> QED BY <1>3, <1>4, <1>5

\* The partial sums of s, as the loop of checksum8 goes through them.
SumStep(f, s, n) == IF n = 0 THEN 0 ELSE (f[n - 1] + s[n]) % ByteModulus

(***************************************************************************)
(* The recursive definition of the sum has a solution.                     *)
(***************************************************************************)
LEMMA SumsExist ==
  ASSUME NEW s \in Seq(Byte)
  PROVE  \E f : f = [n \in 0 .. Len(s) |-> SumStep(f, s, n)]
<1> DEFINE S == {m \in 0 .. Len(s) : \E f : f = [n \in 0 .. m |-> SumStep(f, s, n)]}
<1>0. Len(s) \in Nat
  OBVIOUS
<1>1. 0 \in S
  <2> DEFINE f == [n \in 0 .. 0 |-> 0]
  <2>1. \A n \in 0 .. 0 : SumStep(f, s, n) = 0
    BY DEF SumStep
  <2>2. f = [n \in 0 .. 0 |-> SumStep(f, s, n)]
    BY <2>1, Zenon
  <2> QED BY <1>0, <2>2
<1>2. ASSUME NEW m \in 0 .. Len(s) - 1, m \in S PROVE m + 1 \in S
  <2>1. PICK f : f = [n \in 0 .. m |-> SumStep(f, s, n)]
    BY <1>2
  <2> DEFINE g == [n \in 0 .. m + 1 |-> IF n = m + 1 THEN (f[m] + s[m + 1]) % ByteModulus ELSE f[n]]
  <2>2. ASSUME NEW n \in 0 .. m + 1 PROVE g[n] = SumStep(g, s, n)
    <3>1. CASE n = 0
      <4>1. f[0] = 0
        <5>1. 0 \in 0 .. m /\ SumStep(f, s, 0) = 0
          BY <1>0 DEF SumStep
        <5> QED BY <2>1, <5>1
      <4> QED BY <3>1, <4>1, <1>0 DEF SumStep
    <3>2. CASE n \in 1 .. m
      <4>1. f[n] = (f[n - 1] + s[n]) % ByteModulus
        <5>1. n \in 0 .. m /\ n # 0
          BY <3>2, <1>0
        <5>2. f[n] = SumStep(f, s, n)
          BY <2>1, <5>1
        <5> QED BY <5>1, <5>2 DEF SumStep
      <4>2. n # m + 1 /\ n - 1 # m + 1 /\ n - 1 \in 0 .. m + 1 /\ n # 0
        BY <3>2, <1>0
      <4>3. g[n] = f[n] /\ g[n - 1] = f[n - 1]
        BY <4>2
      <4> QED BY <4>1, <4>2, <4>3 DEF SumStep
    <3>3. CASE n = m + 1
      <4>1. g[m] = f[m] /\ n - 1 = m /\ n # 0
        BY <3>3, <1>0
      <4> QED BY <3>3, <4>1 DEF SumStep
    <3> QED BY <3>1, <3>2, <3>3, <1>0
  <2>3. g = [n \in 0 .. m + 1 |-> g[n]]
    OBVIOUS
  <2> HIDE DEF g
  <2>4. g = [n \in 0 .. m + 1 |-> SumStep(g, s, n)]
    BY <2>2, <2>3, Zenon
  <2> QED BY <2>4, <1>0
<1>3. 0 .. Len(s) \subseteq S
  <2> HIDE DEF S
  <2> QED BY <1>0, <1>1, <1>2, CountUp
<1> QED BY <1>0, <1>3

PartialSums(f, s) ==
  /\ f \in [0 .. Len(s) -> Byte] /\ f[0] = 0
  /\ \A n \in 1 .. Len(s) : f[n] = (f[n - 1] + s[n]) % ByteModulus

(***************************************************************************)
(* The sum of a sequence of bytes is the last of its partial sums, each of *)
(* which is a byte.                                                        *)
(***************************************************************************)
LEMMA SumIsLast ==
  ASSUME NEW s \in Seq(Byte)
  PROVE  \E f : PartialSums(f, s) /\ Sum(s) = f[Len(s)]
<1> DEFINE sum[n \in 0 .. Len(s)] == IF n = 0 THEN 0 ELSE (sum[n - 1] + s[n]) % ByteModulus
<1>1. Sum(s) = sum[Len(s)]
  BY DEF Sum
<1>2. sum = [n \in 0 .. Len(s) |-> SumStep(sum, s, n)]
  BY SumsExist DEF SumStep
<1> HIDE DEF sum
<1>3. Len(s) \in Nat
  OBVIOUS
<1>4. \A n \in 0 .. Len(s) : sum[n] = SumStep(sum, s, n)
  BY <1>2
<1>5. sum[0] = 0 /\ 0 \in Byte
  BY <1>3, <1>4, CodecAssumption DEF SumStep, Byte
<1>6. \A n \in 1 .. Len(s) : sum[n] = (sum[n - 1] + s[n]) % ByteModulus
  <2> SUFFICES ASSUME NEW n \in 1 .. Len(s) PROVE sum[n] = (sum[n - 1] + s[n]) % ByteModulus
    OBVIOUS
  <2>1. n \in 0 .. Len(s) /\ n # 0
    BY <1>3
  <2> QED BY <1>4, <2>1 DEF SumStep
<1> DEFINE S == {n \in 0 .. Len(s) : sum[n] \in Byte}
<1>7. 0 .. Len(s) \subseteq S
  <2>1. 0 \in S
    BY <1>3, <1>5
  <2>2. ASSUME NEW n \in 0 .. Len(s) - 1, n \in S PROVE n + 1 \in S
    <3>1. n + 1 \in 1 .. Len(s) /\ n + 1 \in 0 .. Len(s) /\ n + 1 - 1 = n
      BY <1>3
    <3>2. sum[n] \in Nat /\ s[n + 1] \in Nat
      BY <2>2, <3>1, CodecAssumption DEF Byte
    <3>3. sum[n + 1] = (sum[n] + s[n + 1]) % ByteModulus
      BY <1>6, <3>1
    <3>4. \A z \in Nat : z % ByteModulus \in Byte
      BY CodecAssumption DEF Byte
    <3>5. sum[n] + s[n + 1] \in Nat
      BY <3>2
    <3>6. sum[n + 1] \in Byte
      BY <3>3, <3>4, <3>5
    <3> QED BY <3>1, <3>6
  <2> HIDE DEF S
  <2> QED BY <1>3, <2>1, <2>2, CountUp
<1>8. sum \in [0 .. Len(s) -> Byte]
  BY <1>2, <1>7
<1> QED BY <1>1, <1>5, <1>6, <1>8 DEF PartialSums

(***************************************************************************)
(* Where two sequences agree from the beginning, so do their partial sums. *)
(***************************************************************************)
LEMMA SumsAgree ==
  ASSUME NEW s \in Seq(Byte), NEW t \in Seq(Byte), NEW f, NEW g,
         PartialSums(f, s), PartialSums(g, t),
         NEW N \in Nat, N <= Len(s), N <= Len(t), \A i \in 1 .. N : s[i] = t[i]
  PROVE  \A i \in 0 .. N : f[i] = g[i]
<1> DEFINE S == {n \in 0 .. N : f[n] = g[n]}
<1>1. 0 \in S
  BY DEF PartialSums
<1>2. ASSUME NEW n \in 0 .. N - 1, n \in S PROVE n + 1 \in S
  <2>1. /\ n + 1 \in 1 .. N /\ n + 1 \in 1 .. Len(s) /\ n + 1 \in 1 .. Len(t)
        /\ n + 1 - 1 = n
    OBVIOUS
  <2>2. /\ f[n + 1] = (f[n] + s[n + 1]) % ByteModulus
        /\ g[n + 1] = (g[n] + t[n + 1]) % ByteModulus
    BY <2>1 DEF PartialSums
  <2>3. f[n] = g[n] /\ s[n + 1] = t[n + 1]
    BY <1>2, <2>1
  <2> QED BY <2>1, <2>2, <2>3
<1>3. 0 .. N \subseteq S
  <2> HIDE DEF S
  <2> QED BY <1>1, <1>2, CountUp
<1> QED BY <1>3

(***************************************************************************)
(* Adding different bytes to a sum, or one byte to different sums, gives   *)
(* different sums.                                                         *)
(***************************************************************************)
LEMMA SumDiffers ==
  ASSUME NEW x \in Byte, NEW y \in Byte, NEW a \in Byte
  PROVE  (x + a) % ByteModulus = (y + a) % ByteModulus => x = y
<1> DEFINE M == ByteModulus
<1>1. M \in Nat /\ M > 0 /\ x \in 0 .. M - 1 /\ y \in 0 .. M - 1 /\ a \in 0 .. M - 1
  BY CodecAssumption DEF Byte
<1>2. ASSUME NEW z \in 0 .. M - 1
      PROVE  (z + a) % M = IF z + a < M THEN z + a ELSE z + a - M
  <2>1. CASE z + a < M
    <3>1. z + a \in 0 .. M - 1
      BY <1>1, <2>1
    <3> QED BY <1>1, <2>1, <3>1
  <2>2. CASE ~(z + a < M)
    BY <1>1, <2>2
  <2> QED BY <2>1, <2>2
<1> HIDE DEF M
<1> QED BY <1>1, <1>2 DEF M

(***************************************************************************)
(* A byte appended is a byte added.                                        *)
(***************************************************************************)
LEMMA SumAppend ==
  ASSUME NEW s \in Seq(Byte), NEW b \in Byte
  PROVE  Sum(Append(s, b)) = (Sum(s) + b) % ByteModulus
<1> DEFINE t == Append(s, b)
<1>1. t \in Seq(Byte) /\ Len(t) = Len(s) + 1 /\ t[Len(s) + 1] = b /\ Len(s) \in Nat
      /\ \A i \in 1 .. Len(s) : s[i] = t[i]
  OBVIOUS
<1> HIDE DEF t
<1>2. PICK f : PartialSums(f, s) /\ Sum(s) = f[Len(s)]
  BY SumIsLast
<1>3. PICK g : PartialSums(g, t) /\ Sum(t) = g[Len(t)]
  BY <1>1, SumIsLast
<1>4. f[Len(s)] = g[Len(s)]
  <2>1. Len(s) <= Len(s) /\ Len(s) <= Len(t) /\ Len(s) \in 0 .. Len(s)
    BY <1>1
  <2>2. \A i \in 0 .. Len(s) : f[i] = g[i]
    BY <1>1, <1>2, <1>3, <2>1, SumsAgree
  <2> QED BY <2>1, <2>2
<1>5. g[Len(s) + 1] = (g[Len(s)] + t[Len(s) + 1]) % ByteModulus
  <2>1. Len(s) + 1 \in 1 .. Len(t) /\ Len(s) + 1 - 1 = Len(s)
    BY <1>1
  <2> QED BY <1>3, <2>1 DEF PartialSums
<1>6. Sum(t) = (Sum(s) + b) % ByteModulus
  BY <1>1, <1>2, <1>3, <1>4, <1>5
<1> QED BY <1>6 DEF t

(***************************************************************************)
(* The sum of bytes is a byte.                                             *)
(***************************************************************************)
LEMMA SumType ==
  ASSUME NEW s \in Seq(Byte)
  PROVE  Sum(s) \in Byte
<1>1. PICK f : PartialSums(f, s) /\ Sum(s) = f[Len(s)]
  BY SumIsLast
<1>2. Len(s) \in 0 .. Len(s)
  OBVIOUS
<1> QED BY <1>1, <1>2 DEF PartialSums

(***************************************************************************)
(* checksum8 makes verify_checksum8 succeed: the checksum is what the sum  *)
(* lacks.                                                                  *)
(***************************************************************************)
LEMMA ChecksumVerifies ==
  ASSUME NEW s \in Seq(Byte)
  PROVE  checksum8(s) \in Byte /\ verify_checksum8(Append(s, checksum8(s)))
<1> DEFINE M == ByteModulus
<1> DEFINE x == Sum(s)
<1>1. M \in Nat /\ M > 0 /\ x \in 0 .. M - 1 /\ Byte = 0 .. M - 1
  BY SumType, CodecAssumption DEF Byte
<1>2. checksum8(s) = (0 - x) % M
  BY DEF checksum8
<1> HIDE DEF M, x
<1>3. (0 - x) % M = IF x = 0 THEN 0 ELSE M - x
  <2>1. CASE x = 0
    BY <1>1, <2>1
  <2>2. CASE x # 0
    BY <1>1, <2>2
  <2> QED BY <2>1, <2>2
<1>4. checksum8(s) \in Byte /\ (x + checksum8(s)) % M = 0
  <2>1. CASE x = 0
    BY <1>1, <1>2, <1>3, <2>1
  <2>2. CASE x # 0
    <3>1. x + checksum8(s) = M /\ M % M = 0
      BY <1>1, <1>2, <1>3, <2>2
    <3> QED BY <1>1, <1>2, <1>3, <2>2, <3>1
  <2> QED BY <2>1, <2>2
<1>5. Sum(Append(s, checksum8(s))) = (Sum(s) + checksum8(s)) % ByteModulus
  BY <1>4, SumAppend
<1>6. Sum(Append(s, checksum8(s))) = 0
  BY <1>4, <1>5 DEF x, M
<1>7. Len(Append(s, checksum8(s))) > 0
  OBVIOUS
<1> QED BY <1>4, <1>6, <1>7 DEF verify_checksum8

(***************************************************************************)
(* Sequences that differ in one byte have different sums.                  *)
(***************************************************************************)
LEMMA OneByteShows ==
  ASSUME NEW s \in Seq(Byte), NEW t \in Seq(Byte), Len(s) = Len(t),
         NEW k \in 1 .. Len(s), s[k] # t[k],
         \A i \in 1 .. Len(s) : i # k => s[i] = t[i]
  PROVE  Sum(s) # Sum(t)
<1>1. PICK f : PartialSums(f, s) /\ Sum(s) = f[Len(s)]
  BY SumIsLast
<1>2. PICK g : PartialSums(g, t) /\ Sum(t) = g[Len(t)]
  BY SumIsLast
<1>3. Len(s) \in Nat /\ k \in Nat /\ k >= 1 /\ k <= Len(s)
  OBVIOUS
<1>4. f[k - 1] = g[k - 1]
  <2>1. k - 1 \in Nat /\ k - 1 <= Len(s) /\ k - 1 <= Len(t) /\ k - 1 \in 0 .. k - 1
    BY <1>3
  <2>2. \A i \in 1 .. k - 1 : s[i] = t[i]
    BY <1>3
  <2>3. \A i \in 0 .. k - 1 : f[i] = g[i]
    BY <1>1, <1>2, <2>1, <2>2, SumsAgree
  <2> QED BY <2>1, <2>3
<1>5. \A i \in 0 .. Len(s) : f[i] \in Byte /\ g[i] \in Byte
  BY <1>1, <1>2 DEF PartialSums
<1>6. \A i \in 1 .. Len(s) : /\ s[i] \in Byte /\ t[i] \in Byte
                             /\ f[i] = (f[i - 1] + s[i]) % ByteModulus
                             /\ g[i] = (g[i - 1] + t[i]) % ByteModulus
  BY <1>1, <1>2 DEF PartialSums
<1>7. f[k] # g[k]
  <2>1. s[k] \in Byte /\ t[k] \in Byte /\ f[k - 1] \in Byte
    BY <1>3, <1>5, <1>6
  <2>2. f[k - 1] + s[k] = s[k] + f[k - 1] /\ f[k - 1] + t[k] = t[k] + f[k - 1]
    BY <2>1, CodecAssumption DEF Byte
  <2>3. f[k] = (s[k] + f[k - 1]) % ByteModulus /\ g[k] = (t[k] + f[k - 1]) % ByteModulus
    BY <1>4, <1>6, <2>2
  <2> QED BY <2>1, <2>3, SumDiffers
<1> DEFINE S == {n \in 0 .. Len(s) - k : f[k + n] # g[k + n]}
<1>8. 0 .. Len(s) - k \subseteq S
  <2>1. 0 \in S /\ Len(s) - k \in Nat
    BY <1>3, <1>7
  <2>2. ASSUME NEW n \in 0 .. Len(s) - k - 1, n \in S PROVE n + 1 \in S
    <3>1. /\ k + n + 1 \in 1 .. Len(s) /\ k + n + 1 # k /\ k + n \in 0 .. Len(s)
          /\ k + n + 1 - 1 = k + n /\ n + 1 \in 0 .. Len(s) - k /\ k + (n + 1) = k + n + 1
      BY <1>3
    <3>2. /\ f[k + n + 1] = (f[k + n] + s[k + n + 1]) % ByteModulus
          /\ g[k + n + 1] = (g[k + n] + s[k + n + 1]) % ByteModulus
      BY <1>6, <3>1
    <3>3. f[k + n] \in Byte /\ g[k + n] \in Byte /\ s[k + n + 1] \in Byte /\ f[k + n] # g[k + n]
      BY <1>5, <1>6, <2>2, <3>1
    <3>4. f[k + n + 1] # g[k + n + 1]
      BY <3>2, <3>3, SumDiffers
    <3> QED BY <3>1, <3>4
  <2> HIDE DEF S
  <2> QED BY <2>1, <2>2, CountUp
<1>9. k + (Len(s) - k) = Len(s) /\ Len(s) - k \in 0 .. Len(s) - k
  BY <1>3
<1>10. Len(s) - k \in S
  BY <1>8, <1>9
<1> QED BY <1>1, <1>2, <1>9, <1>10

-----------------------------------------------------------------------------
(* The codec. *)

(***************************************************************************)
(* Where the bytes of a concatenation come from.                            *)
(***************************************************************************)
LEMMA Concatenation ==
  ASSUME NEW s \in Seq(Byte), NEW t \in Seq(Byte)
  PROVE  /\ s \o t \in Seq(Byte) /\ Len(s \o t) = Len(s) + Len(t)
         /\ \A i \in 1 .. Len(s) : (s \o t)[i] = s[i]
         /\ \A i \in 1 .. Len(t) : (s \o t)[Len(s) + i] = t[i]
OBVIOUS

(***************************************************************************)
(* The length a frame is encoded with is a byte and within the payload.     *)
(***************************************************************************)
LEMMA ClampedType ==
  ASSUME NEW f \in Frame
  PROVE  /\ Clamped(f) \in 0 .. kMaxPayloadSize /\ Clamped(f) \in Byte /\ Clamped(f) \in Nat
<1>1. f.payload_length \in Byte
  BY DEF Frame
<1> QED BY <1>1, CodecAssumption DEF Clamped, Byte

(***************************************************************************)
(* The bytes of an encoded frame, one by one.                              *)
(***************************************************************************)
Encodes(e, f) ==
  /\ e \in Seq(Byte) /\ Len(e) = kFrameOverhead + Clamped(f)
  /\ e[1] = kFrameMagic /\ e[2] = kProtocolVersion
  /\ \A i \in 1 .. FieldCount : e[2 + i] = f.fields[i]
  /\ e[kFrameHeaderSize] = Clamped(f)
  /\ \A i \in 1 .. Clamped(f) : e[kFrameHeaderSize + i] = f.payload[i]
  /\ verify_checksum8(e)

(***************************************************************************)
(* encode_frame lays a frame out byte by byte, with a checksum that         *)
(* verifies.                                                                *)
(***************************************************************************)
LEMMA Encoding ==
  ASSUME NEW f \in Frame
  PROVE  Encodes(encode_frame(f), f)
<1> DEFINE n == Clamped(f)
<1> DEFINE a == <<kFrameMagic, kProtocolVersion>>
<1> DEFINE b == a \o f.fields
<1> DEFINE c == b \o <<n>>
<1> DEFINE p == SubSeq(f.payload, 1, n)
<1> DEFINE d == c \o p
<1>0. FieldCount \in Nat /\ kFrameHeaderSize = FieldCount + 3 /\ kFrameOverhead = FieldCount + 4
  BY CodecAssumption DEF kFrameHeaderSize, kFrameOverhead
<1>1. n \in Nat /\ n \in Byte /\ n <= kMaxPayloadSize /\ kMaxPayloadSize \in Nat
  BY ClampedType, Sizes
<1>2. a \in Seq(Byte) /\ Len(a) = 2 /\ a[1] = kFrameMagic /\ a[2] = kProtocolVersion
  <2>1. kFrameMagic \in Byte /\ kProtocolVersion \in Byte
    BY CodecAssumption DEF Byte
  <2> QED BY <2>1
<1>3. f.fields \in Seq(Byte) /\ Len(f.fields) = FieldCount
  <2>1. f.fields \in [1 .. FieldCount -> Byte]
    BY DEF Frame
  <2> QED BY <1>0, <2>1
<1>4. p \in Seq(Byte) /\ Len(p) = n /\ \A i \in 1 .. n : p[i] = f.payload[i]
  <2>1. f.payload \in [1 .. kMaxPayloadSize -> Byte]
    BY DEF Frame
  <2>2. f.payload \in Seq(Byte) /\ Len(f.payload) = kMaxPayloadSize
    BY <1>1, <2>1
  <2> HIDE DEF n
  <2> QED BY <1>1, <2>2
<1>5. encode_frame(f) = Append(d, checksum8(d))
  BY DEF encode_frame
<1> HIDE DEF n, a, p
<1>6. /\ b \in Seq(Byte) /\ Len(b) = FieldCount + 2 /\ b[1] = kFrameMagic /\ b[2] = kProtocolVersion
      /\ \A i \in 1 .. FieldCount : b[2 + i] = f.fields[i]
  <2>1. /\ b \in Seq(Byte) /\ Len(b) = 2 + FieldCount
        /\ \A i \in 1 .. 2 : b[i] = a[i]
        /\ \A i \in 1 .. FieldCount : b[2 + i] = f.fields[i]
    BY <1>2, <1>3, Concatenation
  <2> HIDE DEF b
  <2>2. b[1] = a[1] /\ b[2] = a[2]
    BY <2>1
  <2> QED BY <1>0, <1>2, <2>1, <2>2
<1> HIDE DEF b
<1>7. /\ c \in Seq(Byte) /\ Len(c) = FieldCount + 3
      /\ \A i \in 1 .. FieldCount + 2 : c[i] = b[i]
      /\ c[FieldCount + 3] = n
  <2>1. <<n>> \in Seq(Byte) /\ Len(<<n>>) = 1 /\ <<n>>[1] = n
    BY <1>1
  <2>2. /\ c \in Seq(Byte) /\ Len(c) = FieldCount + 2 + 1
        /\ \A i \in 1 .. FieldCount + 2 : c[i] = b[i]
        /\ c[FieldCount + 2 + 1] = n
    BY <1>6, <2>1, Concatenation
  <2> QED BY <1>0, <2>2
<1> HIDE DEF c
<1>8. /\ d \in Seq(Byte) /\ Len(d) = FieldCount + 3 + n
      /\ \A i \in 1 .. FieldCount + 3 : d[i] = c[i]
      /\ \A i \in 1 .. n : d[FieldCount + 3 + i] = p[i]
  BY <1>4, <1>7, Concatenation
<1> HIDE DEF d
<1>9. checksum8(d) \in Byte /\ verify_checksum8(Append(d, checksum8(d)))
  BY <1>8, ChecksumVerifies
<1> DEFINE e == Append(d, checksum8(d))
<1>10. /\ e \in Seq(Byte) /\ Len(e) = Len(d) + 1
       /\ \A i \in 1 .. Len(d) : e[i] = d[i]
  BY <1>8, <1>9
<1> HIDE DEF e
<1>11. e[1] = kFrameMagic /\ e[2] = kProtocolVersion
  <2>1. e[1] = d[1] /\ e[2] = d[2]
    BY <1>0, <1>1, <1>8, <1>10
  <2>2. d[1] = c[1] /\ d[2] = c[2]
    BY <1>0, <1>8
  <2>3. c[1] = b[1] /\ c[2] = b[2]
    BY <1>0, <1>7
  <2> QED BY <1>6, <2>1, <2>2, <2>3
<1>12. ASSUME NEW i \in 1 .. FieldCount PROVE e[2 + i] = f.fields[i]
  <2>1. 2 + i \in 1 .. FieldCount + 2 /\ 2 + i \in 1 .. FieldCount + 3 /\ 2 + i \in 1 .. Len(d)
    BY <1>0, <1>1, <1>8
  <2> QED BY <1>6, <1>7, <1>8, <1>10, <2>1
<1>13. e[FieldCount + 3] = n
  <2>1. FieldCount + 3 \in 1 .. FieldCount + 3 /\ FieldCount + 3 \in 1 .. Len(d)
    BY <1>0, <1>1, <1>8
  <2> QED BY <1>7, <1>8, <1>10, <2>1
<1>14. ASSUME NEW i \in 1 .. n PROVE e[FieldCount + 3 + i] = f.payload[i]
  <2>1. FieldCount + 3 + i \in 1 .. Len(d)
    BY <1>0, <1>1, <1>8
  <2> QED BY <1>4, <1>8, <1>10, <2>1
<1>15. Len(e) = kFrameOverhead + n
  BY <1>0, <1>1, <1>8, <1>10
<1>16. verify_checksum8(e)
  BY <1>9 DEF e
<1>17. Encodes(e, f)
  BY <1>0, <1>10, <1>11, <1>12, <1>13, <1>14, <1>15, <1>16 DEF Encodes, n
<1> QED BY <1>5, <1>17 DEF e

(***************************************************************************)
(* decode_frame gives back what encode_frame was given, up to its payload  *)
(* length.                                                                 *)
(***************************************************************************)
LEMMA RoundTrip ==
  ASSUME NEW f \in Frame
  PROVE  decode_frame(encode_frame(f)) = [error |-> "none", frame |-> Delivered(f)]
<1> DEFINE e == encode_frame(f)
<1> DEFINE n == Clamped(f)
<1>1. Encodes(e, f)
  BY Encoding
<1> HIDE DEF e
<1>2. /\ n \in Nat /\ n <= kMaxPayloadSize /\ kMaxPayloadSize \in Nat
      /\ FieldCount \in Nat /\ kFrameHeaderSize = FieldCount + 3 /\ kFrameOverhead = FieldCount + 4
  BY ClampedType, CodecAssumption, Sizes DEF kFrameHeaderSize, kFrameOverhead
<1>3. /\ e \in Seq(Byte) /\ Len(e) = kFrameOverhead + n
      /\ e[1] = kFrameMagic /\ e[2] = kProtocolVersion /\ verify_checksum8(e)
      /\ DeclaredLength(e) = n
      /\ \A i \in 1 .. FieldCount : e[2 + i] = f.fields[i]
      /\ \A i \in 1 .. n : e[kFrameHeaderSize + i] = f.payload[i]
  BY <1>1 DEF Encodes, DeclaredLength
<1> HIDE DEF n
<1>4. DecodeError(e) = "none"
  BY <1>2, <1>3 DEF DecodeError
<1>5. SubSeq(e, 3, FieldCount + 2) = f.fields
  <2>1. f.fields \in [1 .. FieldCount -> Byte]
    BY DEF Frame
  <2>2. f.fields \in Seq(Byte) /\ Len(f.fields) = FieldCount
    BY <1>2, <2>1
  <2> DEFINE t == SubSeq(e, 3, FieldCount + 2)
  <2>3. t \in Seq(Byte) /\ Len(t) = FieldCount /\ \A i \in 1 .. FieldCount : t[i] = e[2 + i]
    <3>1. FieldCount + 2 <= Len(e) /\ 3 \in Nat
      BY <1>2, <1>3
    <3> QED BY <1>2, <1>3, <3>1
  <2> HIDE DEF t
  <2>4. t = f.fields
    BY <1>3, <2>2, <2>3
  <2> QED BY <2>4 DEF t
<1>6. [i \in 1 .. kMaxPayloadSize |-> IF i <= n THEN e[kFrameHeaderSize + i] ELSE 0]
        = [i \in 1 .. kMaxPayloadSize |-> IF i <= n THEN f.payload[i] ELSE 0]
  BY <1>2, <1>3
<1>7. FrameIn(e) = [fields |-> f.fields, payload_length |-> n,
                    payload |-> [i \in 1 .. kMaxPayloadSize |-> IF i <= n THEN f.payload[i] ELSE 0]]
  BY <1>3, <1>5, <1>6 DEF FrameIn
<1>8. FrameIn(e) = Delivered(f)
  BY <1>7 DEF Delivered, n
<1> QED BY <1>4, <1>8 DEF decode_frame, e
-----------------------------------------------------------------------------
(* Reads of a mailbox. *)

\* The bytes of line are those of e, up to the length of either, but for the
\* one at position k.
DiffersAt(line_, e, k) ==
  \A i \in 1 .. Len(line_) : i <= Len(e) => (line_[i] # e[i] <=> i = k)

(***************************************************************************)
(* What receive and decode_frame make of the first bytes of an encoded     *)
(* frame, padding after them and at most one byte corrupted.               *)
(***************************************************************************)
LEMMA Reception ==
  ASSUME NEW f \in Frame, NEW bytes \in Seq(Byte), NEW k \in 0 .. Len(bytes),
         DiffersAt(bytes, encode_frame(f), k)
  PROVE  LET e == encode_frame(f)
             r == decode_frame(receive(bytes))
         IN  /\ k \notin 1 .. Len(e) =>
                  IF Len(bytes) >= Len(e) THEN r = [error |-> "none", frame |-> Delivered(f)]
                                          ELSE r.error # "none"
             /\ k \in 1 .. Len(e) \ {kFrameHeaderSize} => r.error # "none"
<1> DEFINE e == encode_frame(f)
<1> DEFINE n == Clamped(f)
<1> DEFINE H == kFrameHeaderSize
<1> DEFINE r == decode_frame(receive(bytes))
<1>1. Encodes(e, f)
  BY Encoding
<1>2. decode_frame(e) = [error |-> "none", frame |-> Delivered(f)]
  BY RoundTrip
<1>3. DiffersAt(bytes, e, k)
  OBVIOUS
<1> HIDE DEF e
<1>4. /\ e \in Seq(Byte) /\ Len(e) = kFrameOverhead + n
      /\ e[1] = kFrameMagic /\ e[2] = kProtocolVersion /\ e[H] = n
      /\ Sum(e) = 0
  BY <1>1 DEF Encodes, verify_checksum8
<1>5. /\ H \in Nat /\ H >= 3 /\ kFrameOverhead = H + 1
      /\ n \in Nat /\ n <= kMaxPayloadSize /\ kMaxPayloadSize \in Nat
  BY ClampedType, Sizes
<1> HIDE DEF n, H
<1>6. Len(bytes) \in Nat /\ Len(e) \in Nat /\ Len(e) > H
  BY <1>4, <1>5
<1>7. ASSUME NEW i \in Nat, i >= 1, i <= Len(bytes), i <= Len(e)
      PROVE  bytes[i] # e[i] <=> i = k
  BY <1>3, <1>6, <1>7 DEF DiffersAt
<1>8. r.error = DecodeError(receive(bytes))
  BY DEF decode_frame
<1>9. CASE Len(bytes) < Len(e) /\ k # H
  <2>1. Len(bytes) < kFrameOverhead \/ (DeclaredLength(bytes) = n /\ Len(bytes) >= kFrameOverhead)
    <3>1. CASE Len(bytes) >= kFrameOverhead
      <4>1. bytes[H] = e[H]
        BY <1>5, <1>6, <1>7, <1>9, <3>1
      <4> QED BY <1>4, <3>1, <4>1 DEF DeclaredLength, H
    <3> QED BY <1>5, <1>6, <3>1
  <2>2. frame_length_from_prefix(bytes) = 0
    <3>1. CASE Len(bytes) >= H
      <4>1. bytes[H] = e[H]
        BY <1>5, <1>6, <1>7, <1>9, <3>1
      <4>2. DeclaredLength(bytes) = n
        BY <1>4, <4>1 DEF DeclaredLength, H
      <4>3. ~(kFrameOverhead + DeclaredLength(bytes) <= Len(bytes))
        BY <1>4, <1>5, <1>6, <1>9, <4>2
      <4> QED BY <4>3 DEF frame_length_from_prefix
    <3> QED BY <1>5, <1>6, <3>1 DEF frame_length_from_prefix, H
  <2>3. receive(bytes) = bytes
    BY <2>2 DEF receive
  <2>4. DecodeError(bytes) # "none"
    BY <1>4, <1>5, <1>6, <1>9, <2>1 DEF DecodeError
  <2> QED BY <1>4, <1>5, <1>6, <1>8, <1>9, <2>3, <2>4 DEF e, r, H
<1>10. CASE Len(bytes) >= Len(e) /\ k \in 1 .. 2
  <2>1. bytes[1] # kFrameMagic \/ bytes[2] # kProtocolVersion
    <3>1. bytes[k] # e[k]
      BY <1>5, <1>6, <1>7, <1>10
    <3> QED BY <1>4, <1>10, <3>1
  <2>2. frame_length_from_prefix(bytes) = 0
    BY <2>1 DEF frame_length_from_prefix
  <2>3. receive(bytes) = bytes
    BY <2>2 DEF receive
  <2>4. DecodeError(bytes) # "none"
    BY <2>1 DEF DecodeError
  <2>5. k \in 1 .. Len(e)
    BY <1>5, <1>6, <1>10
  <2> QED BY <1>8, <2>3, <2>4, <2>5 DEF e, r
<1>11. CASE Len(bytes) >= Len(e) /\ k \notin 1 .. 2 /\ k # H
  <2> DEFINE t == SubSeq(bytes, 1, Len(e))
  <2>1. t \in Seq(Byte) /\ Len(t) = Len(e) /\ \A i \in 1 .. Len(e) : t[i] = bytes[i]
    BY <1>6, <1>11
  <2>2. bytes[1] = e[1] /\ bytes[2] = e[2] /\ bytes[H] = e[H]
    <3>1. 1 # k /\ 2 # k
      BY <1>11
    <3> QED BY <1>5, <1>6, <1>7, <1>11, <3>1
  <2>3. DeclaredLength(bytes) = n
    BY <1>4, <2>2 DEF DeclaredLength, H
  <2>4. frame_length_from_prefix(bytes) = Len(e) /\ Len(e) # 0
    BY <1>4, <1>5, <1>6, <1>11, <2>2, <2>3 DEF frame_length_from_prefix, H
  <2>5. receive(bytes) = t
    BY <2>4 DEF receive
  <2> HIDE DEF t
  <2>6. ASSUME k \notin 1 .. Len(e) PROVE r = [error |-> "none", frame |-> Delivered(f)]
    <3>1. \A i \in 1 .. Len(e) : t[i] = e[i]
      <4> SUFFICES ASSUME NEW i \in 1 .. Len(e) PROVE t[i] = e[i]
        OBVIOUS
      <4>1. i \in Nat /\ i >= 1 /\ i <= Len(e) /\ i <= Len(bytes) /\ i # k
        BY <1>6, <1>11, <2>6
      <4> QED BY <1>7, <2>1, <4>1
    <3>2. t = e
      BY <1>4, <2>1, <3>1
    <3> QED BY <1>2, <2>5, <3>2
  <2>7. ASSUME k \in 1 .. Len(e) PROVE r.error # "none"
    <3>1. t[k] # e[k]
      BY <1>6, <1>7, <1>11, <2>1, <2>7
    <3>2. \A i \in 1 .. Len(t) : i # k => t[i] = e[i]
      <4> SUFFICES ASSUME NEW i \in 1 .. Len(t), i # k PROVE t[i] = e[i]
        OBVIOUS
      <4>1. i \in Nat /\ i >= 1 /\ i <= Len(e) /\ i <= Len(bytes)
        BY <1>6, <1>11, <2>1
      <4> QED BY <1>7, <2>1, <4>1
    <3>3. Sum(t) # Sum(e)
      <4>1. k \in 1 .. Len(t)
        BY <2>1, <2>7
      <4> QED BY <1>4, <2>1, <3>1, <3>2, <4>1, OneByteShows
    <3>4. ~verify_checksum8(t)
      BY <1>4, <3>3 DEF verify_checksum8
    <3>5. DecodeError(t) # "none"
      BY <3>4 DEF DecodeError
    <3> QED BY <1>8, <2>5, <3>5
  <2> QED BY <1>11, <2>6, <2>7 DEF e, r
<1>12. CASE k = H
  BY <1>5, <1>6, <1>12 DEF e, H
<1> QED BY <1>6, <1>9, <1>10, <1>11, <1>12

ReadTypeOK ==
  /\ published \in Frame /\ reading \in BOOLEAN
  /\ line \in Seq(Byte) /\ Len(line) <= kMaxEncodedFrameSize
  /\ corrupted \in 0 .. Len(line)

\* What the line gave is what the node published, but for the corrupted byte.
LineTrue == DiffersAt(line, encode_frame(published), corrupted)

ReadInv == ReadTypeOK /\ LineTrue /\ ReadGivesTheFrame /\ CorruptionNoticed

(***************************************************************************)
(* A byte more on the line: it is the published one or the corrupted one.  *)
(***************************************************************************)
LEMMA TransferStep ==
  ASSUME ReadTypeOK, LineTrue, NEW b \in Byte, Transfer(b),
         \/ b \in BusBytes /\ UNCHANGED corrupted
         \/ corrupted = 0 /\ b \notin BusBytes /\ corrupted' = Len(line) + 1
  PROVE  ReadTypeOK' /\ LineTrue'
<1> DEFINE e == encode_frame(published)
<1>1. /\ published \in Frame /\ reading /\ line \in Seq(Byte) /\ Len(line) < kMaxEncodedFrameSize
      /\ corrupted \in 0 .. Len(line) /\ Len(line) \in Nat
      /\ line' = Append(line, b) /\ published' = published /\ reading' = reading
  BY DEF ReadTypeOK, Transfer
<1>2. e \in Seq(Byte) /\ e' = e
  BY <1>1, Encoding DEF Encodes
<1>3. /\ line' \in Seq(Byte) /\ Len(line') = Len(line) + 1 /\ line'[Len(line) + 1] = b
      /\ \A i \in 1 .. Len(line) : line'[i] = line[i]
  BY <1>1
<1>4. corrupted' \in 0 .. Len(line') /\ (corrupted' = corrupted \/ corrupted' = Len(line) + 1)
  BY <1>1, <1>3
<1>5. ReadTypeOK'
  <2>1. kMaxEncodedFrameSize \in Nat
    BY Sizes
  <2>2. reading' \in BOOLEAN /\ published' \in Frame
    BY <1>1 DEF ReadTypeOK
  <2> QED BY <1>1, <1>3, <1>4, <2>1, <2>2 DEF ReadTypeOK
<1> HIDE DEF e
<1>6. ASSUME NEW i \in 1 .. Len(line'), i <= Len(e)
      PROVE  line'[i] # e[i] <=> i = corrupted'
  <2>1. CASE i <= Len(line)
    <3>1. i \in 1 .. Len(line) /\ line'[i] = line[i] /\ i # Len(line) + 1
      BY <1>1, <1>3, <2>1
    <3>2. line[i] # e[i] <=> i = corrupted
      BY <1>6, <3>1 DEF LineTrue, DiffersAt, e
    <3>3. i = corrupted' <=> i = corrupted
      BY <1>1, <3>1
    <3> QED BY <3>1, <3>2, <3>3
  <2>2. CASE i = Len(line) + 1
    <3>1. line'[i] = b /\ BusBytes = {e[i]}
      <4>1. Len(line) < Len(e)
        BY <1>1, <1>2, <1>6, <2>2
      <4> QED BY <1>3, <2>2, <4>1 DEF BusBytes, e
    <3>2. corrupted # i
      BY <1>1, <2>2
    <3> QED BY <2>2, <3>1, <3>2
  <2> QED BY <1>1, <1>3, <2>1, <2>2
<1>7. LineTrue'
  BY <1>2, <1>6 DEF LineTrue, DiffersAt, e
<1> QED BY <1>5, <1>7

(***************************************************************************)
(* Every step of a read keeps what the line gave, and what was made of it,  *)
(* true to the published frame.                                             *)
(***************************************************************************)
LEMMA ReadStep == ReadInv /\ [ReadNext]_readVars => ReadInv'
<1> SUFFICES ASSUME ReadInv, [ReadNext]_readVars PROVE ReadInv'
  OBVIOUS
<1> USE DEF ReadInv
<1>1. ASSUME NEW f \in Published, RequestFrom(f) PROVE ReadInv'
  <2>1. f \in Frame
    BY ReadAssumption
  <2>2. line' = <<>> /\ Len(line') = 0 /\ corrupted' = 0 /\ published' = f /\ reading' = TRUE
    BY <1>1 DEF RequestFrom
  <2>3. ReadTypeOK'
    BY <2>1, <2>2, Sizes DEF ReadTypeOK
  <2>4. LineTrue'
    BY <2>2 DEF LineTrue, DiffersAt
  <2>5. ReadGivesTheFrame' /\ CorruptionNoticed'
    BY <2>2 DEF ReadGivesTheFrame, CorruptionNoticed
  <2> QED BY <2>3, <2>4, <2>5
<1>2. ASSUME NEW b \in Byte, TransferByte(b) \/ CorruptByte(b) PROVE ReadInv'
  <2>1. ReadTypeOK' /\ LineTrue'
    BY <1>2, TransferStep DEF TransferByte, CorruptByte
  <2>2. reading' = TRUE
    BY <1>2 DEF TransferByte, CorruptByte, Transfer, ReadTypeOK
  <2>3. ReadGivesTheFrame' /\ CorruptionNoticed'
    BY <2>2 DEF ReadGivesTheFrame, CorruptionNoticed
  <2> QED BY <2>1, <2>3
<1>3. CASE EndTransfer
  <2>1. /\ published' = published /\ line' = line /\ corrupted' = corrupted /\ reading' = FALSE
        /\ received' = decode_frame(receive(line))
    BY <1>3 DEF EndTransfer
  <2>2. ReadTypeOK' /\ LineTrue'
    BY <2>1 DEF ReadTypeOK, LineTrue
  <2>3. /\ published \in Frame /\ line \in Seq(Byte) /\ corrupted \in 0 .. Len(line)
        /\ DiffersAt(line, encode_frame(published), corrupted)
    BY DEF ReadTypeOK, LineTrue
  <2> DEFINE e == encode_frame(published)
  <2> DEFINE r == decode_frame(receive(line))
  <2>4. /\ corrupted \notin 1 .. Len(e) =>
             IF Len(line) >= Len(e) THEN r = [error |-> "none", frame |-> Delivered(published)]
                                    ELSE r.error # "none"
        /\ corrupted \in 1 .. Len(e) \ {kFrameHeaderSize} => r.error # "none"
    BY <2>3, Reception
  <2>5. e' = e /\ received' = r /\ Delivered(published)' = Delivered(published)
    BY <2>1
  <2> HIDE DEF e, r
  <2>6. InFrame' = 1 .. Len(e) /\ WholeFrameRead' = (Len(line) >= Len(e))
    BY <2>1, <2>5 DEF InFrame, WholeFrameRead, e
  <2>7. ReadGivesTheFrame' /\ CorruptionNoticed'
    BY <2>1, <2>4, <2>5, <2>6 DEF ReadGivesTheFrame, CorruptionNoticed
  <2> QED BY <2>2, <2>7
<1>4. CASE UNCHANGED readVars
  BY <1>4 DEF readVars, ReadTypeOK, LineTrue, ReadGivesTheFrame, CorruptionNoticed,
              InFrame, WholeFrameRead
<1> QED BY <1>1, <1>2, <1>3, <1>4 DEF ReadNext

(***************************************************************************)
(* Before the first read nothing has been received.                         *)
(***************************************************************************)
LEMMA ReadStart == ReadInit => ReadInv
<1> SUFFICES ASSUME ReadInit PROVE ReadInv
  OBVIOUS
<1>1. /\ published = EmptyFrame /\ reading = FALSE /\ line = <<>> /\ corrupted = 0
      /\ received = decode_frame(<<>>) /\ Len(line) = 0
  BY DEF ReadInit
<1>2. published \in Frame
  <2>1. 0 \in Byte
    BY CodecAssumption DEF Byte
  <2> QED BY <1>1, <2>1 DEF EmptyFrame, Frame
<1>3. ReadTypeOK
  <2>1. line \in Seq(Byte) /\ corrupted \in 0 .. Len(line)
    BY <1>1
  <2>2. reading \in BOOLEAN
    BY <1>1, Zenon
  <2>3. Len(line) <= kMaxEncodedFrameSize
    BY <1>1, Sizes
  <2> QED BY <1>2, <2>1, <2>2, <2>3, Zenon DEF ReadTypeOK
<1>4. LineTrue
  BY <1>1 DEF LineTrue, DiffersAt
<1>5. received.error # "none"
  <2>1. Len(<<>>) = 0
    OBVIOUS
  <2>2. DecodeError(<<>>) = "too_short"
    BY <2>1, Sizes DEF DecodeError
  <2> QED BY <1>1, <2>2 DEF decode_frame
<1>6. ~WholeFrameRead
  <2>1. Len(encode_frame(published)) = kFrameOverhead + Clamped(published) /\ Clamped(published) \in Nat
    BY <1>2, Encoding, ClampedType DEF Encodes
  <2> QED BY <1>1, <2>1, Sizes DEF WholeFrameRead
<1> QED BY <1>3, <1>4, <1>5, <1>6 DEF ReadInv, ReadGivesTheFrame, CorruptionNoticed

(***************************************************************************)
(* The invariant of the reads, on both links.                               *)
(***************************************************************************)
LEMMA ReadInvariant == LinksSpec => []ReadInv
<1>1. LinksInit => ReadInv
  BY ReadStart DEF LinksInit
<1>2. ReadInv /\ [LinksNext]_linkedVars => ReadInv'
  <2>1. [LinksNext]_linkedVars => [ReadNext]_readVars
    BY DEF LinksNext, linkedVars, readVars
  <2> QED BY <2>1, ReadStep
<1> QED BY <1>1, <1>2, PTL DEF LinksSpec

(***************************************************************************)
(* A read whose bytes of the frame are undamaged gives the published       *)
(* frame, whatever padding follows, and one too short for it gives none:   *)
(* receive and decode_frame, for every frame, every padding and every      *)
(* size of the codec.                                                      *)
(***************************************************************************)
THEOREM ReadsGiveTheFrame == LinksSpec => []ReadGivesTheFrame
<1>1. ReadInv => ReadGivesTheFrame
  BY DEF ReadInv
<1> QED BY <1>1, ReadInvariant, PTL

(***************************************************************************)
(* decode_frame refuses every read with one corrupted byte in the frame,   *)
(* the payload length byte excepted: for every modulus the sum shows a     *)
(* change of one byte.                                                     *)
(***************************************************************************)
THEOREM CorruptionIsNoticed == LinksSpec => []CorruptionNoticed
<1>1. ReadInv => CorruptionNoticed
  BY DEF ReadInv
<1> QED BY <1>1, ReadInvariant, PTL

-----------------------------------------------------------------------------
(* A byte stream with a StreamDecoder at its end. *)

\* What reset leaves, and what a refused candidate and a first byte leave.
Fresh ==
  /\ expected_length = 0
  /\ buffer = <<>> \/ (buffer = <<kFrameMagic>> /\ kFrameMagic \in Byte)

(***************************************************************************)
(* A decoder that holds nothing, or one magic byte, without an expected    *)
(* length is within bounds.                                                *)
(***************************************************************************)
LEMMA FreshIsBounded == Fresh => CandidateBounded
<1> SUFFICES ASSUME Fresh PROVE CandidateBounded
  OBVIOUS
<1>1. CASE buffer = <<>>
  <2>1. buffer \in Seq(Byte) /\ Len(buffer) = 0
    BY <1>1
  <2> QED BY <1>1, <2>1, Sizes DEF CandidateBounded, Fresh
<1>2. CASE buffer = <<kFrameMagic>> /\ kFrameMagic \in Byte
  <2>1. buffer \in Seq(Byte) /\ Len(buffer) = 1 /\ buffer[1] = kFrameMagic
    BY <1>2
  <2> QED BY <2>1, Sizes DEF CandidateBounded, Fresh
<1> QED BY <1>1, <1>2 DEF Fresh

(***************************************************************************)
(* A byte that neither completes nor refuses the candidate leaves it       *)
(* within bounds: this is where the declared length, tested when the       *)
(* header is complete, bounds what comes after it.                         *)
(***************************************************************************)
LEMMA MoreIsBounded ==
  ASSUME CandidateBounded, NEW byte \in Byte, FeedMore(byte)
  PROVE  CandidateBounded'
<1> DEFINE held == Append(buffer, byte)
<1>1. /\ buffer \in Seq(Byte) /\ buffer # <<>> /\ buffer[1] = kFrameMagic
      /\ Len(buffer) \in Nat /\ Len(buffer) >= 1
  BY DEF FeedMore, CandidateBounded
<1>2. /\ held \in Seq(Byte) /\ Len(held) = Len(buffer) + 1 /\ held # <<>>
      /\ \A i \in 1 .. Len(buffer) : held[i] = buffer[i]
  BY <1>1
<1>3. held[1] = kFrameMagic
  BY <1>1, <1>2
<1>4. /\ buffer' = held /\ expected_length' = ExpectedWith(held)
      /\ HeaderError(held) = "none" /\ Len(held) # ExpectedWith(held)
  BY DEF FeedMore
<1> HIDE DEF held
<1>5. CASE Len(held) < kFrameHeaderSize
  <2>1. ExpectedWith(held) = 0
    BY <1>1, <1>2, <1>5, Sizes DEF ExpectedWith, CandidateBounded
  <2> QED BY <1>2, <1>3, <1>4, <1>5, <2>1, Sizes DEF CandidateBounded
<1>6. CASE Len(held) = kFrameHeaderSize
  <2>1. DeclaredLength(held) \in Nat
    BY <1>2, <1>6, Sizes, BytesAreNumbers DEF DeclaredLength
  <2>2. ~(DeclaredLength(held) > kMaxPayloadSize)
    BY <1>4, <1>6, Sizes DEF HeaderError, TooLarge
  <2>3. ExpectedWith(held) = kFrameOverhead + DeclaredLength(held)
    BY <1>6 DEF ExpectedWith
  <2>4. DeclaredLength(buffer)' = DeclaredLength(held)
    BY <1>4 DEF DeclaredLength
  <2> QED BY <1>2, <1>3, <1>4, <1>6, <2>1, <2>2, <2>3, <2>4, Sizes DEF CandidateBounded
<1>7. CASE Len(held) > kFrameHeaderSize
  <2>1. /\ expected_length = kFrameOverhead + DeclaredLength(buffer)
        /\ Len(buffer) < expected_length /\ expected_length <= kMaxEncodedFrameSize
    BY <1>1, <1>2, <1>7, Sizes DEF CandidateBounded
  <2>2. DeclaredLength(held) = DeclaredLength(buffer) /\ DeclaredLength(buffer) \in Nat
    <3>1. kFrameHeaderSize \in 1 .. Len(buffer)
      BY <1>1, <1>2, <1>7, Sizes
    <3>2. buffer[kFrameHeaderSize] \in Byte /\ held[kFrameHeaderSize] = buffer[kFrameHeaderSize]
      BY <1>1, <1>2, <3>1
    <3> QED BY <3>2, BytesAreNumbers DEF DeclaredLength
  <2>3. ExpectedWith(held) = expected_length
    BY <1>7, <1>2, <1>1, Sizes DEF ExpectedWith
  <2>4. DeclaredLength(buffer)' = DeclaredLength(held)
    BY <1>4 DEF DeclaredLength
  <2>5. Len(held) < expected_length
    BY <1>1, <1>2, <1>4, <2>1, <2>2, <2>3, Sizes
  <2> QED BY <1>2, <1>3, <1>4, <1>7, <2>1, <2>2, <2>3, <2>4, <2>5, Sizes DEF CandidateBounded
<1> QED BY <1>1, <1>2, <1>5, <1>6, <1>7, Sizes

(***************************************************************************)
(* Every call of the decoder keeps the candidate within its bounds.        *)
(***************************************************************************)
LEMMA BoundedStep == CandidateBounded /\ [DecoderNext]_decoderVars => CandidateBounded'
<1> SUFFICES ASSUME CandidateBounded, [DecoderNext]_decoderVars PROVE CandidateBounded'
  OBVIOUS
<1>0. Fresh' => CandidateBounded'
  BY FreshIsBounded, PTL
<1>1. CASE reset
  BY <1>0, <1>1 DEF reset, Reset, Fresh
<1>2. ASSUME NEW byte \in Byte, FeedNoise(byte) PROVE CandidateBounded'
  BY <1>2 DEF FeedNoise, CandidateBounded, DeclaredLength
<1>3. ASSUME NEW byte \in Byte, FeedMagic(byte) PROVE CandidateBounded'
  <2>1. expected_length = 0
    BY <1>3, Sizes DEF FeedMagic, CandidateBounded
  <2> QED BY <1>0, <1>3, <2>1 DEF FeedMagic, Fresh
<1>4. ASSUME NEW byte \in Byte, FeedBadHeader(byte) PROVE CandidateBounded'
  BY <1>0, <1>4 DEF FeedBadHeader, fail, Fresh
<1>5. ASSUME NEW byte \in Byte, FeedMore(byte) PROVE CandidateBounded'
  BY <1>5, MoreIsBounded
<1>6. ASSUME NEW byte \in Byte, FeedLast(byte) PROVE CandidateBounded'
  BY <1>0, <1>6 DEF FeedLast, Reset, Fresh
<1>7. CASE UNCHANGED decoderVars
  BY <1>7 DEF decoderVars, CandidateBounded, DeclaredLength
<1> QED BY <1>1, <1>2, <1>3, <1>4, <1>5, <1>6, <1>7 DEF DecoderNext, feed

(***************************************************************************)
(* "Storage remains bounded by kMaxEncodedFrameSize" (stream_decoder.h):   *)
(* the candidate stays within its buffer and shorter than the frame it     *)
(* declares, for every stream of bytes and every size of the codec.        *)
(***************************************************************************)
THEOREM CandidateStaysBounded == DecoderSpec => []CandidateBounded
<1>1. DecoderInit => CandidateBounded
  BY FreshIsBounded DEF DecoderInit, Fresh
<1> QED BY <1>1, BoundedStep, PTL DEF DecoderSpec

(***************************************************************************)
(* What an in-step decoder does with the next byte of an intact frame: it  *)
(* holds exactly what has been sent, and delivers the frame with its last  *)
(* byte, whatever the bytes look like.                                     *)
(***************************************************************************)
LEMMA AlignedFeed ==
  ASSUME NEW f \in Frame, NEW k \in Nat, k < Len(encode_frame(f)), CandidateBounded,
         buffer = SubSeq(encode_frame(f), 1, k), feed(encode_frame(f)[k + 1])
  PROVE  IF k + 1 = Len(encode_frame(f))
           THEN buffer' = <<>> /\ result' = StreamResult("frame_ready", Delivered(f), "none")
           ELSE buffer' = SubSeq(encode_frame(f), 1, k + 1)
<1> DEFINE e == encode_frame(f)
<1> DEFINE n == Clamped(f)
<1> DEFINE H == kFrameHeaderSize
<1> DEFINE b == e[k + 1]
<1> DEFINE held == Append(buffer, b)
<1>1. Encodes(e, f)
  BY Encoding
<1>2. decode_frame(e) = [error |-> "none", frame |-> Delivered(f)]
  BY RoundTrip
<1>3. buffer = SubSeq(e, 1, k) /\ feed(b) /\ k < Len(e)
  OBVIOUS
<1> HIDE DEF e
<1>4. /\ e \in Seq(Byte) /\ Len(e) = kFrameOverhead + n
      /\ e[1] = kFrameMagic /\ e[2] = kProtocolVersion /\ e[H] = n
  BY <1>1 DEF Encodes
<1>5. /\ H \in Nat /\ H >= 3 /\ kFrameOverhead = H + 1
      /\ n \in Nat /\ n <= kMaxPayloadSize /\ kMaxPayloadSize \in Nat
      /\ kMaxEncodedFrameSize = kFrameOverhead + kMaxPayloadSize
  BY ClampedType, Sizes
<1> HIDE DEF n, H
<1>6. buffer \in Seq(Byte) /\ Len(buffer) = k /\ \A i \in 1 .. k : buffer[i] = e[i]
  BY <1>3, <1>4
<1>7. /\ b \in Byte /\ held \in Seq(Byte) /\ Len(held) = k + 1
      /\ \A i \in 1 .. k + 1 : held[i] = e[i]
  BY <1>3, <1>4, <1>6
<1>8. held = SubSeq(e, 1, k + 1)
  <2> DEFINE t == SubSeq(e, 1, k + 1)
  <2>1. t \in Seq(Byte) /\ Len(t) = k + 1 /\ \A i \in 1 .. k + 1 : t[i] = e[i]
    BY <1>3, <1>4
  <2> HIDE DEF t, held
  <2>2. held \in Seq(Byte) /\ Len(held) = Len(t) /\ \A i \in 1 .. Len(t) : held[i] = t[i]
    BY <1>7, <2>1
  <2>3. held = t
    BY <2>1, <2>2
  <2> QED BY <2>3 DEF t
<1>9. CASE k = 0
  <2>1. buffer = <<>> /\ b = kFrameMagic
    BY <1>4, <1>6, <1>9
  <2>2. buffer' = <<b>>
    BY <1>3, <2>1 DEF feed, FeedNoise, FeedMagic, FeedBadHeader, FeedMore, FeedLast
  <2>3. buffer' = held
    BY <2>1, <2>2
  <2>4. k + 1 # Len(e)
    BY <1>4, <1>5, <1>9
  <2> QED BY <1>8, <2>3, <2>4 DEF e
<1>10. CASE k # 0
  <2>1. buffer # <<>> /\ Len(held) = k + 1 /\ k >= 1
    BY <1>6, <1>7, <1>10
  <2>2. HeaderError(held) = "none"
    <3>1. ~(Len(held) > kMaxEncodedFrameSize)
      BY <1>3, <1>4, <1>5, <1>7
    <3>2. Len(held) = 2 => held[2] = kProtocolVersion
      BY <1>4, <1>7
    <3>3. Len(held) = H => held[H] = n
      BY <1>4, <1>5, <1>7
    <3>4. Len(held) = H => ~TooLarge(held)
      BY <1>5, <3>3 DEF TooLarge, DeclaredLength, H
    <3> QED BY <3>1, <3>2, <3>4 DEF HeaderError, H
  <2>3. Len(held) = ExpectedWith(held) <=> k + 1 = Len(e)
    <3>1. CASE k + 1 < H
      <4>1. ExpectedWith(held) = 0
        BY <1>5, <1>6, <1>7, <3>1 DEF ExpectedWith, CandidateBounded, H
      <4> QED BY <1>4, <1>5, <1>7, <3>1, <4>1
    <3>2. CASE k + 1 = H
      <4>1. held[H] = n
        BY <1>4, <1>5, <1>7, <3>2
      <4>2. ExpectedWith(held) = kFrameOverhead + n
        BY <1>7, <3>2, <4>1 DEF ExpectedWith, DeclaredLength, H
      <4> QED BY <1>4, <1>5, <1>7, <3>2, <4>2
    <3>3. CASE k + 1 > H
      <4>1. Len(buffer) >= H /\ buffer[H] = n
        BY <1>4, <1>5, <1>6, <3>3
      <4>2. expected_length = kFrameOverhead + n
        BY <4>1 DEF CandidateBounded, DeclaredLength, H
      <4>3. ExpectedWith(held) = kFrameOverhead + n
        BY <1>5, <1>7, <3>3, <4>2 DEF ExpectedWith, H
      <4> QED BY <1>4, <1>5, <1>7, <4>3
    <3> QED BY <1>5, <3>1, <3>2, <3>3
  <2>4. FeedMore(b) \/ FeedLast(b)
    BY <1>3, <2>1, <2>2 DEF feed, FeedNoise, FeedMagic, FeedBadHeader
  <2>5. CASE k + 1 = Len(e)
    <3>1. FeedLast(b)
      BY <2>3, <2>4, <2>5 DEF FeedMore
    <3>2. held = e
      <4>1. held \in Seq(Byte) /\ Len(held) = Len(e) /\ \A i \in 1 .. Len(e) : held[i] = e[i]
        BY <1>7, <2>5
      <4> HIDE DEF held
      <4> QED BY <1>4, <4>1
    <3>3. buffer' = <<>> /\ result' = StreamResult("frame_ready", Delivered(f), "none")
      <4>1. /\ buffer' = <<>>
            /\ result' = StreamResult(IF decode_frame(held).error = "none"
                                         THEN "frame_ready" ELSE "frame_error",
                                      decode_frame(held).frame, decode_frame(held).error)
        BY <3>1 DEF FeedLast, Reset
      <4> HIDE DEF held
      <4>2. decode_frame(held).error = "none" /\ decode_frame(held).frame = Delivered(f)
        BY <1>2, <3>2
      <4> QED BY <4>1, <4>2
    <3> QED BY <2>5, <3>3 DEF e
  <2>6. CASE k + 1 # Len(e)
    <3>1. FeedMore(b)
      BY <2>3, <2>4, <2>6 DEF FeedLast
    <3> QED BY <1>8, <2>6, <3>1 DEF FeedMore, e
  <2> QED BY <2>5, <2>6
<1> QED BY <1>9, <1>10

-----------------------------------------------------------------------------

SendTypeOK ==
  /\ frame \in SentFrames /\ sent \in 0 .. Len(Encoded) /\ missed \in Nat

\* The decoder holds what has been sent of the frame and nothing else.
Aligned == buffer = SubSeq(Encoded, 1, sent)

InStep ==
  intact /\ in_step =>
    IF AllSent THEN result = StreamResult("frame_ready", Delivered(frame), "none")
               ELSE Aligned

(***************************************************************************)
(* The length of an encoded frame, which is never less than the overhead   *)
(* nor more than the greatest candidate.                                   *)
(***************************************************************************)
LEMMA EncodedLength ==
  ASSUME NEW f \in Frame
  PROVE  /\ encode_frame(f) \in Seq(Byte) /\ Len(encode_frame(f)) \in Nat
         /\ Len(encode_frame(f)) >= kFrameOverhead
         /\ Len(encode_frame(f)) <= kMaxEncodedFrameSize
         /\ encode_frame(f)[1] = kFrameMagic
<1>1. Encodes(encode_frame(f), f)
  BY Encoding
<1>2. Clamped(f) \in Nat /\ Clamped(f) <= kMaxPayloadSize
  BY ClampedType, Sizes
<1> QED BY <1>1, <1>2, Sizes DEF Encodes

(***************************************************************************)
(* Every step of the stream keeps the decoder within its bounds and the    *)
(* sender's state in its types.                                            *)
(***************************************************************************)
LEMMA SendTypeStep ==
  CandidateBounded /\ SendTypeOK /\ [Next]_vars => CandidateBounded' /\ SendTypeOK'
<1> SUFFICES ASSUME CandidateBounded, SendTypeOK, [Next]_vars
             PROVE  CandidateBounded' /\ SendTypeOK'
  OBVIOUS
<1>1. /\ frame \in SentFrames /\ frame \in Frame /\ missed \in Nat
      /\ sent \in Nat /\ sent <= Len(Encoded) /\ Len(Encoded) \in Nat /\ Encoded \in Seq(Byte)
  <2>1. frame \in Frame
    BY StreamAssumption DEF SendTypeOK
  <2>2. Encoded \in Seq(Byte) /\ Len(Encoded) \in Nat
    BY <2>1, EncodedLength DEF Encoded
  <2> QED BY <2>1, <2>2 DEF SendTypeOK
<1>2. [DecoderNext]_decoderVars => CandidateBounded'
  BY BoundedStep
<1>3. ASSUME NEW f \in SentFrames, BeginFrame(f) PROVE CandidateBounded' /\ SendTypeOK'
  <2>1. /\ frame' = f /\ sent' = 0 /\ UNCHANGED decoderVars /\ missed' \in Nat
    BY <1>1, <1>3 DEF BeginFrame
  <2>2. Len(Encoded') \in Nat
    BY <2>1, StreamAssumption, EncodedLength DEF Encoded
  <2>3. sent' \in 0 .. Len(Encoded)'
    BY <2>1, <2>2
  <2> QED BY <1>2, <1>3, <2>1, <2>3 DEF SendTypeOK
<1>4. CASE SendByte
  <2>1. sent # Len(Encoded) /\ feed(Encoded[sent + 1]) /\ sent' = sent + 1 /\ frame' = frame
        /\ missed' \in Nat
    BY <1>1, <1>4 DEF SendByte, AllSent
  <2>2. Encoded[sent + 1] \in Byte
    BY <1>1, <2>1
  <2>3. Encoded' = Encoded
    BY <2>1 DEF Encoded
  <2>4. DecoderNext
    BY <2>1, <2>2 DEF DecoderNext
  <2> QED BY <1>1, <1>2, <2>1, <2>3, <2>4 DEF SendTypeOK
<1>5. CASE LoseByte
  <2>1. sent # Len(Encoded) /\ UNCHANGED decoderVars /\ sent' = sent + 1 /\ frame' = frame
        /\ missed' = 0 /\ Encoded' = Encoded
    BY <1>5 DEF LoseByte, Fault, AllSent, Encoded
  <2> QED BY <1>1, <1>2, <2>1 DEF SendTypeOK
<1>6. ASSUME NEW b \in Byte, ChangeByte(b) PROVE CandidateBounded' /\ SendTypeOK'
  <2>1. sent # Len(Encoded) /\ feed(b) /\ sent' = sent + 1 /\ frame' = frame
        /\ missed' = 0 /\ Encoded' = Encoded
    BY <1>6 DEF ChangeByte, Fault, AllSent, Encoded
  <2>2. DecoderNext
    BY <2>1 DEF DecoderNext
  <2> QED BY <1>1, <1>2, <2>1, <2>2 DEF SendTypeOK
<1>7. ASSUME NEW b \in Byte, InsertByte(b) PROVE CandidateBounded' /\ SendTypeOK'
  <2>1. feed(b) /\ sent' = sent /\ frame' = frame /\ missed' = 0 /\ Encoded' = Encoded
    BY <1>7 DEF InsertByte, Fault, Encoded
  <2>2. DecoderNext
    BY <2>1 DEF DecoderNext
  <2> QED BY <1>1, <1>2, <2>1, <2>2 DEF SendTypeOK
<1>8. CASE ResetDecoder
  <2>1. reset /\ sent' = sent /\ frame' = frame /\ missed' = 0 /\ Encoded' = Encoded
    BY <1>8 DEF ResetDecoder, Fault, Encoded
  <2>2. DecoderNext
    BY <2>1 DEF DecoderNext
  <2> QED BY <1>1, <1>2, <2>1, <2>2 DEF SendTypeOK
<1>9. CASE UNCHANGED vars
  <2>1. UNCHANGED decoderVars /\ sent' = sent /\ frame' = frame /\ missed' = missed
        /\ Encoded' = Encoded
    BY <1>9 DEF vars, linkVars, Encoded
  <2> QED BY <1>1, <1>2, <2>1 DEF SendTypeOK
<1> QED BY <1>3, <1>4, <1>5, <1>6, <1>7, <1>8, <1>9 DEF Next

(***************************************************************************)
(* A fault spoils the frame it meets, and only that one.                   *)
(***************************************************************************)
LEMMA InStepStep ==
  CandidateBounded /\ SendTypeOK /\ InStep /\ [Next]_vars => InStep'
<1> SUFFICES ASSUME CandidateBounded, SendTypeOK, InStep, [Next]_vars PROVE InStep'
  OBVIOUS
<1>1. /\ frame \in Frame /\ sent \in Nat /\ sent <= Len(Encoded) /\ Len(Encoded) \in Nat
  <2>1. frame \in Frame
    BY StreamAssumption DEF SendTypeOK
  <2>2. Len(Encoded) \in Nat
    BY <2>1, EncodedLength DEF Encoded
  <2> QED BY <2>1, <2>2 DEF SendTypeOK
<1>2. ASSUME NEW f \in SentFrames, BeginFrame(f) PROVE InStep'
  <2>1. frame' = f /\ sent' = 0 /\ in_step' = (buffer = <<>>) /\ buffer' = buffer
    BY <1>2 DEF BeginFrame, decoderVars
  <2>2. Encoded' \in Seq(Byte) /\ Len(Encoded)' >= kFrameOverhead /\ Len(Encoded)' \in Nat
    BY <2>1, StreamAssumption, EncodedLength DEF Encoded
  <2>3. ~AllSent'
    BY <2>1, <2>2, Sizes DEF AllSent
  <2>4. SubSeq(Encoded', 1, 0) = <<>>
    BY <2>2
  <2>5. in_step' => Aligned'
    BY <2>1, <2>4 DEF Aligned
  <2> QED BY <2>3, <2>5 DEF InStep
<1>3. CASE SendByte
  <2> SUFFICES ASSUME intact', in_step'
               PROVE  IF AllSent' THEN result' = StreamResult("frame_ready", Delivered(frame'), "none")
                                  ELSE Aligned'
    BY DEF InStep
  <2>1. /\ sent # Len(Encoded) /\ feed(Encoded[sent + 1]) /\ sent' = sent + 1
        /\ frame' = frame /\ intact /\ in_step /\ Encoded' = Encoded
    BY <1>3 DEF SendByte, AllSent, Encoded
  <2>2. buffer = SubSeq(Encoded, 1, sent) /\ sent < Len(Encoded)
    BY <1>1, <2>1 DEF InStep, Aligned, AllSent
  <2>3. IF sent + 1 = Len(Encoded)
          THEN buffer' = <<>> /\ result' = StreamResult("frame_ready", Delivered(frame), "none")
          ELSE buffer' = SubSeq(Encoded, 1, sent + 1)
    BY <1>1, <2>1, <2>2, AlignedFeed DEF Encoded
  <2> QED BY <2>1, <2>3 DEF AllSent, Aligned
<1>4. CASE LoseByte \/ ResetDecoder \/ \E b \in Byte : ChangeByte(b) \/ InsertByte(b)
  BY <1>4 DEF LoseByte, ResetDecoder, ChangeByte, InsertByte, Fault, InStep
<1>5. CASE UNCHANGED vars
  BY <1>5 DEF vars, linkVars, decoderVars, InStep, AllSent, Aligned, Encoded
<1> QED BY <1>2, <1>3, <1>4, <1>5 DEF Next

(***************************************************************************)
(* The decoder and the sender begin in step.                                *)
(***************************************************************************)
LEMMA StreamStart == Init => CandidateBounded /\ SendTypeOK /\ InStep
<1> SUFFICES ASSUME Init PROVE CandidateBounded /\ SendTypeOK /\ InStep
  OBVIOUS
<1>1. CandidateBounded
  BY FreshIsBounded DEF Init, DecoderInit, Fresh
<1>2. /\ frame \in SentFrames /\ frame \in Frame /\ sent = 0 /\ missed = 0 /\ buffer = <<>>
  BY StreamAssumption DEF Init, DecoderInit
<1>3. Encoded \in Seq(Byte) /\ Len(Encoded) \in Nat /\ Len(Encoded) >= kFrameOverhead
  BY <1>2, EncodedLength DEF Encoded
<1>4. SendTypeOK
  BY <1>2, <1>3 DEF SendTypeOK
<1>5. ~AllSent
  BY <1>2, <1>3, Sizes DEF AllSent
<1>6. SubSeq(Encoded, 1, 0) = <<>>
  BY <1>3
<1> QED BY <1>1, <1>2, <1>4, <1>5, <1>6 DEF InStep, Aligned

(***************************************************************************)
(* A frame that arrives intact is delivered, for every frame and whatever  *)
(* faults came before it, if the decoder held nothing when it began: the   *)
(* candidate is the sent prefix until feed has the last byte.              *)
(***************************************************************************)
THEOREM IntactFramesAreDelivered == LinksSpec => []IntactFrameDelivered
<1> DEFINE DInv == CandidateBounded /\ SendTypeOK /\ InStep
<1>1. LinksInit => DInv
  BY StreamStart DEF LinksInit
<1>2. DInv /\ [LinksNext]_linkedVars => DInv'
  <2>1. [LinksNext]_linkedVars => [Next]_vars
    BY DEF LinksNext, linkedVars, vars
  <2> QED BY <2>1, SendTypeStep, InStepStep
<1>3. DInv => IntactFrameDelivered
  BY DEF InStep, IntactFrameDelivered
<1> QED BY <1>1, <1>2, <1>3, PTL DEF LinksSpec

-----------------------------------------------------------------------------
(* The recovery after a fault. *)

(***************************************************************************)
(* What fits into a gives at most the quotient.                            *)
(***************************************************************************)
LEMMA Quotient ==
  ASSUME NEW a \in Nat, NEW b \in Nat, b > 0, NEW q \in Nat, q * b <= a
  PROVE  q <= a \div b
<1> DEFINE d == a \div b
<1> DEFINE r == a % b
<1>1. d \in Nat /\ r \in Nat /\ r < b /\ a = b * d + r
  OBVIOUS
<1> HIDE DEF d, r
<1> SUFFICES ASSUME q > d PROVE FALSE
  BY <1>1 DEF d
<1>2. PICK k \in Nat : q = d + 1 + k
  <2>1. q - d - 1 \in Nat /\ q = d + 1 + (q - d - 1)
    BY <1>1
  <2> QED BY <2>1
<1>3. q * b = b * d + b + k * b
  BY <1>1, <1>2
<1>4. b * d \in Nat /\ k * b \in Nat
  BY <1>1
<1> QED BY <1>1, <1>3, <1>4

(***************************************************************************)
(* A candidate with a byte to come that reaches over m whole frames leaves *)
(* room in MissBound for one more.                                         *)
(***************************************************************************)
LEMMA RoomForOneMore ==
  /\ MissBound \in Nat /\ MissBound >= 1
  /\ \A m \in Nat : m * kFrameOverhead <= kMaxEncodedFrameSize - 2 => m + 1 <= MissBound
<1> DEFINE a == kMaxEncodedFrameSize - 1 + kFrameOverhead - 1
<1>1. /\ kFrameOverhead \in Nat /\ kFrameOverhead > 0
      /\ kMaxEncodedFrameSize \in Nat /\ kMaxEncodedFrameSize >= 2
  BY Sizes
<1>2. a \in Nat /\ a = kMaxEncodedFrameSize - 2 + kFrameOverhead
  BY <1>1
<1>3. MissBound = a \div kFrameOverhead
  BY DEF MissBound, Ceiling
<1> HIDE DEF a
<1>4. MissBound \in Nat
  BY <1>1, <1>2, <1>3
<1>5. ASSUME NEW m \in Nat, m * kFrameOverhead <= kMaxEncodedFrameSize - 2
      PROVE  m + 1 <= MissBound
  <2>1. (m + 1) * kFrameOverhead = m * kFrameOverhead + kFrameOverhead
    BY <1>1
  <2>2. m * kFrameOverhead \in Nat
    BY <1>1
  <2>3. (m + 1) * kFrameOverhead <= a
    BY <1>1, <1>2, <1>5, <2>1, <2>2
  <2> QED BY <1>1, <1>2, <1>3, <2>3, Quotient
<1>6. 0 * kFrameOverhead = 0
  BY <1>1
<1>7. MissBound >= 1
  BY <1>1, <1>4, <1>5, <1>6
<1> QED BY <1>4, <1>5, <1>7

(***************************************************************************)
(* What a byte does to a candidate: it is longer by one, or it is given up *)
(* and only a magic byte begins the next.                                  *)
(***************************************************************************)
LEMMA CandidateStep ==
  ASSUME CandidateBounded, NEW b \in Byte, feed(b)
  PROVE  /\ buffer = <<>> => buffer' = IF b = kFrameMagic THEN <<b>> ELSE <<>>
         /\ buffer # <<>> =>
              /\ Len(buffer) + 1 <= kMaxEncodedFrameSize
              /\ \/ Len(buffer') = Len(buffer) + 1
                 \/ buffer' = <<>>
                 \/ b = kFrameMagic /\ buffer' = <<b>>
<1>1. Len(buffer) \in Nat /\ buffer \in Seq(Byte)
  BY DEF CandidateBounded
<1>2. CASE buffer = <<>>
  BY <1>2 DEF feed, FeedNoise, FeedMagic, FeedBadHeader, FeedMore, FeedLast
<1>3. CASE buffer # <<>>
  <2>1. Len(buffer) + 1 <= kMaxEncodedFrameSize
    <3>1. CASE Len(buffer) < kFrameHeaderSize
      BY <1>1, <3>1, Sizes
    <3>2. CASE Len(buffer) >= kFrameHeaderSize
      <4>1. /\ Len(buffer) < expected_length /\ expected_length <= kMaxEncodedFrameSize
            /\ expected_length = kFrameOverhead + DeclaredLength(buffer)
        BY <3>2 DEF CandidateBounded
      <4>2. buffer[kFrameHeaderSize] \in Byte
        BY <1>1, <3>2, Sizes
      <4>3. DeclaredLength(buffer) \in Nat
        BY <4>2, BytesAreNumbers DEF DeclaredLength
      <4> QED BY <1>1, <4>1, <4>3, Sizes
    <3> QED BY <1>1, <3>1, <3>2, Sizes
  <2>2. CASE FeedBadHeader(b)
    BY <1>3, <2>1, <2>2 DEF FeedBadHeader, fail
  <2>3. CASE FeedMore(b)
    <3>1. Len(buffer') = Len(buffer) + 1
      BY <1>1, <2>3 DEF FeedMore
    <3> QED BY <1>3, <2>1, <3>1
  <2>4. CASE FeedLast(b)
    BY <1>3, <2>1, <2>4 DEF FeedLast, Reset
  <2> QED BY <1>3, <2>2, <2>3, <2>4 DEF feed, FeedNoise, FeedMagic
<1> QED BY <1>2, <1>3

\* The bytes of an intact frame that the decoder has been given.
Given == IF intact /\ ~AllSent THEN sent ELSE 0

(***************************************************************************)
(* While frames are plain: a candidate that the last fault left behind has *)
(* swallowed, after its own first byte, every frame missed since and what  *)
(* came of the current one; once it is given up inside a frame that one is *)
(* the last to be missed, and the next magic byte begins a frame.          *)
(***************************************************************************)
Recovers ==
  /\ ~intact \/ ~plain => missed = 0
  /\ plain =>
       /\ MagicFree(frame) /\ missed <= MissBound
       /\ buffer = <<>> /\ intact /\ 0 < sent /\ ~AllSent => missed + 1 <= MissBound
       /\ buffer # <<>> => \/ intact /\ ~AllSent /\ Aligned
                           \/ Len(buffer) >= 1 + missed * kFrameOverhead + Given

(***************************************************************************)
(* A byte of an intact frame, among frames that are plain.                 *)
(***************************************************************************)
LEMMA RecoversByte ==
  ASSUME CandidateBounded, SendTypeOK, Recovers, SendByte, intact, plain
  PROVE  Recovers'
<1> DEFINE L == Len(Encoded)
<1> DEFINE b == Encoded[sent + 1]
<1> DEFINE OH == kFrameOverhead
<1> DEFINE x == missed * OH
<1>1. /\ frame \in Frame /\ sent \in Nat /\ missed \in Nat /\ L \in Nat /\ L >= OH
      /\ Encoded \in Seq(Byte) /\ Encoded[1] = kFrameMagic /\ sent <= L
      /\ OH \in Nat /\ OH > 3
  <2>1. frame \in Frame
    BY StreamAssumption DEF SendTypeOK
  <2> QED BY <2>1, EncodedLength, Sizes DEF SendTypeOK, Encoded
<1>2. /\ sent < L /\ feed(b) /\ sent' = sent + 1 /\ frame' = frame /\ Encoded' = Encoded
      /\ intact' = intact /\ plain' = plain /\ L' = L
  BY <1>1 DEF SendByte, AllSent, Encoded
<1>3. MagicFree(frame) /\ MagicFree(frame)' /\ missed <= MissBound
  BY <1>2 DEF Recovers, MagicFree
<1>4. /\ sent + 1 < L => missed' = missed
      /\ sent + 1 = L => missed' = 0 \/ missed' = missed + 1
      /\ sent + 1 = L /\ Delivers => missed' = 0
  BY <1>1, <1>3, RoomForOneMore DEF SendByte
<1>5. b \in Byte /\ (b = kFrameMagic <=> sent = 0)
  <2>1. CASE sent = 0
    BY <1>1, <1>2, <2>1
  <2>2. CASE sent # 0
    <3>1. sent + 1 \in 2 .. L /\ sent + 1 \in 1 .. L
      BY <1>1, <1>2, <2>2
    <3>2. b # kFrameMagic
      BY <1>3, <3>1 DEF MagicFree, Encoded
    <3> QED BY <1>1, <2>2, <3>1, <3>2
  <2> QED BY <2>1, <2>2
<1>6. AllSent' <=> sent + 1 = L
  BY <1>2 DEF AllSent
<1>7. Given' = IF sent + 1 # L THEN sent + 1 ELSE 0
  BY <1>2, <1>6 DEF Given
<1>8. Given = sent
  BY <1>1, <1>2 DEF Given, AllSent
<1>9. ASSUME Aligned PROVE Recovers'
  <2>1. IF sent + 1 = L
          THEN buffer' = <<>> /\ result' = StreamResult("frame_ready", Delivered(frame), "none")
          ELSE buffer' = SubSeq(Encoded, 1, sent + 1)
    BY <1>1, <1>2, <1>9, AlignedFeed DEF Encoded, Aligned
  <2>2. CASE sent + 1 = L
    <3>1. Delivers
      BY <2>1, <2>2 DEF Delivers, StreamResult
    <3>2. missed' = 0 /\ buffer' = <<>> /\ AllSent'
      BY <1>4, <1>6, <2>1, <2>2, <3>1
    <3> QED BY <1>2, <1>3, <3>2, RoomForOneMore DEF Recovers
  <2>3. CASE sent + 1 # L
    <3>1. buffer' = SubSeq(Encoded, 1, sent + 1) /\ sent + 1 < L
      BY <1>1, <1>2, <2>1, <2>3
    <3>2. Len(buffer') = sent + 1
      BY <1>1, <3>1
    <3>3. buffer' # <<>>
      BY <1>1, <3>2
    <3>4. Aligned' /\ ~AllSent' /\ missed' = missed
      BY <1>2, <1>4, <1>6, <3>1 DEF Aligned
    <3> QED BY <1>2, <1>3, <3>3, <3>4 DEF Recovers
  <2> QED BY <2>2, <2>3
<1>10. CASE buffer = <<>>
  <2>1. CASE sent = 0
    <3>1. SubSeq(Encoded, 1, 0) = <<>>
      BY <1>1
    <3> QED BY <1>9, <1>10, <2>1, <3>1 DEF Aligned
  <2>2. CASE sent # 0
    <3>1. buffer' = <<>>
      BY <1>2, <1>5, <1>10, <2>2, CandidateStep
    <3>2. missed + 1 <= MissBound
      BY <1>1, <1>2, <1>10, <2>2 DEF Recovers, AllSent
    <3>3. missed' <= MissBound /\ (~AllSent' => missed' + 1 <= MissBound)
      BY <1>1, <1>2, <1>4, <1>6, <3>2, RoomForOneMore
    <3> QED BY <1>2, <1>3, <3>1, <3>3 DEF Recovers
  <2> QED BY <2>1, <2>2
<1>11. CASE buffer # <<>> /\ ~Aligned
  <2>1. Len(buffer) >= 1 + x + sent
    BY <1>8, <1>11 DEF Recovers
  <2>2. Len(buffer) + 1 <= kMaxEncodedFrameSize
    BY <1>2, <1>5, <1>11, CandidateStep
  <2>3. x \in Nat /\ Len(buffer) \in Nat /\ kMaxEncodedFrameSize \in Nat
    BY <1>1, Sizes DEF CandidateBounded
  <2>4. (missed + 1) * OH = x + OH
    BY <1>1
  <2>5. missed + 1 <= MissBound
    <3>1. x <= kMaxEncodedFrameSize - 2
      BY <1>1, <2>1, <2>2, <2>3
    <3> QED BY <1>1, <3>1, RoomForOneMore
  <2>6. missed' <= MissBound /\ (~AllSent' => missed' + 1 <= MissBound)
    BY <1>1, <1>2, <1>4, <1>6, <2>5, RoomForOneMore
  <2>7. CASE buffer' = <<>>
    BY <1>2, <1>3, <2>6, <2>7 DEF Recovers
  <2>8. CASE b = kFrameMagic /\ buffer' = <<b>>
    <3>1. sent = 0 /\ sent + 1 < L /\ sent + 1 # L
      <4>1. sent = 0
        BY <1>5, <2>8
      <4>2. L \in Nat /\ L > 3
        BY <1>1
      <4> HIDE DEF L
      <4> QED BY <4>1, <4>2
    <3>2. SubSeq(Encoded, 1, 1) = <<b>>
      <4> DEFINE t == SubSeq(Encoded, 1, 1)
      <4>1. t \in Seq(Byte) /\ Len(t) = 1 /\ t[1] = b
        BY <1>1, <3>1
      <4>2. <<b>> \in Seq(Byte) /\ Len(<<b>>) = 1 /\ <<b>>[1] = b
        BY <1>5
      <4> HIDE DEF t, b
      <4>3. t = <<b>>
        BY <4>1, <4>2
      <4> QED BY <4>3 DEF t
    <3>3. Aligned' /\ ~AllSent' /\ missed' = missed
      <4>1. sent' = 1
        BY <1>2, <3>1
      <4>2. buffer' = SubSeq(Encoded', 1, sent')
        BY <1>2, <2>8, <3>2, <4>1
      <4> QED BY <1>4, <1>6, <3>1, <4>2 DEF Aligned
    <3>4. buffer' # <<>>
      BY <2>8
    <3> QED BY <1>2, <1>3, <3>3, <3>4 DEF Recovers
  <2>9. CASE Len(buffer') = Len(buffer) + 1
    <3>1. buffer' # <<>>
      BY <2>3, <2>9
    <3>2. Len(buffer') >= 1 + missed' * OH + Given'
      <4>1. CASE sent + 1 < L
        BY <1>1, <1>4, <1>7, <2>1, <2>3, <2>9, <4>1
      <4>2. CASE sent + 1 = L /\ missed' = 0
        <5>1. missed' * OH = 0
          BY <1>1, <4>2
        <5> QED BY <1>7, <2>3, <2>9, <4>2, <5>1
      <4>3. CASE sent + 1 = L /\ missed' = missed + 1
        <5>1. missed' * OH = x + OH
          BY <2>4, <4>3
        <5> HIDE DEF x
        <5> QED BY <1>1, <1>7, <2>1, <2>3, <2>9, <4>3, <5>1
      <4> QED BY <1>1, <1>2, <1>4, <4>1, <4>2, <4>3
    <3> QED BY <1>2, <1>3, <2>6, <3>1, <3>2 DEF Recovers
  <2> QED BY <1>2, <1>5, <1>11, <2>7, <2>8, <2>9, CandidateStep
<1> QED BY <1>9, <1>10, <1>11

(***************************************************************************)
(* A step that leaves nothing missed needs only the frame to be plain.     *)
(***************************************************************************)
LEMMA NothingMissed ==
  missed = 0 /\ ~intact /\ (plain => MagicFree(frame)) /\ buffer \in Seq(Byte) => Recovers
<1> SUFFICES ASSUME missed = 0, ~intact, plain => MagicFree(frame), buffer \in Seq(Byte)
             PROVE  Recovers
  OBVIOUS
<1>1. Given = 0
  BY DEF Given
<1>2. 0 * kFrameOverhead = 0
  BY Sizes
<1>3. buffer # <<>> => Len(buffer) >= 1 + missed * kFrameOverhead + Given
  BY <1>1, <1>2
<1> QED BY <1>3, RoomForOneMore DEF Recovers

(***************************************************************************)
(* Every step of the stream keeps the account of what was missed.           *)
(***************************************************************************)
LEMMA RecoversStep ==
  CandidateBounded /\ SendTypeOK /\ Recovers /\ [Next]_vars => Recovers'
<1> SUFFICES ASSUME CandidateBounded, SendTypeOK, Recovers, [Next]_vars PROVE Recovers'
  OBVIOUS
<1>0. buffer' \in Seq(Byte)
  BY SendTypeStep DEF CandidateBounded
<1>1. missed' = 0 /\ ~intact' /\ (plain' => MagicFree(frame)') => Recovers'
  <2>1. (missed = 0 /\ ~intact /\ (plain => MagicFree(frame)) /\ buffer \in Seq(Byte))'
          => Recovers'
    BY NothingMissed, PTL
  <2> QED BY <1>0, <2>1
<1>2. plain => MagicFree(frame)
  BY DEF Recovers
<1>3. ASSUME NEW f \in SentFrames, BeginFrame(f) PROVE Recovers'
  <2>1. /\ AllSent /\ frame' = f /\ sent' = 0 /\ buffer' = buffer
        /\ plain' = (plain /\ MagicFree(f)) /\ missed' = (IF plain' THEN missed ELSE 0)
    BY <1>3 DEF BeginFrame, decoderVars
  <2>2. Given = 0 /\ Given' = 0
    BY <2>1 DEF Given
  <2>3. ~(0 < sent')
    BY <2>1
  <2>4. CASE plain'
    <3>1. plain /\ MagicFree(f) /\ missed' = missed
      BY <2>1, <2>4
    <3>2. buffer # <<>> => Len(buffer) >= 1 + missed * kFrameOverhead + Given
      BY <2>1, <3>1 DEF Recovers
    <3>3. /\ missed <= MissBound /\ intact'
      BY <1>3, <3>1 DEF Recovers, BeginFrame
    <3>4. MagicFree(frame)'
      BY <2>1, <3>1 DEF MagicFree
    <3> QED BY <2>1, <2>2, <2>3, <2>4, <3>1, <3>2, <3>3, <3>4 DEF Recovers
  <2>5. CASE ~plain'
    BY <2>1, <2>5 DEF Recovers
  <2> QED BY <2>4, <2>5
<1>4. CASE SendByte
  <2>1. CASE intact /\ plain
    BY <1>4, <2>1, RecoversByte
  <2>2. CASE ~plain
    <3>1. plain' = plain /\ missed' = missed /\ missed = 0
      BY <1>4, <2>2 DEF SendByte, Recovers
    <3> QED BY <2>2, <3>1 DEF Recovers
  <2>3. CASE plain /\ ~intact
    <3>1. plain' = plain /\ intact' = intact /\ frame' = frame /\ missed' = missed /\ missed = 0
      BY <1>4, <2>3 DEF SendByte, Recovers
    <3>2. MagicFree(frame)'
      BY <1>2, <2>3, <3>1 DEF MagicFree
    <3> QED BY <1>1, <2>3, <3>1, <3>2
  <2> QED BY <2>1, <2>2, <2>3
<1>5. CASE LoseByte \/ ResetDecoder \/ \E b \in Byte : ChangeByte(b) \/ InsertByte(b)
  <2>1. frame' = frame /\ plain' = plain /\ missed' = 0 /\ ~intact'
    BY <1>5 DEF LoseByte, ResetDecoder, ChangeByte, InsertByte, Fault
  <2>2. plain' => MagicFree(frame)'
    BY <1>2, <2>1 DEF MagicFree
  <2> QED BY <1>1, <2>1, <2>2
<1>6. CASE UNCHANGED vars
  BY <1>6 DEF vars, linkVars, decoderVars, Recovers, MagicFree, AllSent, Aligned, Encoded, Given
<1> QED BY <1>3, <1>4, <1>5, <1>6 DEF Next

(***************************************************************************)
(* The decoder falls into step again: while frames hold the magic byte     *)
(* only as their first, at most MissBound intact frames are lost after a   *)
(* fault, for every number and kind of faults and every size of the codec. *)
(***************************************************************************)
THEOREM LossIsBounded == LinksSpec => []LossBounded
<1> DEFINE LInv == CandidateBounded /\ SendTypeOK /\ Recovers
<1>1. LinksInit => LInv
  <2> SUFFICES ASSUME Init PROVE LInv
    BY DEF LinksInit
  <2>1. /\ buffer = <<>> /\ sent = 0 /\ missed = 0 /\ intact /\ plain = MagicFree(frame)
    BY DEF Init, DecoderInit
  <2>2. Recovers
    BY <2>1, RoomForOneMore DEF Recovers
  <2> QED BY <2>2, StreamStart
<1>2. LInv /\ [LinksNext]_linkedVars => LInv'
  <2>1. [LinksNext]_linkedVars => [Next]_vars
    BY DEF LinksNext, linkedVars, vars
  <2> QED BY <2>1, SendTypeStep, RecoversStep
<1>3. LInv => LossBounded
  <2> SUFFICES ASSUME LInv PROVE LossBounded
    OBVIOUS
  <2>1. CASE plain
    BY <2>1 DEF Recovers, LossBounded
  <2>2. CASE ~plain
    BY <2>2, RoomForOneMore DEF Recovers, LossBounded
  <2> QED BY <2>1, <2>2
<1> QED BY <1>1, <1>2, <1>3, PTL DEF LinksSpec
==============================================================================
