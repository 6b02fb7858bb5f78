--------------------------- MODULE TPQCodecProofs ---------------------------
(***************************************************************************)
(* Theorems about TPQCodec, for any messages, any number of calls and any  *)
(* size of the heap: every variable keeps its type, every zmsg_t has one   *)
(* owner, a frame has the size computed for it, and a receive changes only *)
(* the fields of the message it announces; then what messages and copies   *)
(* say: what one end receives is what the other sent, and a copy, by dup   *)
(* or by way of a text, says what its original said.                       *)
(***************************************************************************)
EXTENDS TPQCodec, SequenceTheorems, WellFoundedInduction, TLAPS

-----------------------------------------------------------------------------
(***************************************************************************)
(* Numbers.                                                                *)
(***************************************************************************)

\* A byte is a number of at least ten values.
LEMMA ByteType == Byte \in Nat /\ Byte > 9 /\ Signature \in Nat
BY CodecAssumption

\* The product of two positive numbers is one.
LEMMA ProductPositive ==
  ASSUME NEW a \in Nat \ {0}, NEW b \in Nat \ {0}
  PROVE  a * b \in Nat \ {0}
OBVIOUS

\* The weights are positive.
LEMMA WeightType ==
  /\ Byte \in Nat \ {0} /\ Byte2 \in Nat \ {0} /\ Byte4 \in Nat \ {0}
  /\ \A k \in 0 .. 8 : Weight(k) \in Nat \ {0}
<1>1. Byte \in Nat \ {0}
  BY ByteType
<1>2. Byte2 \in Nat \ {0}
  BY <1>1, ProductPositive DEF Byte2
<1>3. Byte4 \in Nat \ {0}
  BY <1>2, ProductPositive DEF Byte4
<1>4. /\ Byte2 * Byte \in Nat \ {0} /\ Byte4 * Byte \in Nat \ {0}
      /\ Byte4 * Byte2 \in Nat \ {0} /\ Byte4 * Byte4 \in Nat \ {0}
  BY <1>1, <1>2, <1>3, ProductPositive
<1>5. Byte4 * (Byte2 * Byte) \in Nat \ {0}
  BY <1>3, <1>4, ProductPositive
<1>6. ASSUME NEW k \in 0 .. 8
      PROVE  Weight(k) \in Nat \ {0}
  BY <1>1, <1>2, <1>3, <1>4, <1>5 DEF Weight, Weights
<1>7. QED
  BY <1>1, <1>2, <1>3, <1>6

\* Each weight is Byte times the one before.
LEMMA WeightStep ==
  /\ Weight(0) = 1 /\ Weight(2) = Byte2 /\ Weight(4) = Byte4
  /\ Weight(8) = Byte4 * Byte4
  /\ \A k \in 0 .. 7 : Weight(k + 1) = Weight(k) * Byte
<1>1. Weight(0) = 1 /\ Weight(2) = Byte2 /\ Weight(4) = Byte4
      /\ Weight(8) = Byte4 * Byte4
  BY DEF Weight, Weights
<1>2. /\ Byte \in Nat /\ Byte2 \in Nat /\ Byte4 \in Nat
      /\ Byte2 = Byte * Byte /\ Byte4 = Byte2 * Byte2
  BY WeightType DEF Byte2, Byte4
<1>3. ASSUME NEW k \in 0 .. 7
      PROVE  Weight(k + 1) = Weight(k) * Byte
  <2>1. CASE k = 0 BY <2>1, <1>2 DEF Weight, Weights
  <2>2. CASE k = 1 BY <2>2, <1>2 DEF Weight, Weights
  <2>3. CASE k = 2 BY <2>3, <1>2 DEF Weight, Weights
  <2>4. CASE k = 3
    <3>1. Byte2 * Byte2 = (Byte2 * Byte) * Byte
      BY <1>2
    <3>2. Weight(4) = Byte4 /\ Weight(3) = Byte2 * Byte
      BY DEF Weight, Weights
    <3>3. QED
      BY <2>4, <3>1, <3>2, <1>2
  <2>5. CASE k = 4 BY <2>5, <1>2 DEF Weight, Weights
  <2>6. CASE k = 5
    <3>1. Byte4 * Byte2 = (Byte4 * Byte) * Byte
      BY <1>2
    <3>2. Weight(6) = Byte4 * Byte2 /\ Weight(5) = Byte4 * Byte
      BY DEF Weight, Weights
    <3>3. QED
      BY <2>6, <3>1, <3>2
  <2>7. CASE k = 6
    <3>1. Byte4 * (Byte2 * Byte) = (Byte4 * Byte2) * Byte
      BY <1>2
    <3>2. Weight(7) = Byte4 * (Byte2 * Byte) /\ Weight(6) = Byte4 * Byte2
      BY DEF Weight, Weights
    <3>3. QED
      BY <2>7, <3>1, <3>2
  <2>8. CASE k = 7
    <3>1. Byte4 * Byte4 = (Byte4 * (Byte2 * Byte)) * Byte
      BY <1>2
    <3>2. Weight(8) = Byte4 * Byte4 /\ Weight(7) = Byte4 * (Byte2 * Byte)
      BY DEF Weight, Weights
    <3>3. QED
      BY <2>8, <3>1, <3>2
  <2>9. QED
    BY <2>1, <2>2, <2>3, <2>4, <2>5, <2>6, <2>7, <2>8
<1>4. QED
  BY <1>1, <1>3

\* A number is its quotient and its remainder.
LEMMA Division ==
  ASSUME NEW n \in Nat, NEW b \in Nat \ {0}
  PROVE  /\ n \div b \in Nat /\ n % b \in 0 .. b - 1
         /\ n = (n \div b) * b + (n % b)
OBVIOUS

\* The quotient and the remainder are the only such numbers.
LEMMA DivisionUnique ==
  ASSUME NEW n \in Nat, NEW b \in Nat \ {0}, NEW q \in Nat, NEW r \in 0 .. b - 1,
         n = q * b + r
  PROVE  q = n \div b /\ r = n % b
OBVIOUS

\* Two shifts are one.
LEMMA DivisionTwice ==
  ASSUME NEW n \in Nat, NEW a \in Nat \ {0}, NEW b \in Nat \ {0}
  PROVE  (n \div a) \div b = n \div (a * b)
<1> DEFINE q == (n \div a) \div b
           r == (n \div a) % b
           s == n % a
<1>1. /\ n \div a \in Nat /\ s \in 0 .. a - 1 /\ n = (n \div a) * a + s
  BY Division
<1>2. /\ q \in Nat /\ r \in 0 .. b - 1 /\ n \div a = q * b + r
  BY <1>1, Division
<1>3. n = (q * b + r) * a + s
  BY <1>1, <1>2
<1> HIDE DEF q, r, s
<1>4. n = q * (a * b) + (r * a + s)
  BY <1>1, <1>2, <1>3
<1>5. r * a + s \in 0 .. (a * b) - 1
  <2>1. r * a <= (b - 1) * a
    BY <1>2
  <2>2. (b - 1) * a = a * b - a
    OBVIOUS
  <2>3. r * a \in Nat /\ a * b \in Nat
    BY <1>2
  <2>4. QED
    BY <1>1, <2>1, <2>2, <2>3
<1>6. a * b \in Nat \ {0}
  BY ProductPositive
<1>7. q = n \div (a * b)
  BY <1>2, <1>4, <1>5, <1>6, DivisionUnique
<1>8. QED
  BY <1>7 DEF q


-----------------------------------------------------------------------------
(***************************************************************************)
(* Numbers in a frame.                                                     *)
(***************************************************************************)

Bytes == Seq(0 .. Byte - 1)

\* A function on an initial part of the positive numbers is a sequence.
LEMMA FunctionIsSeq ==
  ASSUME NEW S, NEW n \in Nat, NEW f \in [1 .. n -> S]
  PROVE  f \in Seq(S) /\ Len(f) = n
OBVIOUS

\* A number is written in as many bytes as it has.
LEMMA PutNumberType ==
  ASSUME NEW n \in Nat, NEW w \in 0 .. 8
  PROVE  PutNumber(n, w) \in Bytes /\ Len(PutNumber(n, w)) = w
<1>1. ASSUME NEW i \in 1 .. w
      PROVE  (n \div Weight(w - i)) % Byte \in 0 .. Byte - 1
  <2>1. Weight(w - i) \in Nat \ {0}
    BY WeightType
  <2>2. n \div Weight(w - i) \in Nat
    BY <2>1, Division
  <2>3. QED
    BY <2>2, WeightType, Division
<1>2. PutNumber(n, w) \in [1 .. w -> 0 .. Byte - 1]
  BY <1>1 DEF PutNumber
<1>3. w \in Nat
  OBVIOUS
<1> DEFINE f == PutNumber(n, w)
           S == 0 .. Byte - 1
<1>4. f \in [1 .. w -> S]
  BY <1>2
<1> HIDE DEF f, S
<1>5. f \in Seq(S) /\ Len(f) = w
  BY <1>3, <1>4, FunctionIsSeq
<1>6. QED
  BY <1>5 DEF Bytes, f, S

\* The sums of the GET macros stay within the width they read.
LEMMA GetNumberType ==
  ASSUME NEW b \in Bytes, Len(b) \in {2, 4, 8}
  PROVE  GetNumber(b) \in 0 .. Weight(Len(b)) - 1
<1>1. ASSUME NEW h \in Nat, NEW B \in Nat \ {0}, NEW x \in 0 .. B - 1, NEW y \in 0 .. B - 1
      PROVE  x * B + y \in 0 .. (B * B) - 1
  <2>1. x * B <= (B - 1) * B
    OBVIOUS
  <2>2. (B - 1) * B = B * B - B
    OBVIOUS
  <2>3. x * B \in Nat /\ B * B \in Nat
    OBVIOUS
  <2>4. QED
    BY <2>1, <2>2, <2>3
<1>2. \A i \in 1 .. Len(b) : b[i] \in 0 .. Byte - 1
  BY ElementOfSeq DEF Bytes
<1>3. Len(b) \in Nat
  OBVIOUS
<1>4. ASSUME NEW i \in 1 .. Len(b), i + 1 <= Len(b)
      PROVE  GetNumber2(b, i) \in 0 .. Byte2 - 1
  <2>1. b[i] \in 0 .. Byte - 1 /\ b[i + 1] \in 0 .. Byte - 1
    BY <1>2, <1>3, <1>4
  <2>2. b[i] * Byte + b[i + 1] \in 0 .. (Byte * Byte) - 1
    BY <1>1, <2>1, WeightType
  <2>3. QED
    BY <2>2 DEF GetNumber2, Byte2
<1>5. ASSUME NEW i \in 1 .. Len(b), i + 3 <= Len(b)
      PROVE  GetNumber4(b, i) \in 0 .. Byte4 - 1
  <2>1. i \in Nat /\ i + 2 \in 1 .. Len(b)
    BY <1>3, <1>5
  <2>2. /\ GetNumber2(b, i) \in 0 .. Byte2 - 1
        /\ GetNumber2(b, i + 2) \in 0 .. Byte2 - 1
    BY <1>3, <1>4, <1>5, <2>1
  <2>3. QED
    BY <1>1, <2>2, WeightType DEF GetNumber4, Byte4
<1>6. CASE Len(b) = 2
  BY <1>4, <1>6, WeightStep DEF GetNumber
<1>7. CASE Len(b) = 4
  BY <1>5, <1>7, WeightStep DEF GetNumber
<1>8. CASE Len(b) = 8
  <2>1. GetNumber(b) = GetNumber4(b, 1) * Byte4 + GetNumber4(b, 5)
    BY <1>8 DEF GetNumber, GetNumber8
  <2>2. GetNumber4(b, 1) \in 0 .. Byte4 - 1 /\ GetNumber4(b, 5) \in 0 .. Byte4 - 1
    BY <1>5, <1>8
  <2>3. GetNumber(b) \in 0 .. (Byte4 * Byte4) - 1
    BY <1>1, <2>1, <2>2, WeightType
  <2>4. QED
    BY <1>8, <2>3, WeightStep
<1>9. QED
  BY <1>6, <1>7, <1>8

\* What PUT wrote, GET reads.
LEMMA NumberRoundTrip ==
  ASSUME NEW w \in {2, 4, 8}, NEW n \in 0 .. Weight(w) - 1
  PROVE  GetNumber(PutNumber(n, w)) = n
<1> DEFINE Q(k) == n \div Weight(k)
           b == PutNumber(n, w)
<1>1. n \in Nat /\ \A k \in 0 .. 8 : Weight(k) \in Nat \ {0}
  BY WeightType
<1>2. \A k \in 0 .. 8 : Q(k) \in Nat
  BY <1>1, Division
<1>3. ASSUME NEW k \in 0 .. 7
      PROVE  Q(k) = Q(k + 1) * Byte + (Q(k) % Byte)
  <2>1. Q(k) \div Byte = Q(k + 1)
    <3>1. Weight(k) \in Nat \ {0} /\ Byte \in Nat \ {0}
      BY WeightType
    <3>2. (n \div Weight(k)) \div Byte = n \div (Weight(k) * Byte)
      BY <1>1, <3>1, DivisionTwice
    <3>3. Weight(k + 1) = Weight(k) * Byte
      BY WeightStep
    <3>4. QED
      BY <3>2, <3>3
  <2>2. Q(k) \in Nat /\ Byte \in Nat \ {0}
    BY <1>2, WeightType
  <2>3. Q(k) = (Q(k) \div Byte) * Byte + (Q(k) % Byte)
    BY <2>2, Division
  <2>4. QED
    BY <2>1, <2>3
<1>4. Q(0) = n
  BY <1>1, WeightStep
<1>5. Q(w) = 0
  <2>1. Weight(w) \in Nat \ {0}
    BY <1>1
  <2>2. n = 0 * Weight(w) + n
    BY <1>1, <2>1
  <2>3. QED
    BY <1>1, <2>1, <2>2, DivisionUnique
<1>6. Len(b) = w /\ \A i \in 1 .. w : b[i] = Q(w - i) % Byte
  BY <1>1, PutNumberType DEF PutNumber
<1>7. /\ Byte \in Nat /\ Byte2 \in Nat /\ Byte4 \in Nat
      /\ Byte2 = Byte * Byte /\ Byte4 = Byte2 * Byte2
  BY WeightType DEF Byte2, Byte4
<1>8. ASSUME NEW k \in 0 .. 7
      PROVE  Q(k) % Byte \in Nat
  <2>1. Q(k) \in Nat /\ Byte \in Nat \ {0}
    BY <1>2, WeightType
  <2> HIDE DEF Q
  <2>2. Q(k) % Byte \in 0 .. Byte - 1
    BY <2>1, Division
  <2>3. QED
    BY <2>1, <2>2
<1> HIDE DEF Q, b
<1>9. ASSUME NEW i \in 1 .. 7, i + 1 <= w
      PROVE  GetNumber2(b, i) = Q(w - (i + 1)) - Q((w - (i + 1)) + 2) * Byte2
  <2> DEFINE k == w - (i + 1)
  <2>1. k \in 0 .. 6 /\ w - i = k + 1
    BY <1>9
  <2>2. b[i] = Q(k + 1) % Byte /\ b[i + 1] = Q(k) % Byte
    BY <1>6, <1>9, <2>1
  <2> HIDE DEF k
  <2>3. Q(k) = Q(k + 1) * Byte + (Q(k) % Byte)
    BY <1>3, <2>1
  <2>4. Q(k + 1) = Q(k + 2) * Byte + (Q(k + 1) % Byte)
    BY <1>3, <2>1
  <2>5. /\ Q(k) \in Nat /\ Q(k + 1) \in Nat /\ Q(k + 2) \in Nat
        /\ Q(k) % Byte \in Nat /\ Q(k + 1) % Byte \in Nat
    BY <1>2, <1>8, <2>1
  <2>6. ASSUME NEW q0 \in Nat, NEW q1 \in Nat, NEW q2 \in Nat, NEW r0 \in Nat,
               NEW r1 \in Nat, q0 = q1 * Byte + r0, q1 = q2 * Byte + r1
        PROVE  r1 * Byte + r0 = q0 - q2 * (Byte * Byte)
    BY <2>6, <1>7
  <2>7. (Q(k + 1) % Byte) * Byte + (Q(k) % Byte) = Q(k) - Q(k + 2) * (Byte * Byte)
    BY <2>3, <2>4, <2>5, <2>6
  <2>8. GetNumber2(b, i) = Q(k) - Q(k + 2) * Byte2
    BY <1>7, <2>2, <2>7 DEF GetNumber2
  <2>9. QED
    BY <2>8 DEF k
<1>10. ASSUME NEW i \in {1, 5}, i + 3 <= w
       PROVE  GetNumber4(b, i) = Q(w - (i + 3)) - Q((w - (i + 3)) + 4) * Byte4
  <2> DEFINE k == w - (i + 3)
  <2>1. k \in 0 .. 4 /\ w - (i + 1) = k + 2 /\ w - ((i + 2) + 1) = k
    BY <1>10
  <2>2. GetNumber2(b, i) = Q(k + 2) - Q((k + 2) + 2) * Byte2
    BY <1>9, <1>10, <2>1
  <2>3. GetNumber2(b, i + 2) = Q(k) - Q(k + 2) * Byte2
    <3>1. i + 2 \in 1 .. 7 /\ (i + 2) + 1 <= w
      BY <1>10
    <3>2. QED
      BY <1>9, <2>1, <3>1
  <2>4. (k + 2) + 2 = k + 4
    BY <2>1
  <2>5. Q(k) \in Nat /\ Q(k + 2) \in Nat /\ Q(k + 4) \in Nat
    BY <1>2, <2>1
  <2> HIDE DEF k
  <2>6. ASSUME NEW q0 \in Nat, NEW q2 \in Nat, NEW q4 \in Nat, NEW B \in Nat
        PROVE  (q2 - q4 * B) * B + (q0 - q2 * B) = q0 - q4 * (B * B)
    OBVIOUS
  <2>7. (Q(k + 2) - Q(k + 4) * Byte2) * Byte2 + (Q(k) - Q(k + 2) * Byte2)
          = Q(k) - Q(k + 4) * (Byte2 * Byte2)
    BY <1>7, <2>5, <2>6
  <2>8. GetNumber4(b, i) = Q(k) - Q(k + 4) * Byte4
    BY <1>7, <2>2, <2>3, <2>4, <2>7 DEF GetNumber4
  <2>9. QED
    BY <2>8 DEF k
<1>11. CASE w = 2
  <2>1. GetNumber2(b, 1) = Q(2 - (1 + 1)) - Q((2 - (1 + 1)) + 2) * Byte2
    BY <1>9, <1>11
  <2>2. 2 - (1 + 1) = 0 /\ (2 - (1 + 1)) + 2 = 2
    OBVIOUS
  <2>3. GetNumber2(b, 1) = n
    BY <1>1, <1>4, <1>5, <1>7, <1>11, <2>1, <2>2
  <2>4. QED
    BY <1>6, <1>11, <2>3 DEF GetNumber, b
<1>12. CASE w = 4
  <2>1. GetNumber4(b, 1) = Q(4 - (1 + 3)) - Q((4 - (1 + 3)) + 4) * Byte4
    BY <1>10, <1>12
  <2>2. 4 - (1 + 3) = 0 /\ (4 - (1 + 3)) + 4 = 4
    OBVIOUS
  <2>3. GetNumber4(b, 1) = n
    BY <1>1, <1>4, <1>5, <1>7, <1>12, <2>1, <2>2
  <2>4. QED
    BY <1>6, <1>12, <2>3 DEF GetNumber, b
<1>13. CASE w = 8
  <2>1. GetNumber4(b, 1) = Q(8 - (1 + 3)) - Q((8 - (1 + 3)) + 4) * Byte4
    BY <1>10, <1>13
  <2>2. GetNumber4(b, 5) = Q(8 - (5 + 3)) - Q((8 - (5 + 3)) + 4) * Byte4
    BY <1>10, <1>13
  <2>3. 8 - (1 + 3) = 4 /\ (8 - (1 + 3)) + 4 = 8 /\ 8 - (5 + 3) = 0
        /\ (8 - (5 + 3)) + 4 = 4
    OBVIOUS
  <2>4. Q(4) \in Nat /\ Q(8) = 0
    BY <1>2, <1>5, <1>13
  <2>5. GetNumber4(b, 1) = Q(4)
    BY <1>7, <2>1, <2>3, <2>4
  <2>6. GetNumber4(b, 5) = n - Q(4) * Byte4
    BY <1>4, <2>2, <2>3
  <2>7. GetNumber8(b, 1) = n
    <3>1. GetNumber8(b, 1) = GetNumber4(b, 1) * Byte4 + GetNumber4(b, 5)
      BY DEF GetNumber8
    <3>2. Q(4) * Byte4 \in Nat
      BY <1>7, <2>4
    <3>3. QED
      BY <1>1, <2>5, <2>6, <3>1, <3>2
  <2>8. QED
    BY <1>6, <1>13, <2>7 DEF GetNumber, b
<1>14. QED
  BY <1>11, <1>12, <1>13


-----------------------------------------------------------------------------
(***************************************************************************)
(* Objects whose strings fit their arrays.                                 *)
(***************************************************************************)

CodecFits ==
  {c \in CodecType : /\ Len(c.nickname) < Byte /\ Len(c.reason) < Byte
                     /\ Len(c.routing_id) <= 1}

FieldNames == {"routing_id", "id", "nickname", "detmask", "seqno", "tstart", "tspan",
               "timeout", "status", "payload", "reason"}

\* A number field holds what its width allows.
LEMMA CapacityOf ==
  /\ \A f \in Numbers : Capacity(f) \in Nat \ {0}
  /\ Capacity("detmask") = Weight(8) /\ Capacity("tstart") = Weight(8)
  /\ Capacity("tspan") = Weight(8) /\ Capacity("seqno") = Weight(4)
  /\ Capacity("timeout") = Weight(4) /\ Capacity("status") = Weight(2)
  /\ \A f \in Numbers : Width[f] \in {2, 4, 8}
<1>1. /\ Weight(2) \in Nat \ {0} /\ Weight(4) \in Nat \ {0} /\ Weight(8) \in Nat \ {0}
  BY WeightType
<1>2. /\ Capacity("detmask") = Weight(8) /\ Capacity("tstart") = Weight(8)
      /\ Capacity("tspan") = Weight(8) /\ Capacity("seqno") = Weight(4)
      /\ Capacity("timeout") = Weight(4) /\ Capacity("status") = Weight(2)
  BY DEF Capacity, Width
<1>3. \A f \in Numbers : Width[f] \in {2, 4, 8}
  BY DEF Numbers, Width
<1>4. \A f \in Numbers : Capacity(f) \in Nat \ {0}
  BY <1>1, <1>2 DEF Numbers
<1>5. QED
  BY <1>2, <1>3, <1>4

\* What the fields of an object hold, by their names.
LEMMA FieldsType ==
  ASSUME NEW c \in CodecFits
  PROVE  /\ c \in CodecType /\ DOMAIN c = FieldNames
         /\ \A f \in Numbers : c[f] \in 0 .. Capacity(f) - 1
         /\ \A f \in Strings : c[f] \in Bytes /\ Len(c[f]) < Byte
         /\ c.id \in 0 .. Byte - 1 /\ c.payload \in 0 .. MaxMsgs
         /\ c.routing_id \in Seq(Bytes) /\ Len(c.routing_id) <= 1
<1>1. c \in CodecType
  BY DEF CodecFits
<1>2. DOMAIN c = FieldNames
  BY <1>1 DEF CodecType, FieldNames
<1>3. \A f \in Numbers : c[f] \in 0 .. Capacity(f) - 1
  <2>1. /\ c["detmask"] \in 0 .. Weight(8) - 1 /\ c["tstart"] \in 0 .. Weight(8) - 1
        /\ c["tspan"] \in 0 .. Weight(8) - 1 /\ c["seqno"] \in 0 .. Weight(4) - 1
        /\ c["timeout"] \in 0 .. Weight(4) - 1 /\ c["status"] \in 0 .. Weight(2) - 1
    BY <1>1 DEF CodecType
  <2>2. QED
    BY <2>1, CapacityOf DEF Numbers
<1>4. \A f \in Strings : c[f] \in Bytes /\ Len(c[f]) < Byte
  BY <1>1 DEF CodecType, CodecFits, Strings, Bytes
<1>5. /\ c.id \in 0 .. Byte - 1 /\ c.payload \in 0 .. MaxMsgs
      /\ c.routing_id \in Seq(Bytes) /\ Len(c.routing_id) <= 1
  BY <1>1 DEF CodecType, CodecFits, Bytes
<1>6. QED
  BY <1>1, <1>2, <1>3, <1>4, <1>5

\* A function whose fields are of these types is such an object.
LEMMA FitsFromFields ==
  ASSUME NEW c, DOMAIN c = FieldNames, c = [f \in DOMAIN c |-> c[f]],
         \A f \in Numbers : c[f] \in 0 .. Capacity(f) - 1,
         \A f \in Strings : c[f] \in Bytes /\ Len(c[f]) < Byte,
         c.id \in 0 .. Byte - 1, c.payload \in 0 .. MaxMsgs,
         c.routing_id \in Seq(Bytes), Len(c.routing_id) <= 1
  PROVE  c \in CodecFits
<1>1. /\ c["detmask"] \in 0 .. Weight(8) - 1 /\ c["tstart"] \in 0 .. Weight(8) - 1
      /\ c["tspan"] \in 0 .. Weight(8) - 1 /\ c["seqno"] \in 0 .. Weight(4) - 1
      /\ c["timeout"] \in 0 .. Weight(4) - 1 /\ c["status"] \in 0 .. Weight(2) - 1
  BY CapacityOf DEF Numbers
<1>2. /\ c["nickname"] \in Bytes /\ c["reason"] \in Bytes
      /\ Len(c["nickname"]) < Byte /\ Len(c["reason"]) < Byte
  BY DEF Strings
<1>3. c \in CodecType
  BY <1>1, <1>2 DEF CodecType, FieldNames, Bytes
<1>4. QED
  BY <1>2, <1>3 DEF CodecFits

\* One number, or one string, is replaced.
LEMMA FieldUpdate ==
  ASSUME NEW c \in CodecFits, NEW f \in Strings \cup Numbers, NEW v,
         f \in Numbers => v \in 0 .. Capacity(f) - 1,
         f \in Strings => v \in Bytes /\ Len(v) < Byte
  PROVE  /\ [c EXCEPT ![f] = v] \in CodecFits
         /\ [c EXCEPT ![f] = v][f] = v
         /\ \A g \in FieldNames \ {f} : [c EXCEPT ![f] = v][g] = c[g]
<1> DEFINE d == [c EXCEPT ![f] = v]
<1>1. c \in CodecType /\ DOMAIN c = FieldNames
  BY FieldsType
<1>2. /\ DOMAIN d = FieldNames /\ d = [g \in DOMAIN d |-> d[g]]
      /\ d[f] = v /\ \A g \in FieldNames \ {f} : d[g] = c[g]
  BY <1>1 DEF FieldNames, Strings, Numbers, CodecType
<1>3. f \notin {"id", "payload", "routing_id"}
  BY DEF Strings, Numbers
<1>4. d.id = c.id /\ d.payload = c.payload /\ d.routing_id = c.routing_id
  BY <1>2, <1>3 DEF FieldNames
<1>5. \A g \in Strings \cup Numbers : d[g] = IF g = f THEN v ELSE c[g]
  BY <1>2 DEF FieldNames, Strings, Numbers
<1> HIDE DEF d
<1>6. \A g \in Numbers : d[g] \in 0 .. Capacity(g) - 1
  BY <1>5, FieldsType
<1>7. \A g \in Strings : d[g] \in Bytes /\ Len(d[g]) < Byte
  BY <1>5, FieldsType
<1>8. d \in CodecFits
  BY <1>2, <1>4, <1>6, <1>7, FieldsType, FitsFromFields
<1>9. QED
  BY <1>2, <1>8 DEF d

\* The id, the payload or the routing id is replaced.
LEMMA IdUpdate ==
  ASSUME NEW c \in CodecFits, NEW v \in 0 .. Byte - 1
  PROVE  [c EXCEPT !.id = v] \in CodecFits
BY DEF CodecFits, CodecType

\* The payload is replaced.
LEMMA PayloadUpdate ==
  ASSUME NEW c \in CodecFits, NEW v \in 0 .. MaxMsgs
  PROVE  [c EXCEPT !.payload = v] \in CodecFits
BY DEF CodecFits, CodecType

\* The routing id is replaced.
LEMMA RoutingUpdate ==
  ASSUME NEW c \in CodecFits, NEW v \in Seq(Bytes), Len(v) <= 1
  PROVE  [c EXCEPT !.routing_id = v] \in CodecFits
BY DEF CodecFits, CodecType, Bytes

\* A new object.
LEMMA NewFits == tpq_codec_new \in CodecFits
<1>1. /\ 0 \in 0 .. Weight(8) - 1 /\ 0 \in 0 .. Weight(4) - 1 /\ 0 \in 0 .. Weight(2) - 1
      /\ 0 \in 0 .. Byte - 1 /\ 0 \in 0 .. MaxMsgs
  <2>1. Weight(8) \in Nat \ {0} /\ Weight(4) \in Nat \ {0} /\ Weight(2) \in Nat \ {0}
    BY WeightType
  <2>2. MaxMsgs \in Nat /\ Byte \in Nat /\ Byte > 9
    BY CodecAssumption
  <2>3. QED
    BY <2>1, <2>2
<1>2. tpq_codec_new \in CodecType
  BY <1>1 DEF tpq_codec_new, CodecType
<1>3. QED
  BY <1>2, ByteType DEF tpq_codec_new, CodecFits

\* The remainder of any integer fits the width.
LEMMA SetNumberType ==
  ASSUME NEW f \in Numbers, NEW v \in Int
  PROVE  SetNumber(f, v) \in 0 .. Capacity(f) - 1
<1>1. Capacity(f) \in Nat \ {0}
  BY CapacityOf
<1>2. ASSUME NEW b \in Nat \ {0}
      PROVE  v % b \in 0 .. b - 1
  OBVIOUS
<1>3. QED
  BY <1>1, <1>2 DEF SetNumber

\* A string is cut to its array; one that fits is kept as it is.
LEMMA SetStringType ==
  ASSUME NEW v \in Bytes
  PROVE  /\ SetString(v) \in Bytes /\ Len(SetString(v)) < Byte
         /\ Len(v) < Byte => SetString(v) = v
<1> DEFINE m == Min({Len(v), Byte - 1})
<1>1. Len(v) \in Nat /\ Byte - 1 \in Nat
  BY ByteType
<1>2. /\ m \in {Len(v), Byte - 1} /\ m <= Len(v) /\ m <= Byte - 1
  <2>1. \E x \in {Len(v), Byte - 1} : \A y \in {Len(v), Byte - 1} : x <= y
    BY <1>1
  <2>2. QED
    BY <2>1 DEF Min
<1> HIDE DEF m
<1>3. m \in 0 .. Len(v)
  BY <1>1, <1>2
<1>4. \A i \in 1 .. m : v[i] \in 0 .. Byte - 1
  BY <1>1, <1>3, ElementOfSeq DEF Bytes
<1>5. /\ SubSeq(v, 1, m) \in Seq(0 .. Byte - 1)
      /\ Len(SubSeq(v, 1, m)) = IF 1 <= m THEN m - 1 + 1 ELSE 0
  BY <1>3, <1>4, SubSeqProperties
<1>6. SetString(v) = SubSeq(v, 1, m)
  BY DEF SetString, m
<1>7. ASSUME Len(v) < Byte
      PROVE  SetString(v) = v
  <2>1. m = Len(v)
    BY <1>1, <1>2, <1>7, ByteType
  <2>2. QED
    BY <1>6, <2>1, SubSeqFull DEF Bytes
<1>8. Len(SetString(v)) < Byte
  BY <1>1, <1>2, <1>3, <1>5, <1>6, ByteType
<1>9. QED
  BY <1>5, <1>6, <1>7, <1>8 DEF Bytes


-----------------------------------------------------------------------------
(***************************************************************************)
(* Reading a frame.                                                        *)
(***************************************************************************)

Readers == [codec : CodecFits, rest : Bytes, short : BOOLEAN]

\* The rest of a sequence of bytes after the first n.
LEMMA RestType ==
  ASSUME NEW b \in Bytes, NEW n \in Nat, n <= Len(b)
  PROVE  /\ SubSeq(b, n + 1, Len(b)) \in Bytes
         /\ SubSeq(b, 1, n) \in Bytes /\ Len(SubSeq(b, 1, n)) = n
         /\ n >= 1 => SubSeq(b, 2, n) \in Bytes /\ Len(SubSeq(b, 2, n)) = n - 1
<1>0. \A i \in 1 .. Len(b) : b[i] \in 0 .. Byte - 1
  BY ElementOfSeq DEF Bytes
<1>1. Len(b) \in Nat /\ \A i \in 1 .. Len(b) : b[i] \in 0 .. Byte - 1
  BY <1>0 DEF Bytes
<1>2. /\ \A i \in n + 1 .. Len(b) : b[i] \in 0 .. Byte - 1
      /\ \A i \in 1 .. n : b[i] \in 0 .. Byte - 1
      /\ \A i \in 2 .. n : b[i] \in 0 .. Byte - 1
  BY <1>1
<1>3. SubSeq(b, n + 1, Len(b)) \in Bytes
  BY <1>1, <1>2, SubSeqProperties DEF Bytes
<1>4. SubSeq(b, 1, n) \in Bytes /\ Len(SubSeq(b, 1, n)) = IF 1 <= n THEN n - 1 + 1 ELSE 0
  BY <1>1, <1>2, SubSeqProperties DEF Bytes
<1>5. SubSeq(b, 2, n) \in Bytes /\ Len(SubSeq(b, 2, n)) = IF 2 <= n THEN n - 2 + 1 ELSE 0
  BY <1>1, <1>2, SubSeqProperties DEF Bytes
<1>6. QED
  BY <1>3, <1>4, <1>5

\* A GET macro fills its field with a value of its type, and nothing else.
LEMMA GetFieldType ==
  ASSUME NEW r \in Readers, NEW f \in Strings \cup Numbers
  PROVE  /\ GetField(r, f) \in Readers
         /\ \A g \in FieldNames \ {f} : GetField(r, f).codec[g] = r.codec[g]
<1> DEFINE n == IF f \in Strings THEN 1 ELSE Width[f]
<1>1. /\ r.codec \in CodecFits /\ r.rest \in Bytes /\ Len(r.rest) \in Nat
      /\ r.short \in BOOLEAN
  BY DEF Readers, Bytes
<1>2. CASE r.short \/ Len(r.rest) < n
  <2>1. GetField(r, f) = [r EXCEPT !.short = TRUE]
    BY <1>1, <1>2 DEF GetField
  <2>2. QED
    BY <2>1 DEF Readers
<1>3. CASE ~ (r.short \/ Len(r.rest) < n) /\ f \in Numbers
  <2> DEFINE v == GetNumber(SubSeq(r.rest, 1, Width[f]))
             t == SubSeq(r.rest, Width[f] + 1, Len(r.rest))
  <2>1. f \notin Strings /\ Width[f] \in {2, 4, 8} /\ n = Width[f]
    BY <1>3, CapacityOf DEF Strings, Numbers
  <2>2. GetField(r, f) = [codec |-> [r.codec EXCEPT ![f] = v], short |-> FALSE,
                          rest |-> t]
    BY <1>1, <1>3, <2>1 DEF GetField, Take
  <2>3. Width[f] \in Nat /\ Width[f] <= Len(r.rest)
    BY <1>1, <1>3, <2>1
  <2>4. /\ t \in Bytes /\ SubSeq(r.rest, 1, Width[f]) \in Bytes
        /\ Len(SubSeq(r.rest, 1, Width[f])) = Width[f]
    BY <1>1, <2>3, RestType
  <2>5. v \in 0 .. Capacity(f) - 1
    BY <2>1, <2>4, GetNumberType DEF Capacity
  <2> HIDE DEF v, t
  <2>6. /\ [r.codec EXCEPT ![f] = v] \in CodecFits
        /\ \A g \in FieldNames \ {f} : [r.codec EXCEPT ![f] = v][g] = r.codec[g]
    <3>1. f \notin Strings
      BY <2>1
    <3>2. QED
      BY <1>1, <2>5, <3>1, FieldUpdate
  <2>7. QED
    BY <2>2, <2>4, <2>6 DEF Readers
<1>4. CASE ~ (r.short \/ Len(r.rest) < n) /\ f \notin Numbers
  <2> DEFINE last == 1 + Head(r.rest)
             v == SubSeq(r.rest, 2, last)
             t == SubSeq(r.rest, last + 1, Len(r.rest))
  <2>1. f \in Strings /\ n = 1
    BY <1>4
  <2>2. GetField(r, f) = IF Len(r.rest) < last THEN [r EXCEPT !.short = TRUE]
                         ELSE [codec |-> [r.codec EXCEPT ![f] = v], short |-> FALSE,
                               rest |-> t]
    BY <1>1, <1>4, <2>1 DEF GetField, Take
  <2>3. Head(r.rest) \in 0 .. Byte - 1
    <3>1. r.rest # << >>
      BY <1>4, <2>1
    <3>2. QED
      BY <1>1, <3>1, HeadTailProperties DEF Bytes
  <2>4. last \in Nat /\ 1 <= last /\ last <= Byte
    BY <2>3, ByteType
  <2>5. CASE Len(r.rest) < last
    BY <2>2, <2>5 DEF Readers
  <2>6. CASE ~ (Len(r.rest) < last)
    <3>1. t \in Bytes /\ v \in Bytes /\ Len(v) = last - 1
      BY <1>1, <2>4, <2>6, RestType
    <3>2. Len(v) < Byte
      BY <2>4, <3>1, ByteType
    <3> HIDE DEF v, t, last
    <3>3. f \notin Numbers
      BY <1>4
    <3>4. /\ [r.codec EXCEPT ![f] = v] \in CodecFits
          /\ \A g \in FieldNames \ {f} : [r.codec EXCEPT ![f] = v][g] = r.codec[g]
      BY <1>1, <3>1, <3>2, <3>3, FieldUpdate
    <3>5. QED
      BY <2>2, <2>6, <3>1, <3>4 DEF Readers
  <2>7. QED
    BY <2>5, <2>6
<1>5. QED
  BY <1>2, <1>3, <1>4

\* The fields of a message are fields of the object.
LEMMA FieldsOfMessage ==
  ASSUME NEW id
  PROVE  /\ \A i \in DOMAIN PutFields(id) : PutFields(id)[i] \in Strings \cup Numbers
         /\ GetFields(id) = PutFields(id)
BY DEF PutFields, GetFields, Strings, Numbers

\* So do the GET macros of a whole message.
LEMMA ReadFieldsType ==
  ASSUME NEW r \in Readers, NEW id
  PROVE  /\ ReadFields(r, GetFields(id)) \in Readers
         /\ \A g \in FieldNames \ ToSet(PutFields(id)) :
              ReadFields(r, GetFields(id)).codec[g] = r.codec[g]
<1> DEFINE fields == GetFields(id)
           Kept(q) == /\ q \in Readers
                      /\ \A g \in FieldNames \ ToSet(PutFields(id)) : q.codec[g] = r.codec[g]
<1>1. ASSUME NEW q, Kept(q), NEW i
      PROVE  Kept(Get(q, fields, i))
  <2>1. CASE i \in DOMAIN fields
    <3>1. fields[i] \in Strings \cup Numbers /\ fields[i] \in ToSet(PutFields(id))
      BY <2>1, FieldsOfMessage DEF ToSet
    <3> DEFINE f == fields[i]
    <3>2. /\ GetField(q, f) \in Readers
          /\ \A g \in FieldNames \ {f} : GetField(q, f).codec[g] = q.codec[g]
      BY <1>1, <3>1, GetFieldType
    <3>3. QED
      BY <1>1, <2>1, <3>1, <3>2 DEF Get
  <2>2. CASE i \notin DOMAIN fields
    BY <1>1, <2>2 DEF Get
  <2>3. QED
    BY <2>1, <2>2
<1>2. Kept(r)
  OBVIOUS
<1> HIDE DEF Kept
<1>3. Kept(Get(Get(Get(Get(Get(r, fields, 1), fields, 2), fields, 3), fields, 4), fields, 5))
  <2>1. Kept(Get(r, fields, 1))
    BY <1>1, <1>2
  <2>2. Kept(Get(Get(r, fields, 1), fields, 2))
    BY <1>1, <2>1
  <2>3. Kept(Get(Get(Get(r, fields, 1), fields, 2), fields, 3))
    BY <1>1, <2>2
  <2>4. Kept(Get(Get(Get(Get(r, fields, 1), fields, 2), fields, 3), fields, 4))
    BY <1>1, <2>3
  <2>5. QED
    BY <1>1, <2>4
<1>4. Kept(ReadFields(r, fields))
  BY <1>3 DEF ReadFields
<1>5. QED
  BY <1>4 DEF Kept


\* A receive that parses a data frame fills the fields of the message and its
\* id, and nothing else; if it comes to the end, the message is of its kind.
LEMMA ParseType ==
  ASSUME NEW c \in CodecFits, NEW bytes \in Bytes
  PROVE  /\ Parse(c, bytes).codec \in CodecFits
         /\ Parse(c, bytes).short \in BOOLEAN
         /\ Parse(c, bytes).codec.payload = c.payload
         /\ Parse(c, bytes).codec.routing_id = c.routing_id
         /\ \A f \in Strings \cup Numbers :
              \/ f \in ToSet(PutFields(Parse(c, bytes).codec.id))
              \/ Parse(c, bytes).codec[f] = c[f]
<1> DEFINE id == bytes[3]
           start == [codec |-> [c EXCEPT !.id = id], short |-> FALSE,
                     rest |-> SubSeq(bytes, 4, Len(bytes))]
           read == ReadFields(start, GetFields(id))
           p == Parse(c, bytes)
<1>1. Len(bytes) \in Nat
  BY DEF Bytes
<1>2. CASE Len(bytes) < 3 \/ p = [codec |-> c, rc |-> -2, short |-> TRUE]
  <2>1. p.codec = c /\ p.short = TRUE
    BY <1>1, <1>2 DEF Parse
  <2>2. QED
    BY <2>1
<1>3. CASE ~ (Len(bytes) < 3 \/ p = [codec |-> c, rc |-> -2, short |-> TRUE])
  <2>1. \/ p = [codec |-> [c EXCEPT !.id = id], rc |-> -2, short |-> TRUE]
        \/ p = [codec |-> read.codec, rc |-> 0, short |-> read.short]
    BY <1>1, <1>3 DEF Parse
  <2>2. id \in 0 .. Byte - 1
    <3>1. \A i \in 1 .. Len(bytes) : bytes[i] \in 0 .. Byte - 1
      BY ElementOfSeq DEF Bytes
    <3>2. 3 \in 1 .. Len(bytes)
      BY <1>1, <1>3
    <3>3. QED
      BY <3>1, <3>2
  <2>3. [c EXCEPT !.id = id] \in CodecFits
    BY <2>2, IdUpdate
  <2>4. /\ DOMAIN c = FieldNames /\ c \in CodecType
    BY FieldsType
  <2>5. /\ [c EXCEPT !.id = id].id = id
        /\ \A g \in FieldNames \ {"id"} : [c EXCEPT !.id = id][g] = c[g]
    BY <2>4 DEF CodecType, FieldNames
  <2>6. SubSeq(bytes, 4, Len(bytes)) \in Bytes
    <3>1. 3 \in Nat /\ 3 <= Len(bytes) /\ 3 + 1 = 4
      BY <1>1, <1>3
    <3>2. QED
      BY <3>1, RestType
  <2>7. start \in Readers
    BY <2>3, <2>6 DEF Readers
  <2> HIDE DEF start
  <2>8. /\ read \in Readers
        /\ \A g \in FieldNames \ ToSet(PutFields(id)) : read.codec[g] = start.codec[g]
    BY <2>7, ReadFieldsType
  <2>9. start.codec = [c EXCEPT !.id = id]
    BY DEF start
  <2>10. "id" \notin ToSet(PutFields(id)) /\ "payload" \notin ToSet(PutFields(id))
         /\ "routing_id" \notin ToSet(PutFields(id))
    <3>1. ToSet(PutFields(id)) \subseteq Strings \cup Numbers
      BY FieldsOfMessage DEF ToSet
    <3>2. QED
      BY <3>1 DEF Strings, Numbers
  <2> HIDE DEF read, p
  <2>11. CASE p = [codec |-> [c EXCEPT !.id = id], rc |-> -2, short |-> TRUE]
    <3>1. p.codec = [c EXCEPT !.id = id] /\ p.short = TRUE
      BY <2>11
    <3>2. \A f \in Strings \cup Numbers : p.codec[f] = c[f]
      BY <3>1, <2>5 DEF Strings, Numbers, FieldNames
    <3>3. p.codec.payload = c.payload /\ p.codec.routing_id = c.routing_id
      BY <3>1, <2>5 DEF FieldNames
    <3>4. QED
      BY <2>3, <3>1, <3>2, <3>3 DEF p
  <2>12. CASE p = [codec |-> read.codec, rc |-> 0, short |-> read.short]
    <3>1. p.codec = read.codec /\ p.short = read.short
      BY <2>12
    <3>2. p.codec \in CodecFits /\ p.short \in BOOLEAN
      BY <2>8, <3>1 DEF Readers
    <3>3. \A g \in FieldNames \ ToSet(PutFields(id)) :
            p.codec[g] = [c EXCEPT !.id = id][g]
      BY <2>8, <2>9, <3>1
    <3>4. p.codec.id = id
      BY <3>3, <2>5, <2>10 DEF FieldNames
    <3>5. p.codec.payload = c.payload /\ p.codec.routing_id = c.routing_id
      BY <3>3, <2>5, <2>10 DEF FieldNames
    <3>6. \A f \in Strings \cup Numbers :
            f \in ToSet(PutFields(id)) \/ p.codec[f] = c[f]
      BY <3>3, <2>5 DEF Strings, Numbers, FieldNames
    <3>7. QED
      BY <3>2, <3>4, <3>5, <3>6 DEF p
  <2>13. QED
    BY <2>1, <2>11, <2>12
<1>4. QED
  BY <1>2, <1>3


-----------------------------------------------------------------------------
(***************************************************************************)
(* The heap.                                                               *)
(***************************************************************************)

Payloads == Seq(Bytes)

HeapFits(h) ==
  DOMAIN h \subseteq 1 .. MaxMsgs /\ \A m \in DOMAIN h : h[m] \in Payloads

\* The four who may own an object of the heap own each object once.
OwnedOnce(h, a, b, c, d) ==
  /\ \A m \in DOMAIN h : m \in {a, b, c, d}
  /\ \A m \in {a, b, c, d} : m # 0 => m \in DOMAIN h
  /\ a # 0 => a \notin {b, c, d}
  /\ b # 0 => b \notin {c, d}
  /\ c # 0 => c # d

\* The order in which the codec objects are named does not matter.
LEMMA OwnedOnceSwap ==
  ASSUME NEW h, NEW a, NEW b, NEW c, NEW d
  PROVE  OwnedOnce(h, a, b, c, d) <=> OwnedOnce(h, b, a, c, d)
BY DEF OwnedOnce

\* What is destroyed is gone, the rest is as it was.
LEMMA DestroyFacts ==
  ASSUME NEW h, NEW o
  PROVE  /\ DOMAIN Destroy(h, o) = DOMAIN h \ {o}
         /\ \A m \in DOMAIN h \ {o} : Destroy(h, o)[m] = h[m]
         /\ HeapFits(h) => HeapFits(Destroy(h, o))
BY DEF Destroy, HeapFits

\* What is allocated is new, the rest is as it was.
LEMMA AllocFacts ==
  ASSUME NEW h, FreshIds(h) # {}, NEW frames
  PROVE  /\ Fresh(h) \in 1 .. MaxMsgs /\ Fresh(h) # 0 /\ Fresh(h) \notin DOMAIN h
         /\ DOMAIN Alloc(h, frames) = DOMAIN h \cup {Fresh(h)}
         /\ Alloc(h, frames)[Fresh(h)] = frames
         /\ \A m \in DOMAIN h : Alloc(h, frames)[m] = h[m]
         /\ HeapFits(h) /\ frames \in Payloads => HeapFits(Alloc(h, frames))
<1>1. Fresh(h) \in FreshIds(h)
  BY DEF Fresh
<1>2. Fresh(h) \in 1 .. MaxMsgs /\ Fresh(h) \notin DOMAIN h
  BY <1>1 DEF FreshIds
<1>3. Fresh(h) # 0
  BY <1>2
<1>4. /\ DOMAIN Alloc(h, frames) = DOMAIN h \cup {Fresh(h)}
      /\ Alloc(h, frames)[Fresh(h)] = frames
      /\ \A m \in DOMAIN h : Alloc(h, frames)[m] = h[m]
  BY <1>2 DEF Alloc
<1>5. ASSUME HeapFits(h), frames \in Payloads
      PROVE  HeapFits(Alloc(h, frames))
  <2>1. DOMAIN Alloc(h, frames) \subseteq 1 .. MaxMsgs
    BY <1>2, <1>4, <1>5 DEF HeapFits
  <2>2. \A m \in DOMAIN Alloc(h, frames) : Alloc(h, frames)[m] \in Payloads
    BY <1>4, <1>5 DEF HeapFits
  <2>3. QED
    BY <2>1, <2>2 DEF HeapFits
<1>6. QED
  BY <1>2, <1>3, <1>4, <1>5

\* An owner lets its object be destroyed.
LEMMA OwnedDestroy ==
  ASSUME NEW h, NEW a, NEW b, NEW c, NEW d, HeapFits(h)
  PROVE  /\ OwnedOnce(h, a, b, c, d) => OwnedOnce(Destroy(h, a), 0, b, c, d)
         /\ OwnedOnce(h, a, b, c, d) => OwnedOnce(Destroy(h, c), a, b, 0, d)
         /\ OwnedOnce(h, a, b, c, d) => OwnedOnce(Destroy(h, d), a, b, c, 0)
         /\ OwnedOnce(h, a, b, c, d) => OwnedOnce(Destroy(h, a), d, b, c, 0)
<1>1. /\ DOMAIN Destroy(h, a) = DOMAIN h \ {a} /\ DOMAIN Destroy(h, c) = DOMAIN h \ {c}
      /\ DOMAIN Destroy(h, d) = DOMAIN h \ {d}
  BY DestroyFacts
<1>2. 0 \notin DOMAIN h
  BY DEF HeapFits
<1>3. QED
  BY <1>1, <1>2 DEF OwnedOnce

\* An owner without an object takes a new one.
LEMMA OwnedAlloc ==
  ASSUME NEW h, HeapFits(h), NEW frames, FreshIds(h) # {}, NEW a, NEW b, NEW c, NEW d
  PROVE  /\ OwnedOnce(h, 0, b, c, d) => OwnedOnce(Alloc(h, frames), Fresh(h), b, c, d)
         /\ OwnedOnce(h, a, b, 0, d) => OwnedOnce(Alloc(h, frames), a, b, Fresh(h), d)
<1>1. /\ DOMAIN Alloc(h, frames) = DOMAIN h \cup {Fresh(h)}
      /\ Fresh(h) # 0 /\ Fresh(h) \notin DOMAIN h
  BY AllocFacts
<1>2. 0 \notin DOMAIN h
  BY DEF HeapFits
<1>3. OwnedOnce(h, 0, b, c, d) => OwnedOnce(Alloc(h, frames), Fresh(h), b, c, d)
  BY <1>1, <1>2 DEF OwnedOnce
<1>4. OwnedOnce(h, a, b, 0, d) => OwnedOnce(Alloc(h, frames), a, b, Fresh(h), d)
  BY <1>1, <1>2 DEF OwnedOnce
<1>5. QED
  BY <1>3, <1>4

\* An object moves to an owner that has none.
LEMMA OwnedMove ==
  ASSUME NEW h, NEW a, NEW b, NEW c, OwnedOnce(h, a, b, c, 0)
  PROVE  OwnedOnce(h, 0, b, c, a)
BY DEF OwnedOnce

Copied == IF copy = << >> THEN 0 ELSE copy[1].payload

\* OneOwner, said of the four owners by name.
LEMMA OneOwnerByName ==
  OneOwner <=> OwnedOnce(heap, codec["client"].payload, codec["server"].payload,
                         Copied, held)
<1>1. Owners = {<<"codec", "client">>, <<"codec", "server">>, <<"copy", 1>>, <<"app", 1>>}
  BY DEF Owners, Ends
<1>2. /\ Owned(<<"codec", "client">>) = codec["client"].payload
      /\ Owned(<<"codec", "server">>) = codec["server"].payload
      /\ Owned(<<"copy", 1>>) = Copied /\ Owned(<<"app", 1>>) = held
  BY DEF Owned, Copied
<1>3. /\ <<"codec", "client">> # <<"codec", "server">>
      /\ <<"copy", 1>> \notin {<<"codec", "client">>, <<"codec", "server">>}
      /\ <<"app", 1>> \notin {<<"codec", "client">>, <<"codec", "server">>, <<"copy", 1>>}
  OBVIOUS
<1> HIDE DEF Owned, Owners
<1>4. QED
  BY <1>1, <1>2, <1>3 DEF OneOwner, OwnedOnce

\* The same of the next state.
LEMMA OneOwnerByNameNext ==
  OneOwner' <=> OwnedOnce(heap', codec'["client"].payload, codec'["server"].payload,
                          Copied', held')
<1>1. Owners = {<<"codec", "client">>, <<"codec", "server">>, <<"copy", 1>>, <<"app", 1>>}
  BY DEF Owners, Ends
<1>2. /\ Owned(<<"codec", "client">>)' = codec'["client"].payload
      /\ Owned(<<"codec", "server">>)' = codec'["server"].payload
      /\ Owned(<<"copy", 1>>)' = Copied' /\ Owned(<<"app", 1>>)' = held'
  BY DEF Owned, Copied
<1>3. /\ <<"codec", "client">> # <<"codec", "server">>
      /\ <<"copy", 1>> \notin {<<"codec", "client">>, <<"codec", "server">>}
      /\ <<"app", 1>> \notin {<<"codec", "client">>, <<"codec", "server">>, <<"copy", 1>>}
  OBVIOUS
<1> HIDE DEF Owned, Owners
<1>4. QED
  BY <1>1, <1>2, <1>3 DEF OneOwner, OwnedOnce


-----------------------------------------------------------------------------
(***************************************************************************)
(* The types of the variables.                                             *)
(***************************************************************************)

FieldValues == Bytes \cup Int
FieldRecords == UNION {[F -> FieldValues] : F \in SUBSET (Strings \cup Numbers)}
SaidType == [id : 0 .. Byte - 1, fields : FieldRecords, payload : Seq(Payloads)]
FrameType == [data : Bytes, more : BOOLEAN, of : Seq(SaidType)]
AnswerType == [rc : {0, -1, -2}, of : Seq(SaidType)]
TreeType == [message : 0 .. Byte - 1, routing_id : Seq(Seq(Nat)), content : FieldRecords,
             payload : Seq(Seq(Nat)), bad : SUBSET (Strings \cup Numbers)]

\* What is read back from a tree nobody has shortened is again made of bytes.
TreeFits(t) ==
  /\ t \in TreeType
  /\ Len(t.routing_id) <= 1
  /\ (\A i \in DOMAIN t.routing_id : IsBytes(t.routing_id[i])) =>
       \A i \in DOMAIN t.routing_id : BYTES_FROM_STR(t.routing_id[i]) \in Bytes
  /\ \A i \in DOMAIN t.payload : BYTES_FROM_STR(t.payload[i]) \in Bytes
  /\ DOMAIN t.content = ZplFields(t.message)
  /\ \A f \in Strings \cap DOMAIN t.content : t.content[f] \in Bytes
  /\ \A f \in Numbers \cap DOMAIN t.content : t.content[f] \in Int

\* The frames of a message arrive together.
EndsWhole(frames) == frames # << >> => ~ frames[Len(frames)].more

Typed ==
  /\ codec \in [Ends -> CodecFits]
  /\ copy # << >> => copy = <<copy[1], copy[2]>> /\ copy[1] \in CodecFits
  /\ text # << >> => text = <<text[1], text[2]>> /\ TreeFits(text[1])
  /\ held \in 0 .. MaxMsgs
  /\ HeapFits(heap)
  /\ wire \in [Ends -> Seq(FrameType)]
  /\ \A e \in Ends : EndsWhole(wire[e])
  /\ got \in [Ends -> AnswerType]
  /\ calls \in 0 .. MaxCalls

CodecInv == Typed /\ OneOwner


-----------------------------------------------------------------------------
(***************************************************************************)
(* Writing a frame.                                                        *)
(***************************************************************************)

\* The bytes that one field takes.
FieldSize(c, f) == IF f \in Strings THEN 1 + Len(c[f]) ELSE Width[f]

\* Two sequences of bytes are one.
LEMMA JoinType ==
  ASSUME NEW s \in Bytes, NEW t \in Bytes
  PROVE  s \o t \in Bytes /\ Len(s \o t) = Len(s) + Len(t)
BY ConcatProperties DEF Bytes

\* A string is its length and its bytes.
LEMMA PutStringType ==
  ASSUME NEW s \in Bytes, Len(s) < Byte
  PROVE  /\ PutString(s) \in Bytes /\ Len(PutString(s)) = 1 + Len(s)
         /\ PutString(s) = <<Len(s)>> \o s /\ <<Len(s)>> \in Bytes
         /\ Len(s) \in 0 .. Byte - 1
<1>1. Len(s) \in Nat /\ Byte \in Nat
  BY ByteType DEF Bytes
<1>2. Len(s) \in 0 .. Byte - 1
  BY <1>1
<1>3. Len(s) % Byte = Len(s)
  BY <1>1
<1>4. <<Len(s)>> \in Bytes /\ Len(<<Len(s)>>) = 1
  BY <1>2 DEF Bytes
<1>5. PutString(s) = <<Len(s)>> \o s
  BY <1>3 DEF PutString
<1>6. QED
  BY <1>2, <1>4, <1>5, JoinType

\* A field is written in the bytes that it takes.
LEMMA PutFieldType ==
  ASSUME NEW c \in CodecFits, NEW f \in Strings \cup Numbers
  PROVE  PutField(c, f) \in Bytes /\ Len(PutField(c, f)) = FieldSize(c, f)
<1>1. CASE f \in Strings
  <2>1. c[f] \in Bytes /\ Len(c[f]) < Byte
    BY <1>1, FieldsType
  <2>2. QED
    BY <1>1, <2>1, PutStringType DEF PutField, FieldSize
<1>2. CASE f \notin Strings
  <2>1. f \in Numbers
    BY <1>2
  <2>2. Capacity(f) \in Nat \ {0} /\ c[f] \in 0 .. Capacity(f) - 1
    BY <2>1, FieldsType, CapacityOf
  <2>3. c[f] \in Nat
    BY <2>2
  <2>4. Width[f] \in 0 .. 8
    BY <2>1, CapacityOf
  <2>5. PutNumber(c[f], Width[f]) \in Bytes /\ Len(PutNumber(c[f], Width[f])) = Width[f]
    BY <2>3, <2>4, PutNumberType
  <2>6. QED
    BY <1>2, <2>5 DEF PutField, FieldSize
<1>3. QED
  BY <1>1, <1>2

\* So is the field at each position of a message, if there is one.
LEMMA PutType ==
  ASSUME NEW c \in CodecFits, NEW id, NEW i
  PROVE  /\ Put(c, PutFields(id), i) \in Bytes
         /\ Len(Put(c, PutFields(id), i)) =
              IF i \in DOMAIN PutFields(id) THEN FieldSize(c, PutFields(id)[i]) ELSE 0
<1>1. CASE i \in DOMAIN PutFields(id)
  <2>1. PutFields(id)[i] \in Strings \cup Numbers
    BY <1>1, FieldsOfMessage
  <2> DEFINE f == PutFields(id)[i]
  <2>2. PutField(c, f) \in Bytes /\ Len(PutField(c, f)) = FieldSize(c, f)
    BY <2>1, PutFieldType
  <2>3. QED
    BY <1>1, <2>2 DEF Put
<1>2. CASE i \notin DOMAIN PutFields(id)
  <2>1. << >> \in Bytes /\ Len(<< >>) = 0
    BY DEF Bytes
  <2>2. QED
    BY <1>2, <2>1 DEF Put
<1>3. QED
  BY <1>1, <1>2

\* The fields of a message, one after the other.
LEMMA PutAllType ==
  ASSUME NEW c \in CodecFits, NEW id
  PROVE  /\ PutAll(c, PutFields(id)) \in Bytes
         /\ Len(PutAll(c, PutFields(id))) =
              Len(Put(c, PutFields(id), 1)) + (Len(Put(c, PutFields(id), 2))
                + (Len(Put(c, PutFields(id), 3)) + (Len(Put(c, PutFields(id), 4))
                + Len(Put(c, PutFields(id), 5)))))
<1> DEFINE P(i) == Put(c, PutFields(id), i)
<1>1. P(1) \in Bytes /\ P(2) \in Bytes /\ P(3) \in Bytes /\ P(4) \in Bytes /\ P(5) \in Bytes
  BY PutType
<1> HIDE DEF P
<1>2. P(4) \o P(5) \in Bytes /\ Len(P(4) \o P(5)) = Len(P(4)) + Len(P(5))
  BY <1>1, JoinType
<1>3. /\ P(3) \o (P(4) \o P(5)) \in Bytes
      /\ Len(P(3) \o (P(4) \o P(5))) = Len(P(3)) + (Len(P(4)) + Len(P(5)))
  BY <1>1, <1>2, JoinType
<1>4. /\ P(2) \o (P(3) \o (P(4) \o P(5))) \in Bytes
      /\ Len(P(2) \o (P(3) \o (P(4) \o P(5)))) = Len(P(2)) + (Len(P(3)) + (Len(P(4)) + Len(P(5))))
  BY <1>1, <1>3, JoinType
<1>5. /\ P(1) \o (P(2) \o (P(3) \o (P(4) \o P(5)))) \in Bytes
      /\ Len(P(1) \o (P(2) \o (P(3) \o (P(4) \o P(5))))) =
           Len(P(1)) + (Len(P(2)) + (Len(P(3)) + (Len(P(4)) + Len(P(5)))))
  BY <1>1, <1>4, JoinType
<1>6. QED
  BY <1>5 DEF P, PutAll

\* A data frame has the size that the other switch computed for it.
LEMMA DataFrameType ==
  ASSUME NEW c \in CodecFits
  PROVE  DataFrame(c) \in Bytes /\ Len(DataFrame(c)) = FrameSize(c)
<1> DEFINE fs == PutFields(c.id)
           L(i) == Len(Put(c, fs, i))
           sum == L(1) + (L(2) + (L(3) + (L(4) + L(5))))
<1>1. /\ PutNumber(Signature, 2) \in Bytes /\ Len(PutNumber(Signature, 2)) = 2
  BY ByteType, PutNumberType
<1>2. /\ PutNumber(c.id, 1) \in Bytes /\ Len(PutNumber(c.id, 1)) = 1
  <2>1. c.id \in Nat
    BY FieldsType, ByteType
  <2>2. QED
    BY <2>1, PutNumberType
<1>3. PutAll(c, fs) \in Bytes /\ Len(PutAll(c, fs)) = sum
  BY PutAllType
<1> HIDE DEF sum
<1>4. DataFrame(c) \in Bytes /\ Len(DataFrame(c)) = 2 + (1 + sum)
  <2>1. /\ PutNumber(c.id, 1) \o PutAll(c, fs) \in Bytes
        /\ Len(PutNumber(c.id, 1) \o PutAll(c, fs)) = 1 + sum
    BY <1>2, <1>3, JoinType
  <2>2. QED
    BY <1>1, <2>1, JoinType DEF DataFrame
<1>5. \A i \in 1 .. 5 : L(i) = IF i \in DOMAIN fs THEN FieldSize(c, fs[i]) ELSE 0
  BY PutType
<1>6. Len(c.nickname) \in Nat /\ Len(c.reason) \in Nat
  BY FieldsType DEF Strings, Bytes
<1> HIDE DEF L, fs
<1>7. FrameSize(c) = 2 + (1 + sum)
  <2>1. CASE c.id = HELLO
    <3>1. fs = <<"nickname">>
      BY <2>1 DEF fs, PutFields, HELLO, COVERAGE, QUERY, RESULT, ERROR
    <3>2. L(1) = 1 + Len(c.nickname) /\ L(2) = 0 /\ L(3) = 0 /\ L(4) = 0 /\ L(5) = 0
      BY <1>5, <3>1 DEF FieldSize, Strings
    <3>3. FrameSize(c) = 2 + 1 + (1 + Len(c.nickname))
      BY <2>1 DEF FrameSize, HELLO, COVERAGE, QUERY, RESULT, ERROR
    <3>4. QED
      BY <1>6, <3>2, <3>3 DEF sum
  <2>2. CASE c.id = COVERAGE
    <3>1. fs = <<"detmask">>
      BY <2>2 DEF fs, PutFields, HELLO, COVERAGE, QUERY, RESULT, ERROR
    <3>2. L(1) = 8 /\ L(2) = 0 /\ L(3) = 0 /\ L(4) = 0 /\ L(5) = 0
      BY <1>5, <3>1 DEF FieldSize, Strings, Width
    <3>3. FrameSize(c) = 2 + 1 + 8
      BY <2>2 DEF FrameSize, HELLO, COVERAGE, QUERY, RESULT, ERROR
    <3>4. QED
      BY <3>2, <3>3 DEF sum
  <2>3. CASE c.id = QUERY
    <3>1. fs = <<"seqno", "tstart", "tspan", "detmask", "timeout">>
      BY <2>3 DEF fs, PutFields, HELLO, COVERAGE, QUERY, RESULT, ERROR
    <3>2. L(1) = 4 /\ L(2) = 8 /\ L(3) = 8 /\ L(4) = 8 /\ L(5) = 4
      BY <1>5, <3>1 DEF FieldSize, Strings, Width
    <3>3. FrameSize(c) = 2 + 1 + (4 + 8 + 8 + 8 + 4)
      BY <2>3 DEF FrameSize, HELLO, COVERAGE, QUERY, RESULT, ERROR
    <3>4. QED
      BY <3>2, <3>3 DEF sum
  <2>4. CASE c.id = RESULT
    <3>1. fs = <<"seqno", "status">>
      BY <2>4 DEF fs, PutFields, HELLO, COVERAGE, QUERY, RESULT, ERROR
    <3>2. L(1) = 4 /\ L(2) = 2 /\ L(3) = 0 /\ L(4) = 0 /\ L(5) = 0
      BY <1>5, <3>1 DEF FieldSize, Strings, Width
    <3>3. FrameSize(c) = 2 + 1 + (4 + 2)
      BY <2>4 DEF FrameSize, HELLO, COVERAGE, QUERY, RESULT, ERROR
    <3>4. QED
      BY <3>2, <3>3 DEF sum
  <2>5. CASE c.id = ERROR
    <3>1. fs = <<"status", "reason">>
      BY <2>5 DEF fs, PutFields, HELLO, COVERAGE, QUERY, RESULT, ERROR
    <3>2. L(1) = 2 /\ L(2) = 1 + Len(c.reason) /\ L(3) = 0 /\ L(4) = 0 /\ L(5) = 0
      BY <1>5, <3>1 DEF FieldSize, Strings, Width
    <3>3. FrameSize(c) = 2 + 1 + (2 + 1 + Len(c.reason))
      BY <2>5 DEF FrameSize, HELLO, COVERAGE, QUERY, RESULT, ERROR
    <3>4. QED
      BY <1>6, <3>2, <3>3 DEF sum
  <2>6. CASE c.id \notin {HELLO, COVERAGE, QUERY, RESULT, ERROR}
    <3>1. fs = << >>
      BY <2>6 DEF fs, PutFields, HELLO, COVERAGE, QUERY, RESULT, ERROR
    <3>2. L(1) = 0 /\ L(2) = 0 /\ L(3) = 0 /\ L(4) = 0 /\ L(5) = 0
      BY <1>5, <3>1
    <3>3. FrameSize(c) = 2 + 1 + 0
      BY <2>6 DEF FrameSize, HELLO, COVERAGE, QUERY, RESULT, ERROR
    <3>4. QED
      BY <3>2, <3>3 DEF sum
  <2>7. QED
    BY <2>1, <2>2, <2>3, <2>4, <2>5, <2>6
<1>8. QED
  BY <1>4, <1>7

\* What an object says is of its type, on the wire too.
LEMMA SaysType ==
  ASSUME NEW c \in CodecFits, NEW h, HeapFits(h), c.payload = 0 \/ c.payload \in DOMAIN h
  PROVE  Says(c, h) \in SaidType /\ Delivered(c, h) \in SaidType
<1> DEFINE F == ToSet(PutFields(c.id))
           fields == [f \in F |-> c[f]]
           payload == IF c.id = RESULT THEN PayloadOf(c, h) ELSE << >>
<1>1. F \in SUBSET (Strings \cup Numbers)
  BY FieldsOfMessage DEF ToSet
<1>2. \A f \in Strings \cup Numbers : c[f] \in FieldValues
  <2>1. \A f \in Numbers : Capacity(f) \in Nat \ {0} /\ c[f] \in 0 .. Capacity(f) - 1
    BY FieldsType, CapacityOf
  <2>2. \A f \in Numbers : c[f] \in Int
    BY <2>1
  <2>3. \A f \in Strings : c[f] \in Bytes
    BY FieldsType
  <2>4. QED
    BY <2>2, <2>3 DEF FieldValues
<1>3. fields \in [F -> FieldValues]
  BY <1>1, <1>2
<1>4. fields \in FieldRecords
  BY <1>1, <1>3 DEF FieldRecords
<1>5. payload \in Seq(Payloads)
  <2>1. c.payload # 0 => h[c.payload] \in Payloads
    BY DEF HeapFits
  <2>2. QED
    BY <2>1 DEF PayloadOf
<1>6. c.id \in 0 .. Byte - 1
  BY FieldsType
<1>7. Says(c, h) = [id |-> c.id, fields |-> fields, payload |-> payload]
  BY DEF Says
<1> HIDE DEF fields, payload, F
<1>8. Says(c, h) \in SaidType
  BY <1>4, <1>5, <1>6, <1>7 DEF SaidType
<1>9. << << << >> >> >> \in Seq(Payloads)
  BY DEF Payloads, Bytes
<1>10. Delivered(c, h) \in SaidType
  <2>1. \/ Delivered(c, h) = Says(c, h)
        \/ Delivered(c, h) = [Says(c, h) EXCEPT !.payload = << << << >> >> >>]
    BY DEF Delivered
  <2>2. QED
    BY <1>8, <1>9, <2>1 DEF SaidType
<1>11. QED
  BY <1>8, <1>10


-----------------------------------------------------------------------------
(***************************************************************************)
(* Every call keeps the types and the owners.                              *)
(***************************************************************************)

\* The owners, seen from one end.
LEMMA OwnersFrom ==
  ASSUME NEW e \in Ends
  PROVE  /\ Peer[e] \in Ends /\ Peer[e] # e /\ Peer[Peer[e]] = e /\ Ends = {e, Peer[e]}
         /\ OneOwner <=> OwnedOnce(heap, codec[e].payload, codec[Peer[e]].payload,
                                   Copied, held)
         /\ OneOwner' <=> OwnedOnce(heap', codec'[e].payload, codec'[Peer[e]].payload,
                                    Copied', held')
<1>1. e = "client" \/ e = "server"
  BY DEF Ends
<1>2. CASE e = "client"
  <2>1. Peer[e] = "server" /\ Peer["server"] = "client"
    BY <1>2 DEF Peer
  <2>2. QED
    BY <1>2, <2>1, OneOwnerByName, OneOwnerByNameNext DEF Ends
<1>3. CASE e = "server"
  <2>1. Peer[e] = "client" /\ Peer["client"] = "server"
    BY <1>3 DEF Peer
  <2>2. QED
    BY <1>3, <2>1, OneOwnerByName, OneOwnerByNameNext, OwnedOnceSwap DEF Ends
<1>4. QED
  BY <1>1, <1>2, <1>3

\* An object that is owned is alive.
LEMMA OwnedAlive ==
  ASSUME OneOwner
  PROVE  /\ \A e \in Ends : codec[e].payload = 0 \/ codec[e].payload \in DOMAIN heap
         /\ held = 0 \/ held \in DOMAIN heap
         /\ copy # << >> => copy[1].payload = 0 \/ copy[1].payload \in DOMAIN heap
<1>1. OwnedOnce(heap, codec["client"].payload, codec["server"].payload, Copied, held)
  BY OneOwnerByName
<1>2. QED
  BY <1>1 DEF OwnedOnce, Ends, Copied

\* A call that changes neither an object nor who owns it.
LEMMA SameOwners ==
  ASSUME OneOwner, heap' = heap, held' = held, copy' = copy,
         \A e \in Ends : codec'[e].payload = codec[e].payload
  PROVE  OneOwner'
<1>1. OwnedOnce(heap, codec["client"].payload, codec["server"].payload, Copied, held)
  BY OneOwnerByName
<1>2. Copied' = Copied
  BY DEF Copied
<1>3. QED
  BY <1>1, <1>2, OneOwnerByNameNext DEF Ends

\* The frames of a message, its last one without more to come.
LEMMA FramesType ==
  ASSUME NEW datas \in Seq(Bytes), datas # << >>, NEW of \in Seq(SaidType)
  PROVE  /\ Frames(datas, of) \in Seq(FrameType) /\ Len(Frames(datas, of)) = Len(datas)
         /\ Frames(datas, of) # << >> /\ EndsWhole(Frames(datas, of))
<1>1. Len(datas) \in Nat \ {0} /\ DOMAIN datas = 1 .. Len(datas)
  BY EmptySeq, LenProperties
<1>2. \A i \in 1 .. Len(datas) : datas[i] \in Bytes
  BY ElementOfSeq
<1>3. << >> \in Seq(SaidType)
  OBVIOUS
<1>4. \A i \in 1 .. Len(datas) :
        [data |-> datas[i], more |-> i < Len(datas),
         of |-> IF i = 1 THEN of ELSE << >>] \in FrameType
  BY <1>1, <1>2, <1>3 DEF FrameType
<1> DEFINE fs == Frames(datas, of)
<1>5. fs \in [1 .. Len(datas) -> FrameType]
  BY <1>1, <1>4 DEF Frames
<1>6. ~ fs[Len(datas)].more
  <2>1. Len(datas) \in DOMAIN datas /\ ~ (Len(datas) < Len(datas))
    BY <1>1
  <2>2. fs[Len(datas)].more = (Len(datas) < Len(datas))
    BY <2>1 DEF Frames
  <2>3. QED
    BY <2>1, <2>2
<1> HIDE DEF fs
<1>7. fs \in Seq(FrameType) /\ Len(fs) = Len(datas)
  BY <1>1, <1>5, FunctionIsSeq
<1>8. fs # << >>
  BY <1>1, <1>7
<1>9. QED
  BY <1>6, <1>7, <1>8 DEF EndsWhole, fs

\* A message is put behind the frames that are on the wire.
LEMMA DeliverType ==
  ASSUME Typed, NEW e \in Ends, NEW message \in Seq(FrameType), message # << >>,
         EndsWhole(message), Deliver(e, message)
  PROVE  wire' \in [Ends -> Seq(FrameType)] /\ \A x \in Ends : EndsWhole(wire'[x])
<1> DEFINE p == Peer[e]
           first == IF e = "client"
                    THEN <<[data |-> Identity, more |-> TRUE, of |-> << >>]>> ELSE << >>
           w == (wire[p] \o first) \o message
<1>1. p \in Ends
  BY OwnersFrom
<1>2. first \in Seq(FrameType)
  <2>1. Identity \in Bytes /\ << >> \in Seq(SaidType)
    BY CodecAssumption DEF Bytes
  <2>2. [data |-> Identity, more |-> TRUE, of |-> << >>] \in FrameType
    BY <2>1 DEF FrameType
  <2>3. QED
    BY <2>2
<1>3. wire \in [Ends -> Seq(FrameType)] /\ \A x \in Ends : EndsWhole(wire[x])
  BY DEF Typed
<1>4. wire' = [wire EXCEPT ![p] = w]
  BY DEF Deliver
<1> HIDE DEF p, first
<1>5. wire[p] \o first \in Seq(FrameType)
  BY <1>1, <1>2, <1>3, ConcatProperties
<1>6. /\ w \in Seq(FrameType) /\ Len(w) = Len(wire[p] \o first) + Len(message)
      /\ \A i \in 1 .. Len(wire[p] \o first) + Len(message) :
           w[i] = IF i <= Len(wire[p] \o first) THEN (wire[p] \o first)[i]
                  ELSE message[i - Len(wire[p] \o first)]
  BY <1>5, ConcatProperties
<1>7. Len(message) \in Nat \ {0} /\ Len(wire[p] \o first) \in Nat
  BY <1>5, EmptySeq
<1>8. w[Len(w)] = message[Len(message)]
  BY <1>6, <1>7
<1>9. EndsWhole(w)
  BY <1>8 DEF EndsWhole
<1> HIDE DEF w
<1>10. wire' \in [Ends -> Seq(FrameType)]
  BY <1>1, <1>3, <1>4, <1>6
<1>11. \A x \in Ends : EndsWhole(wire'[x])
  BY <1>1, <1>3, <1>4, <1>9
<1>12. QED
  BY <1>10, <1>11

\* The frames of a payload.
LEMMA PayloadFramesType ==
  ASSUME NEW c \in CodecFits, NEW h, HeapFits(h), c.payload = 0 \/ c.payload \in DOMAIN h
  PROVE  PayloadFrames(c, h) \in Seq(Bytes)
<1>1. << >> \in Seq(Bytes) /\ << << >> >> \in Seq(Bytes)
  BY DEF Bytes
<1>2. c.payload # 0 => h[c.payload] \in Seq(Bytes)
  BY DEF HeapFits, Payloads
<1>3. QED
  BY <1>1, <1>2 DEF PayloadFrames

\* What is sent: a data frame and the frames of the payload.
LEMMA MessageType ==
  ASSUME NEW c \in CodecFits, NEW h, HeapFits(h), c.payload = 0 \/ c.payload \in DOMAIN h,
         NEW data \in Bytes
  PROVE  <<data>> \o PayloadFrames(c, h) \in Seq(Bytes)
         /\ <<data>> \o PayloadFrames(c, h) # << >>
<1>1. <<data>> \in Seq(Bytes) /\ Len(<<data>>) = 1
  OBVIOUS
<1>2. PayloadFrames(c, h) \in Seq(Bytes)
  BY PayloadFramesType
<1>3. /\ <<data>> \o PayloadFrames(c, h) \in Seq(Bytes)
      /\ Len(<<data>> \o PayloadFrames(c, h)) = 1 + Len(PayloadFrames(c, h))
  BY <1>1, <1>2, ConcatProperties
<1>4. Len(PayloadFrames(c, h)) \in Nat
  BY <1>2
<1>5. QED
  BY <1>3, <1>4

\* tpq_codec_send puts a whole message on the wire, or nothing.
LEMMA SendStep ==
  ASSUME Typed, OneOwner, NEW e \in Ends, tpq_codec_send(e) \/ SendShort(e),
         calls' \in 0 .. MaxCalls
  PROVE  Typed' /\ OneOwner'
<1> DEFINE c == codec[e]
           of == IF c.id \in Ids THEN <<Delivered(c, heap)>> ELSE << >>
<1>1. /\ c \in CodecFits /\ HeapFits(heap) /\ (c.payload = 0 \/ c.payload \in DOMAIN heap)
  BY OwnedAlive DEF Typed
<1>2. UNCHANGED <<codec, copy, text, held, heap, got>>
  BY DEF tpq_codec_send, SendShort
<1>3. wire' \in [Ends -> Seq(FrameType)] /\ \A x \in Ends : EndsWhole(wire'[x])
  <2>1. CASE tpq_codec_send(e)
    <3> DEFINE datas == <<DataFrame(c)>> \o PayloadFrames(c, heap)
    <3>1. IF Routable(e) THEN Deliver(e, Frames(datas, of)) ELSE UNCHANGED wire
      BY <2>1 DEF tpq_codec_send
    <3>2. DataFrame(c) \in Bytes
      BY <1>1, DataFrameType
    <3>3. datas \in Seq(Bytes) /\ datas # << >>
      BY <1>1, <3>2, MessageType
    <3>4. of \in Seq(SaidType)
      <4>1. Delivered(c, heap) \in SaidType
        BY <1>1, SaysType
      <4>2. QED
        BY <4>1
    <3> HIDE DEF datas, of
    <3>5. /\ Frames(datas, of) \in Seq(FrameType) /\ Frames(datas, of) # << >>
          /\ EndsWhole(Frames(datas, of))
      BY <3>3, <3>4, FramesType
    <3>6. CASE Deliver(e, Frames(datas, of))
      BY <3>5, <3>6, DeliverType
    <3>7. CASE UNCHANGED wire
      BY <3>7 DEF Typed
    <3>8. QED
      BY <3>1, <3>6, <3>7
  <2>2. CASE SendShort(e)
    <3>1. PICK n \in {k \in Cuts : k < Len(DataFrame(c))} :
            Deliver(e, Frames(<<SubSeq(DataFrame(c), 1, n)>> \o PayloadFrames(c, heap),
                              << >>))
      BY <2>2 DEF SendShort
    <3>2. DataFrame(c) \in Bytes /\ Len(DataFrame(c)) \in Nat
      BY <1>1, DataFrameType DEF Bytes
    <3>3. n \in Nat /\ n <= Len(DataFrame(c))
      BY <3>1, <3>2, MessagesAssumption
    <3> DEFINE data == SubSeq(DataFrame(c), 1, n)
               datas == <<data>> \o PayloadFrames(c, heap)
    <3>4. data \in Bytes
      BY <3>2, <3>3, RestType
    <3> HIDE DEF data
    <3>5. datas \in Seq(Bytes) /\ datas # << >>
      BY <1>1, <3>4, MessageType
    <3>6. << >> \in Seq(SaidType)
      OBVIOUS
    <3>7. Deliver(e, Frames(datas, << >>))
      BY <3>1 DEF data
    <3> HIDE DEF datas
    <3>8. /\ Frames(datas, << >>) \in Seq(FrameType) /\ Frames(datas, << >>) # << >>
          /\ EndsWhole(Frames(datas, << >>))
      BY <3>5, <3>6, FramesType
    <3>9. QED
      BY <3>7, <3>8, DeliverType
  <2>3. QED
    BY <2>1, <2>2
<1>4. OneOwner'
  BY <1>2, SameOwners
<1>5. Typed'
  BY <1>2, <1>3 DEF Typed
<1>6. QED
  BY <1>4, <1>5


\* A nonempty set of naturals has a least element, found by Min.
LEMMA LeastNatural ==
  ASSUME NEW S \in SUBSET Nat, S # {}
  PROVE  Min(S) \in S /\ \A x \in S : Min(S) <= x
<1> DEFINE R == {ss \in Nat \X Nat : ss[1] < ss[2]}
<1>1. R = OpToRel(<, Nat)
  BY Zenon DEF OpToRel
<1>2. IsWellFoundedOn(R, Nat)
  BY <1>1, NatLessThanWellFounded, Zenon
<1> HIDE DEF R
<1>3. PICK m \in S : \A x \in S : ~ (<<x, m>> \in R)
  BY <1>2, WFMin, Zenon
<1>4. ASSUME NEW x \in S
      PROVE  m <= x
  <2>1. ~ (<<x, m>> \in R)
    BY <1>3
  <2>2. ~ (x < m)
    BY <2>1 DEF R
  <2>3. QED
    BY <2>2
<1>5. QED
  BY <1>4 DEF Min

\* The frames after position i - 1 up to the end of its message: none, or all
\* up to the first without more to come.
LEMMA RestOfMessageFacts ==
  ASSUME NEW frames \in Seq(FrameType), EndsWhole(frames), NEW i \in 2 .. Len(frames) + 1
  PROVE  /\ RestOfMessage(frames, i) \in Seq(FrameType)
         /\ Len(RestOfMessage(frames, i)) \in 0 .. (Len(frames) - (i - 1))
         /\ \A j \in 1 .. Len(RestOfMessage(frames, i)) :
              RestOfMessage(frames, i)[j] = frames[(i - 1) + j]
         /\ ~ frames[i - 1].more => RestOfMessage(frames, i) = << >>
         /\ frames[i - 1].more =>
              /\ Len(RestOfMessage(frames, i)) > 0
              /\ ~ frames[(i - 1) + Len(RestOfMessage(frames, i))].more
              /\ \A j \in i .. ((i - 1) + Len(RestOfMessage(frames, i))) - 1 :
                   frames[j].more
<1> DEFINE n == Len(frames)
           S == {j \in i .. n : ~ frames[j].more}
           k == Min(S)
           rest == RestOfMessage(frames, i)
<1>1. n \in Nat /\ i - 1 \in 1 .. n /\ i \in Nat
  OBVIOUS
<1>2. \A j \in 1 .. n : frames[j] \in FrameType /\ frames[j].more \in BOOLEAN
  <2>1. \A j \in 1 .. n : frames[j] \in FrameType
    BY ElementOfSeq
  <2>2. QED
    BY <2>1 DEF FrameType
<1>3. CASE ~ frames[i - 1].more
  <2>1. rest = << >>
    BY <1>3 DEF RestOfMessage
  <2>2. << >> \in Seq(FrameType) /\ Len(<< >>) = 0
    OBVIOUS
  <2> HIDE DEF rest
  <2>3. /\ rest \in Seq(FrameType) /\ Len(rest) \in 0 .. n - (i - 1)
        /\ \A j \in 1 .. Len(rest) : rest[j] = frames[(i - 1) + j]
    BY <1>1, <2>1, <2>2
  <2>4. QED
    BY <1>3, <2>1, <2>3 DEF rest
<1>4. CASE frames[i - 1].more
  <2>1. ~ frames[n].more
    <3>1. frames # << >>
      BY <1>1
    <3>2. QED
      BY <3>1 DEF EndsWhole
  <2>2. n # i - 1
    BY <1>4, <2>1
  <2>3. n \in S
    BY <1>1, <2>1, <2>2
  <2>4. S \in SUBSET Nat
    BY <1>1
  <2>5. k \in S /\ \A j \in S : k <= j
    BY <2>3, <2>4, LeastNatural
  <2> HIDE DEF k
  <2>6. /\ k \in i .. n /\ ~ frames[k].more
        /\ \A j \in i .. k - 1 : frames[j].more
    BY <1>1, <1>2, <2>5
  <2>7. rest = SubSeq(frames, i, k)
    BY <1>4 DEF RestOfMessage, k
  <2> HIDE DEF rest, S
  <2>8. \A j \in i .. k : frames[j] \in FrameType
    BY <1>1, <1>2, <2>6
  <2>9. /\ SubSeq(frames, i, k) \in Seq(FrameType)
        /\ Len(SubSeq(frames, i, k)) = IF i <= k THEN k - i + 1 ELSE 0
        /\ \A j \in 1 .. k - i + 1 : SubSeq(frames, i, k)[j] = frames[i + j - 1]
    <3>1. k \in Int /\ i \in Int
      BY <1>1, <2>6
    <3>2. QED
      BY <2>8, <3>1, SubSeqProperties
  <2>10. /\ rest \in Seq(FrameType) /\ Len(rest) = k - (i - 1)
         /\ \A j \in 1 .. k - (i - 1) : rest[j] = frames[(i - 1) + j]
    <3>1. k - i + 1 = k - (i - 1) /\ i <= k
      BY <1>1, <2>6
    <3>2. ASSUME NEW j \in 1 .. k - (i - 1)
          PROVE  rest[j] = frames[(i - 1) + j]
      <4>1. rest[j] = frames[i + j - 1]
        BY <2>7, <2>9, <3>1
      <4>2. i + j - 1 = (i - 1) + j
        BY <1>1
      <4>3. QED
        BY <4>1, <4>2
    <3>3. QED
      BY <2>7, <2>9, <3>1, <3>2
  <2>11. Len(rest) \in 0 .. n - (i - 1) /\ Len(rest) > 0 /\ (i - 1) + Len(rest) = k
    BY <1>1, <2>6, <2>10
  <2>12. QED
    BY <1>4, <2>6, <2>10, <2>11 DEF rest
<1>5. QED
  BY <1>3, <1>4

\* What is left on a wire after whole frames were taken from its front.
LEMMA DropType ==
  ASSUME NEW frames \in Seq(FrameType), EndsWhole(frames), NEW n \in 0 .. Len(frames)
  PROVE  /\ SubSeq(frames, n + 1, Len(frames)) \in Seq(FrameType)
         /\ Len(SubSeq(frames, n + 1, Len(frames))) = Len(frames) - n
         /\ \A j \in 1 .. Len(frames) - n :
              SubSeq(frames, n + 1, Len(frames))[j] = frames[n + j]
         /\ EndsWhole(SubSeq(frames, n + 1, Len(frames)))
<1> DEFINE m == Len(frames)
           t == SubSeq(frames, n + 1, m)
<1>1. m \in Nat /\ n \in Nat
  OBVIOUS
<1>2. \A j \in n + 1 .. m : frames[j] \in FrameType
  <2>1. \A j \in 1 .. m : frames[j] \in FrameType
    BY ElementOfSeq
  <2>2. QED
    BY <1>1, <2>1
<1>3. /\ t \in Seq(FrameType)
      /\ Len(t) = IF n + 1 <= m THEN m - (n + 1) + 1 ELSE 0
      /\ \A j \in 1 .. m - (n + 1) + 1 : t[j] = frames[(n + 1) + j - 1]
  <2>1. m \in Int /\ n + 1 \in Int
    BY <1>1
  <2>2. QED
    BY <1>2, <2>1, SubSeqProperties
<1> HIDE DEF t
<1>4. Len(t) = m - n
  BY <1>1, <1>3
<1>5. ASSUME NEW j \in 1 .. m - n
      PROVE  t[j] = frames[n + j]
  <2>1. m - (n + 1) + 1 = m - n /\ (n + 1) + j - 1 = n + j
    BY <1>1
  <2>2. QED
    BY <1>3, <2>1
<1>6. EndsWhole(t)
  <2>1. ASSUME t # << >>
        PROVE  ~ t[Len(t)].more
    <3>1. Len(t) > 0
      BY <1>3, <2>1
    <3>2. t[m - n] = frames[n + (m - n)]
      BY <1>1, <1>4, <1>5, <3>1
    <3>3. n + (m - n) = m /\ frames # << >>
      BY <1>1, <1>4, <3>1
    <3>4. QED
      BY <1>4, <3>2, <3>3 DEF EndsWhole
  <2>2. QED
    BY <2>1 DEF EndsWhole
<1>7. QED
  BY <1>3, <1>4, <1>5, <1>6 DEF t


\* A data frame is parsed, and the payload of a RESULT replaces the one before.
LEMMA ReceiveDataStep ==
  ASSUME Typed, OneOwner, NEW e \in Ends, NEW c \in CodecFits,
         c.payload = codec[e].payload, NEW i \in 1 .. Len(wire[e]), ReceiveData(e, c, i),
         calls' \in 0 .. MaxCalls
  PROVE  Typed' /\ OneOwner'
<1> DEFINE frames == wire[e]
           p == Parse(c, frames[i].data)
           whole == p.codec.id = RESULT /\ ~ p.short
           tail == IF whole THEN RestOfMessage(frames, i + 1) ELSE << >>
           datas == [j \in DOMAIN tail |-> tail[j].data]
           freed == Destroy(heap, c.payload)
           after == IF whole THEN [p.codec EXCEPT !.payload = Fresh(freed)] ELSE p.codec
<1>1. /\ frames \in Seq(FrameType) /\ EndsWhole(frames) /\ Len(frames) \in Nat
      /\ HeapFits(heap) /\ codec \in [Ends -> CodecFits]
  BY DEF Typed
<1>2. /\ frames[i] \in FrameType /\ frames[i].data \in Bytes /\ frames[i].of \in Seq(SaidType)
  <2>1. frames[i] \in FrameType
    BY <1>1, ElementOfSeq
  <2>2. QED
    BY <2>1 DEF FrameType
<1>3. p.codec \in CodecFits /\ p.codec.payload = codec[e].payload
  BY <1>2, ParseType
<1>4. p.rc \in {0, -1, -2}
  BY DEF Parse
<1>5. /\ tail \in Seq(FrameType) /\ Len(tail) \in 0 .. Len(frames) - i
  <2>1. i + 1 \in 2 .. Len(frames) + 1 /\ (i + 1) - 1 = i
    BY <1>1
  <2>2. /\ RestOfMessage(frames, i + 1) \in Seq(FrameType)
        /\ Len(RestOfMessage(frames, i + 1)) \in 0 .. (Len(frames) - ((i + 1) - 1))
    BY <1>1, <2>1, RestOfMessageFacts
  <2>3. << >> \in Seq(FrameType) /\ Len(<< >>) = 0
    OBVIOUS
  <2>4. QED
    BY <1>1, <2>1, <2>2, <2>3
<1>6. /\ whole => FreshIds(freed) # {}
      /\ wire' = [wire EXCEPT ![e] = SubSeq(wire[e], i + 1 + Len(tail), Len(wire[e]))]
      /\ codec' = [codec EXCEPT ![e] = after]
      /\ heap' = IF whole THEN Alloc(freed, datas) ELSE heap
      /\ got' = [got EXCEPT ![e] = [rc |-> p.rc, of |-> frames[i].of]]
      /\ UNCHANGED <<copy, text, held>>
  BY DEF ReceiveData
<1> HIDE DEF frames, p, tail
<1>7. datas \in Payloads
  <2>1. DOMAIN tail = 1 .. Len(tail) /\ Len(tail) \in Nat
    BY <1>5, LenProperties
  <2>2. \A j \in 1 .. Len(tail) : tail[j].data \in Bytes
    <3>1. \A j \in 1 .. Len(tail) : tail[j] \in FrameType
      BY <1>5, ElementOfSeq
    <3>2. QED
      BY <3>1 DEF FrameType
  <2>3. datas \in [1 .. Len(tail) -> Bytes]
    BY <2>1, <2>2
  <2>4. QED
    BY <2>1, <2>3, FunctionIsSeq DEF Payloads
<1> HIDE DEF whole, datas, freed, after
<1>8. HeapFits(freed)
  BY <1>1, DestroyFacts DEF freed
<1>9. Copied' = Copied /\ held' = held
  BY <1>6 DEF Copied
<1>10. OwnedOnce(heap, codec[e].payload, codec[Peer[e]].payload, Copied, held)
  BY OwnersFrom
<1>11. codec'[e] = after /\ codec'[Peer[e]] = codec[Peer[e]]
  BY <1>1, <1>6, OwnersFrom
<1>12. ASSUME ~ whole
       PROVE  OneOwner' /\ after \in CodecFits /\ HeapFits(heap')
  <2>1. after = p.codec /\ heap' = heap
    BY <1>6, <1>12 DEF after
  <2>2. codec'[e].payload = codec[e].payload
    BY <1>3, <1>11, <2>1
  <2>3. after \in CodecFits /\ HeapFits(heap')
    BY <1>1, <1>3, <2>1
  <2>4. OneOwner'
    BY <1>6, <1>11, <2>1, <2>2, OwnersFrom, SameOwners
  <2>5. QED
    BY <2>3, <2>4
<1>13. ASSUME whole
       PROVE  OneOwner' /\ after \in CodecFits /\ HeapFits(heap')
  <2>1. after = [p.codec EXCEPT !.payload = Fresh(freed)] /\ heap' = Alloc(freed, datas)
    BY <1>6, <1>13 DEF after
  <2>2. FreshIds(freed) # {}
    BY <1>6, <1>13
  <2>3. Fresh(freed) \in 0 .. MaxMsgs
    <3>1. Fresh(freed) \in 1 .. MaxMsgs
      BY <2>2, AllocFacts
    <3>2. QED
      BY <3>1, CodecAssumption
  <2>4. after \in CodecFits
    BY <1>3, <2>1, <2>3, PayloadUpdate
  <2>5. HeapFits(heap')
    BY <1>7, <1>8, <2>1, <2>2, AllocFacts
  <2>6. after.payload = Fresh(freed)
    BY <1>3, <2>1 DEF CodecFits, CodecType
  <2>7. OwnedOnce(freed, 0, codec[Peer[e]].payload, Copied, held)
    BY <1>1, <1>10, OwnedDestroy DEF freed
  <2>8. OwnedOnce(heap', Fresh(freed), codec[Peer[e]].payload, Copied, held)
    BY <1>8, <2>1, <2>2, <2>7, OwnedAlloc
  <2>9. OneOwner'
    BY <1>9, <1>11, <2>6, <2>8, OwnersFrom
  <2>10. QED
    BY <2>4, <2>5, <2>9
<1>14. OneOwner' /\ after \in CodecFits /\ HeapFits(heap')
  BY <1>12, <1>13
<1>15. codec' \in [Ends -> CodecFits]
  BY <1>1, <1>6, <1>14
<1>16. wire' \in [Ends -> Seq(FrameType)] /\ \A x \in Ends : EndsWhole(wire'[x])
  <2> DEFINE n == i + Len(tail)
             left == SubSeq(frames, n + 1, Len(frames))
  <2>1. n \in 0 .. Len(frames) /\ i + 1 + Len(tail) = n + 1
    BY <1>1, <1>5
  <2> HIDE DEF n
  <2>2. left \in Seq(FrameType) /\ EndsWhole(left)
    BY <1>1, <2>1, DropType
  <2>3. wire' = [wire EXCEPT ![e] = left]
    BY <1>6, <2>1 DEF frames
  <2> HIDE DEF left
  <2>4. wire \in [Ends -> Seq(FrameType)] /\ \A x \in Ends : EndsWhole(wire[x])
    BY DEF Typed
  <2>5. QED
    BY <2>2, <2>3, <2>4
<1>17. got' \in [Ends -> AnswerType]
  <2>1. [rc |-> p.rc, of |-> frames[i].of] \in AnswerType
    BY <1>2, <1>4 DEF AnswerType
  <2>2. got \in [Ends -> AnswerType]
    BY DEF Typed
  <2>3. QED
    BY <1>6, <2>1, <2>2
<1>18. Typed'
  BY <1>6, <1>14, <1>15, <1>16, <1>17 DEF Typed
<1>19. QED
  BY <1>14, <1>18

\* The routing id is replaced, which no one else owns.
LEMMA RoutingIdSet ==
  ASSUME NEW c \in CodecFits, NEW b \in Bytes
  PROVE  /\ [c EXCEPT !.routing_id = <<b>>] \in CodecFits
         /\ [c EXCEPT !.routing_id = <<b>>].payload = c.payload
         /\ [c EXCEPT !.routing_id = << >>] \in CodecFits
         /\ [c EXCEPT !.routing_id = << >>].payload = c.payload
<1>1. <<b>> \in Seq(Bytes) /\ Len(<<b>>) <= 1 /\ << >> \in Seq(Bytes) /\ Len(<< >>) <= 1
  OBVIOUS
<1>2. /\ [c EXCEPT !.routing_id = <<b>>] \in CodecFits
      /\ [c EXCEPT !.routing_id = << >>] \in CodecFits
  BY <1>1, RoutingUpdate
<1>3. /\ [c EXCEPT !.routing_id = <<b>>].payload = c.payload
      /\ [c EXCEPT !.routing_id = << >>].payload = c.payload
  BY DEF CodecFits, CodecType
<1>4. QED
  BY <1>2, <1>3

\* tpq_codec_recv: a ROUTER reads the routing id first.
LEMMA ReceiveStep ==
  ASSUME Typed, OneOwner, NEW e \in Ends, tpq_codec_recv(e), calls' \in 0 .. MaxCalls
  PROVE  Typed' /\ OneOwner'
<1> DEFINE first == wire[e][1].data
           named == [codec[e] EXCEPT !.routing_id = <<first>>]
<1>1. /\ wire \in [Ends -> Seq(FrameType)] /\ wire[e] # << >> /\ EndsWhole(wire[e])
      /\ codec \in [Ends -> CodecFits]
  BY DEF Typed, tpq_codec_recv
<1>2. Len(wire[e]) \in Nat \ {0}
  BY <1>1, EmptySeq
<1>3. wire[e][1] \in FrameType
  BY <1>1, <1>2, ElementOfSeq
<1>4. first \in Bytes /\ wire[e][1].of \in Seq(SaidType) /\ wire[e][1].more \in BOOLEAN
  BY <1>3 DEF FrameType
<1> HIDE DEF first
<1>5. named \in CodecFits /\ named.payload = codec[e].payload
  BY <1>1, <1>4, RoutingIdSet
<1>6. CASE e = "client"
  <2>1. ReceiveData(e, codec[e], 1)
    BY <1>6 DEF tpq_codec_recv
  <2>2. 1 \in 1 .. Len(wire[e])
    BY <1>2
  <2>3. QED
    BY <1>1, <2>1, <2>2, ReceiveDataStep
<1>7. CASE e # "client" /\ wire[e][1].more
  <2>1. ReceiveData(e, named, 2)
    BY <1>7 DEF tpq_codec_recv, first
  <2>2. 2 \in 1 .. Len(wire[e])
    BY <1>1, <1>2, <1>7 DEF EndsWhole
  <2>3. QED
    BY <1>5, <2>1, <2>2, ReceiveDataStep
<1>8. CASE e # "client" /\ ~ wire[e][1].more
  <2>1. /\ codec' = [codec EXCEPT ![e] = named]
        /\ wire' = [wire EXCEPT ![e] = Tail(wire[e])]
        /\ got' = [got EXCEPT ![e] = [rc |-> -1, of |-> wire[e][1].of]]
        /\ UNCHANGED <<copy, text, held, heap>>
    BY <1>8 DEF tpq_codec_recv, first
  <2> HIDE DEF named
  <2>2. OneOwner'
    <3>1. \A x \in Ends : codec'[x].payload = codec[x].payload
      BY <1>1, <1>5, <2>1
    <3>2. QED
      BY <2>1, <3>1, SameOwners
  <2>3. codec' \in [Ends -> CodecFits]
    BY <1>1, <1>5, <2>1
  <2>4. wire' \in [Ends -> Seq(FrameType)] /\ \A x \in Ends : EndsWhole(wire'[x])
    <3>1. 1 \in 0 .. Len(wire[e])
      BY <1>2
    <3>2. Tail(wire[e]) = SubSeq(wire[e], 1 + 1, Len(wire[e]))
      BY <1>1, TailIsSubSeq
    <3>3. Tail(wire[e]) \in Seq(FrameType) /\ EndsWhole(Tail(wire[e]))
      BY <1>1, <3>1, <3>2, DropType
    <3>4. \A x \in Ends : EndsWhole(wire[x])
      BY DEF Typed
    <3>5. QED
      BY <1>1, <2>1, <3>3, <3>4
  <2>5. got' \in [Ends -> AnswerType]
    <3>1. [rc |-> -1, of |-> wire[e][1].of] \in AnswerType
      BY <1>4 DEF AnswerType
    <3>2. got \in [Ends -> AnswerType]
      BY DEF Typed
    <3>3. QED
      BY <2>1, <3>1, <3>2
  <2>6. Typed'
    BY <2>1, <2>3, <2>4, <2>5 DEF Typed
  <2>7. QED
    BY <2>2, <2>6
<1>9. QED
  BY <1>4, <1>6, <1>7, <1>8


\* A signal interrupts the receive.
LEMMA InterruptStep ==
  ASSUME Typed, OneOwner, NEW e \in Ends, Interrupt(e), calls' \in 0 .. MaxCalls
  PROVE  Typed' /\ OneOwner'
<1>1. codec \in [Ends -> CodecFits] /\ got \in [Ends -> AnswerType]
  BY DEF Typed
<1>2. /\ codec' = IF e = "server" THEN [codec EXCEPT ![e].routing_id = << >>] ELSE codec
      /\ got' = [got EXCEPT ![e] = [rc |-> -1, of |-> << >>]]
      /\ UNCHANGED <<copy, text, held, heap, wire>>
  BY DEF Interrupt
<1>3. /\ [codec[e] EXCEPT !.routing_id = << >>] \in CodecFits
      /\ [codec[e] EXCEPT !.routing_id = << >>].payload = codec[e].payload
  <2>1. << >> \in Bytes
    BY DEF Bytes
  <2>2. QED
    BY <1>1, <2>1, RoutingIdSet
<1> DEFINE c == [codec[e] EXCEPT !.routing_id = << >>]
<1>4. codec' = [codec EXCEPT ![e] = c] \/ codec' = codec
  BY <1>2
<1> HIDE DEF c
<1>5. codec' \in [Ends -> CodecFits] /\ \A x \in Ends : codec'[x].payload = codec[x].payload
  BY <1>1, <1>3, <1>4 DEF c
<1>6. [rc |-> -1, of |-> << >>] \in AnswerType
  BY DEF AnswerType
<1>7. got' \in [Ends -> AnswerType]
  BY <1>1, <1>2, <1>6
<1>8. Typed'
  BY <1>2, <1>5, <1>7 DEF Typed
<1>9. OneOwner'
  BY <1>2, <1>5, SameOwners
<1>10. QED
  BY <1>8, <1>9

\* The server addresses its object to a client.
LEMMA SetRoutingStep ==
  ASSUME Typed, OneOwner, NEW e \in Ends, tpq_codec_set_routing_id(e),
         calls' \in 0 .. MaxCalls
  PROVE  Typed' /\ OneOwner'
<1> DEFINE c == [codec[e] EXCEPT !.routing_id = <<Identity>>]
<1>1. codec \in [Ends -> CodecFits]
  BY DEF Typed
<1>2. codec' = [codec EXCEPT ![e] = c] /\ UNCHANGED <<copy, text, held, heap, wire, got>>
  BY DEF tpq_codec_set_routing_id
<1>3. c \in CodecFits /\ c.payload = codec[e].payload
  <2>1. Identity \in Bytes
    BY CodecAssumption DEF Bytes
  <2>2. QED
    BY <1>1, <2>1, RoutingIdSet
<1> HIDE DEF c
<1>4. codec' \in [Ends -> CodecFits] /\ \A x \in Ends : codec'[x].payload = codec[x].payload
  BY <1>1, <1>2, <1>3
<1>5. Typed'
  BY <1>2, <1>4 DEF Typed
<1>6. OneOwner'
  BY <1>2, <1>4, SameOwners
<1>7. QED
  BY <1>5, <1>6

\* A C string is made of bytes.
LEMMA CStringType ==
  ASSUME NEW s \in Seq(1 .. Byte - 1)
  PROVE  s \in Bytes
<1> DEFINE S == 1 .. Byte - 1
           T == 0 .. Byte - 1
<1>1. S \subseteq T
  BY ByteType
<1>2. s \in Seq(S)
  OBVIOUS
<1> HIDE DEF S, T
<1>3. s \in Seq(T)
  BY <1>1, <1>2, SeqMonotonic
<1>4. QED
  BY <1>3 DEF T, Bytes

\* The setters keep an object within its types.
LEMMA SetType ==
  ASSUME NEW c \in CodecFits, NEW e \in Ends, NEW m \in Messages[e]
  PROVE  /\ Set([c EXCEPT !.id = m.id], m.set) \in CodecFits
         /\ Set([c EXCEPT !.id = m.id], m.set).payload = c.payload
<1> DEFINE b == [c EXCEPT !.id = m.id]
           d == Set(b, m.set)
<1>1. /\ m.id \in Ids /\ DOMAIN m.set \subseteq Strings \cup Numbers
      /\ \A f \in DOMAIN m.set \cap Strings : m.set[f] \in Seq(1 .. Byte - 1)
      /\ \A f \in DOMAIN m.set \cap Numbers : m.set[f] \in Int
  BY MessagesAssumption
<1>2. m.id \in 0 .. Byte - 1
  BY <1>1, ByteType DEF Ids, HELLO, ERROR
<1>3. b \in CodecFits
  BY <1>2, IdUpdate
<1>4. b.payload = c.payload /\ b.routing_id = c.routing_id
  BY DEF CodecFits, CodecType
<1> HIDE DEF b
<1>5. DOMAIN b = FieldNames
  BY <1>3, FieldsType
<1>6. d = [f \in FieldNames |->
             IF f \notin DOMAIN m.set THEN b[f]
             ELSE IF f \in Strings THEN SetString(m.set[f]) ELSE SetNumber(f, m.set[f])]
  BY <1>5 DEF Set
<1> HIDE DEF d
<1>7. DOMAIN d = FieldNames /\ d = [f \in DOMAIN d |-> d[f]]
  BY <1>6
<1>8. d["id"] = b["id"] /\ d["payload"] = b["payload"] /\ d["routing_id"] = b["routing_id"]
  BY <1>1, <1>6 DEF FieldNames, Strings, Numbers
<1>9. ASSUME NEW f \in Numbers
      PROVE  d[f] \in 0 .. Capacity(f) - 1
  <2>1. f \in FieldNames /\ f \notin Strings
    BY DEF Numbers, Strings, FieldNames
  <2>2. CASE f \in DOMAIN m.set
    <3>1. d[f] = SetNumber(f, m.set[f]) /\ m.set[f] \in Int
      BY <1>1, <1>6, <2>1, <2>2
    <3>2. QED
      BY <3>1, SetNumberType
  <2>3. CASE f \notin DOMAIN m.set
    <3>1. d[f] = b[f]
      BY <1>6, <2>1, <2>3
    <3>2. QED
      BY <1>3, <3>1, FieldsType
  <2>4. QED
    BY <2>2, <2>3
<1>10. ASSUME NEW f \in Strings
       PROVE  d[f] \in Bytes /\ Len(d[f]) < Byte
  <2>1. f \in FieldNames
    BY DEF Strings, FieldNames
  <2>2. CASE f \in DOMAIN m.set
    <3>1. d[f] = SetString(m.set[f]) /\ m.set[f] \in Seq(1 .. Byte - 1)
      BY <1>1, <1>6, <2>1, <2>2
    <3>3. m.set[f] \in Bytes
      BY <3>1, CStringType
    <3>4. QED
      BY <3>1, <3>3, SetStringType
  <2>3. CASE f \notin DOMAIN m.set
    <3>1. d[f] = b[f]
      BY <1>6, <2>1, <2>3
    <3>2. QED
      BY <1>3, <3>1, FieldsType
  <2>4. QED
    BY <2>2, <2>3
<1>11. /\ b.id \in 0 .. Byte - 1 /\ b.payload \in 0 .. MaxMsgs
       /\ b.routing_id \in Seq(Bytes) /\ Len(b.routing_id) <= 1
  BY <1>3, FieldsType
<1>12. d \in CodecFits
  BY <1>7, <1>8, <1>9, <1>10, <1>11, FitsFromFields
<1>13. QED
  BY <1>4, <1>8, <1>12 DEF d, b

\* The program writes a message into its object.
LEMMA ComposeStep ==
  ASSUME Typed, OneOwner, NEW e \in Ends, Compose(e), calls' \in 0 .. MaxCalls
  PROVE  Typed' /\ OneOwner'
<1>1. codec \in [Ends -> CodecFits] /\ got \in [Ends -> AnswerType] /\ HeapFits(heap)
  BY DEF Typed
<1>2. PICK m \in Messages[e] :
        LET c == Set([codec[e] EXCEPT !.id = m.id], m.set)
            freed == Destroy(heap, c.payload)
        IN  IF m.payload = << >>
            THEN codec' = [codec EXCEPT ![e] = c] /\ UNCHANGED heap
            ELSE /\ FreshIds(freed) # {}
                 /\ codec' = [codec EXCEPT ![e] = [c EXCEPT !.payload = Fresh(freed)]]
                 /\ heap' = Alloc(freed, m.payload[1])
  BY DEF Compose
<1> DEFINE c == Set([codec[e] EXCEPT !.id = m.id], m.set)
           freed == Destroy(heap, c.payload)
<1>3. /\ got' = [got EXCEPT ![e] = [rc |-> 0, of |-> << >>]]
      /\ UNCHANGED <<copy, text, held, wire>>
  BY DEF Compose
<1>4. c \in CodecFits /\ c.payload = codec[e].payload
  BY <1>1, SetType
<1>5. \/ m.payload = << >> /\ codec' = [codec EXCEPT ![e] = c] /\ heap' = heap
      \/ /\ m.payload # << >> /\ FreshIds(freed) # {}
         /\ codec' = [codec EXCEPT ![e] = [c EXCEPT !.payload = Fresh(freed)]]
         /\ heap' = Alloc(freed, m.payload[1])
  BY <1>2
<1> HIDE DEF c, freed
<1>6. ASSUME codec' = [codec EXCEPT ![e] = c], heap' = heap
      PROVE  OneOwner' /\ codec' \in [Ends -> CodecFits] /\ HeapFits(heap')
  <2>1. \A x \in Ends : codec'[x].payload = codec[x].payload
    BY <1>1, <1>4, <1>6
  <2>2. codec' \in [Ends -> CodecFits]
    BY <1>1, <1>4, <1>6
  <2>3. QED
    BY <1>1, <1>3, <1>6, <2>1, <2>2, SameOwners
<1>7. ASSUME m.payload # << >>, FreshIds(freed) # {},
             codec' = [codec EXCEPT ![e] = [c EXCEPT !.payload = Fresh(freed)]],
             heap' = Alloc(freed, m.payload[1])
      PROVE  OneOwner' /\ codec' \in [Ends -> CodecFits] /\ HeapFits(heap')
  <2>1. m.payload[1] \in Payloads
    <3>1. m.payload \in Seq(Seq(Seq(0 .. Byte - 1)))
      BY MessagesAssumption
    <3>2. m.payload \in Seq(Payloads)
      BY <3>1 DEF Payloads, Bytes
    <3>3. 1 \in 1 .. Len(m.payload)
      BY <1>7, <3>2, EmptySeq
    <3>4. QED
      BY <3>2, <3>3, ElementOfSeq
  <2>2. HeapFits(freed)
    BY <1>1, DestroyFacts DEF freed
  <2>3. HeapFits(heap') /\ Fresh(freed) \in 1 .. MaxMsgs
    BY <1>7, <2>1, <2>2, AllocFacts
  <2>4. Fresh(freed) \in 0 .. MaxMsgs
    BY <2>3, CodecAssumption
  <2> DEFINE d == [c EXCEPT !.payload = Fresh(freed)]
  <2>5. d \in CodecFits
    BY <1>4, <2>4, PayloadUpdate
  <2>6. d.payload = Fresh(freed)
    BY <1>4 DEF CodecFits, CodecType
  <2> HIDE DEF d
  <2>7. codec' = [codec EXCEPT ![e] = d]
    BY <1>7 DEF d
  <2>8. codec' \in [Ends -> CodecFits]
    BY <1>1, <2>5, <2>7
  <2>9. codec'[e] = d /\ codec'[Peer[e]] = codec[Peer[e]]
    BY <1>1, <2>7, OwnersFrom
  <2>10. OwnedOnce(heap, codec[e].payload, codec[Peer[e]].payload, Copied, held)
    BY OwnersFrom
  <2>11. OwnedOnce(freed, 0, codec[Peer[e]].payload, Copied, held)
    BY <1>1, <1>4, <2>10, OwnedDestroy DEF freed
  <2>12. OwnedOnce(heap', Fresh(freed), codec[Peer[e]].payload, Copied, held)
    BY <1>7, <2>2, <2>11, OwnedAlloc
  <2>13. Copied' = Copied /\ held' = held
    BY <1>3 DEF Copied
  <2>14. OneOwner'
    BY <2>6, <2>9, <2>12, <2>13, OwnersFrom
  <2>15. QED
    BY <2>3, <2>8, <2>14
<1>8. OneOwner' /\ codec' \in [Ends -> CodecFits] /\ HeapFits(heap')
  BY <1>5, <1>6, <1>7
<1>9. got' \in [Ends -> AnswerType]
  <2>1. [rc |-> 0, of |-> << >>] \in AnswerType
    BY DEF AnswerType
  <2>2. QED
    BY <1>1, <1>3, <2>1
<1>10. Typed'
  BY <1>3, <1>8, <1>9 DEF Typed
<1>11. QED
  BY <1>8, <1>10


\* The payload moves to the application.
LEMMA GetPayloadStep ==
  ASSUME Typed, OneOwner, NEW e \in Ends, tpq_codec_get_payload(e), calls' \in 0 .. MaxCalls
  PROVE  Typed' /\ OneOwner'
<1> DEFINE c == [codec[e] EXCEPT !.payload = 0]
           g == [got[e] EXCEPT !.of = << >>]
<1>1. codec \in [Ends -> CodecFits] /\ got \in [Ends -> AnswerType]
  BY DEF Typed
<1>2. /\ held = 0 /\ held' = codec[e].payload
      /\ codec' = [codec EXCEPT ![e] = c] /\ got' = [got EXCEPT ![e] = g]
      /\ UNCHANGED <<copy, text, heap, wire>>
  BY DEF tpq_codec_get_payload
<1>3. c \in CodecFits /\ c.payload = 0
  <2>1. 0 \in 0 .. MaxMsgs
    BY CodecAssumption
  <2>2. QED
    BY <1>1, <2>1, PayloadUpdate DEF CodecFits, CodecType
<1>4. g \in AnswerType
  <2>1. got[e] \in AnswerType /\ << >> \in Seq(SaidType)
    BY <1>1, EmptySeq
  <2>2. QED
    BY <2>1 DEF AnswerType
<1> HIDE DEF c, g
<1>5. codec' \in [Ends -> CodecFits] /\ got' \in [Ends -> AnswerType]
  BY <1>1, <1>2, <1>3, <1>4
<1>6. held' \in 0 .. MaxMsgs
  BY <1>1, <1>2, FieldsType
<1>7. codec'[e].payload = 0 /\ codec'[Peer[e]] = codec[Peer[e]]
  BY <1>1, <1>2, <1>3, OwnersFrom
<1>8. OwnedOnce(heap, codec[e].payload, codec[Peer[e]].payload, Copied, 0)
  BY <1>2, OwnersFrom
<1>9. OwnedOnce(heap, 0, codec[Peer[e]].payload, Copied, codec[e].payload)
  BY <1>8, OwnedMove
<1>10. Copied' = Copied /\ heap' = heap
  BY <1>2 DEF Copied
<1>11. OneOwner'
  BY <1>2, <1>7, <1>9, <1>10, OwnersFrom
<1>12. Typed'
  BY <1>2, <1>5, <1>6 DEF Typed
<1>13. QED
  BY <1>11, <1>12

\* The payload the application holds replaces the one of the object.
LEMMA SetPayloadStep ==
  ASSUME Typed, OneOwner, NEW e \in Ends, tpq_codec_set_payload(e), calls' \in 0 .. MaxCalls
  PROVE  Typed' /\ OneOwner'
<1> DEFINE c == [codec[e] EXCEPT !.payload = held]
           g == [got[e] EXCEPT !.of = << >>]
<1>1. /\ codec \in [Ends -> CodecFits] /\ got \in [Ends -> AnswerType] /\ HeapFits(heap)
      /\ held \in 0 .. MaxMsgs
  BY DEF Typed
<1>2. /\ held' = 0 /\ heap' = Destroy(heap, codec[e].payload)
      /\ codec' = [codec EXCEPT ![e] = c] /\ got' = [got EXCEPT ![e] = g]
      /\ UNCHANGED <<copy, text, wire>>
  BY DEF tpq_codec_set_payload
<1>3. c \in CodecFits /\ c.payload = held
  BY <1>1, PayloadUpdate DEF CodecFits, CodecType
<1>4. g \in AnswerType
  <2>1. got[e] \in AnswerType /\ << >> \in Seq(SaidType)
    BY <1>1, EmptySeq
  <2>2. QED
    BY <2>1 DEF AnswerType
<1> HIDE DEF c, g
<1>5. codec' \in [Ends -> CodecFits] /\ got' \in [Ends -> AnswerType]
  BY <1>1, <1>2, <1>3, <1>4
<1>6. codec'[e].payload = held /\ codec'[Peer[e]] = codec[Peer[e]]
  BY <1>1, <1>2, <1>3, OwnersFrom
<1>7. OwnedOnce(heap, codec[e].payload, codec[Peer[e]].payload, Copied, held)
  BY OwnersFrom
<1>8. OwnedOnce(heap', held, codec[Peer[e]].payload, Copied, 0)
  BY <1>1, <1>2, <1>7, OwnedDestroy
<1>9. Copied' = Copied
  BY <1>2 DEF Copied
<1>10. OneOwner'
  BY <1>2, <1>6, <1>8, <1>9, OwnersFrom
<1>11. HeapFits(heap')
  BY <1>1, <1>2, DestroyFacts
<1>12. held' \in 0 .. MaxMsgs
  BY <1>2, CodecAssumption
<1>13. Typed'
  BY <1>2, <1>5, <1>11, <1>12 DEF Typed
<1>14. QED
  BY <1>10, <1>13

\* The application destroys what it holds.
LEMMA DestroyPayloadStep ==
  ASSUME Typed, OneOwner, DestroyPayload, calls' \in 0 .. MaxCalls
  PROVE  Typed' /\ OneOwner'
<1>1. /\ held' = 0 /\ heap' = Destroy(heap, held)
      /\ UNCHANGED <<codec, copy, text, wire, got>> /\ HeapFits(heap)
  BY DEF DestroyPayload, Typed
<1>2. OwnedOnce(heap, codec["client"].payload, codec["server"].payload, Copied, held)
  BY OneOwnerByName
<1>3. OwnedOnce(heap', codec["client"].payload, codec["server"].payload, Copied, 0)
  BY <1>1, <1>2, OwnedDestroy
<1>4. Copied' = Copied
  BY <1>1 DEF Copied
<1>5. OneOwner'
  BY <1>1, <1>3, <1>4, OneOwnerByNameNext
<1>6. HeapFits(heap')
  BY <1>1, DestroyFacts
<1>7. held' \in 0 .. MaxMsgs
  BY <1>1, CodecAssumption
<1>8. Typed'
  BY <1>1, <1>6, <1>7 DEF Typed
<1>9. QED
  BY <1>5, <1>8

\* The copy owns a payload of its own.
LEMMA CopyStep ==
  ASSUME Typed, OneOwner, copy = << >>, calls' \in 0 .. MaxCalls,
         UNCHANGED <<codec, text, held, wire, got>>,
         NEW c \in CodecFits, NEW says,
         \/ c.payload = 0 /\ copy' = <<c, says>> /\ heap' = heap
         \/ \E frames \in Payloads :
              /\ FreshIds(heap) # {} /\ heap' = Alloc(heap, frames)
              /\ copy' = <<[c EXCEPT !.payload = Fresh(heap)], says>>
  PROVE  Typed' /\ OneOwner'
<1>1. OwnedOnce(heap, codec["client"].payload, codec["server"].payload, 0, held)
  BY OneOwnerByName DEF Copied
<1>2. HeapFits(heap)
  BY DEF Typed
<1>3. ASSUME c.payload = 0, copy' = <<c, says>>, heap' = heap
      PROVE  OneOwner' /\ HeapFits(heap') /\ copy' = <<copy'[1], copy'[2]>>
             /\ copy'[1] \in CodecFits
  <2>1. Copied' = 0
    BY <1>3 DEF Copied
  <2>2. OneOwner'
    BY <1>1, <1>3, <2>1, OneOwnerByNameNext
  <2>3. QED
    BY <1>2, <1>3, <2>2
<1>4. ASSUME NEW frames \in Payloads, FreshIds(heap) # {}, heap' = Alloc(heap, frames),
             copy' = <<[c EXCEPT !.payload = Fresh(heap)], says>>
      PROVE  OneOwner' /\ HeapFits(heap') /\ copy' = <<copy'[1], copy'[2]>>
             /\ copy'[1] \in CodecFits
  <2> DEFINE d == [c EXCEPT !.payload = Fresh(heap)]
  <2>1. Fresh(heap) \in 1 .. MaxMsgs /\ HeapFits(heap')
    BY <1>2, <1>4, AllocFacts
  <2>2. Fresh(heap) \in 0 .. MaxMsgs
    BY <2>1, CodecAssumption
  <2>3. d \in CodecFits /\ d.payload = Fresh(heap)
    BY <2>2, PayloadUpdate DEF CodecFits, CodecType
  <2>4. copy' = <<d, says>>
    BY <1>4
  <2> HIDE DEF d
  <2>5. Copied' = Fresh(heap)
    BY <2>3, <2>4 DEF Copied
  <2>6. OwnedOnce(heap', codec["client"].payload, codec["server"].payload, Fresh(heap), held)
    BY <1>1, <1>2, <1>4, OwnedAlloc
  <2>7. OneOwner'
    BY <2>5, <2>6, OneOwnerByNameNext
  <2>8. QED
    BY <2>1, <2>3, <2>4, <2>7
<1>5. OneOwner' /\ HeapFits(heap') /\ copy' = <<copy'[1], copy'[2]>> /\ copy'[1] \in CodecFits
  BY <1>3, <1>4
<1>6. Typed'
  BY <1>5 DEF Typed
<1>7. QED
  BY <1>5, <1>6

\* tpq_codec_dup.
LEMMA DupStep ==
  ASSUME Typed, OneOwner, NEW e \in Ends, tpq_codec_dup(e), calls' \in 0 .. MaxCalls
  PROVE  Typed' /\ OneOwner'
<1> DEFINE c == codec[e]
           says == Claim(c, Holds(c, heap))
<1>1. c \in CodecFits /\ HeapFits(heap) /\ (c.payload = 0 \/ c.payload \in DOMAIN heap)
  BY OwnedAlive DEF Typed
<1>2. /\ copy = << >> /\ UNCHANGED <<codec, text, held, wire, got>>
      /\ \/ c.payload = 0 /\ copy' = <<CopyOf(c, 0), says>> /\ heap' = heap
         \/ /\ c.payload # 0 /\ FreshIds(heap) # {}
            /\ copy' = <<CopyOf(c, Fresh(heap)), says>>
            /\ heap' = Alloc(heap, heap[c.payload])
  BY DEF tpq_codec_dup
<1> HIDE DEF says, c
<1>3. CASE c.payload = 0 /\ copy' = <<CopyOf(c, 0), says>> /\ heap' = heap
  <2>1. CopyOf(c, 0) = c
    BY <1>1, <1>3 DEF CopyOf, CodecFits, CodecType
  <2>2. QED
    BY <1>1, <1>2, <1>3, <2>1, CopyStep
<1>4. CASE /\ c.payload # 0 /\ FreshIds(heap) # {}
           /\ copy' = <<CopyOf(c, Fresh(heap)), says>>
           /\ heap' = Alloc(heap, heap[c.payload])
  <2>1. heap[c.payload] \in Payloads
    BY <1>1, <1>4 DEF HeapFits
  <2>2. copy' = <<[c EXCEPT !.payload = Fresh(heap)], says>>
    BY <1>4 DEF CopyOf
  <2>3. QED
    BY <1>1, <1>2, <1>4, <2>1, <2>2, CopyStep
<1>5. QED
  BY <1>2, <1>3, <1>4

\* The copy is destroyed with its payload.
LEMMA DestroyStep ==
  ASSUME Typed, OneOwner, tpq_codec_destroy, calls' \in 0 .. MaxCalls
  PROVE  Typed' /\ OneOwner'
<1>1. /\ copy # << >> /\ copy' = << >> /\ heap' = Destroy(heap, copy[1].payload)
      /\ UNCHANGED <<codec, text, held, wire, got>> /\ HeapFits(heap)
  BY DEF tpq_codec_destroy, Typed
<1>2. Copied = copy[1].payload /\ Copied' = 0
  BY <1>1 DEF Copied
<1>3. OwnedOnce(heap, codec["client"].payload, codec["server"].payload, Copied, held)
  BY OneOwnerByName
<1>4. OwnedOnce(heap', codec["client"].payload, codec["server"].payload, 0, held)
  BY <1>1, <1>2, <1>3, OwnedDestroy
<1>5. OneOwner'
  BY <1>1, <1>2, <1>4, OneOwnerByNameNext
<1>6. HeapFits(heap')
  BY <1>1, DestroyFacts
<1>7. Typed'
  BY <1>1, <1>6 DEF Typed
<1>8. QED
  BY <1>5, <1>7


-----------------------------------------------------------------------------
(***************************************************************************)
(* The textual form.                                                       *)
(***************************************************************************)

\* The base of the textual form is not zero: two digits reach every byte.
LEMMA DigitType == Digit \in Nat \ {0}
<1>1. Byte \in Nat /\ Byte > 9 /\ Digit \in Nat /\ Byte <= Digit * Digit
  BY CodecAssumption
<1>2. Digit # 0
  <2>1. ASSUME Digit = 0
        PROVE  FALSE
    BY <1>1, <2>1
  <2>2. QED
    BY <2>1
<1>3. QED
  BY <1>1, <1>2

\* Bytes that were printed are read back as they were.
LEMMA TextOfBytes ==
  ASSUME NEW b \in Bytes
  PROVE  /\ STR_FROM_BYTES(b) \in Seq(Nat) /\ Len(STR_FROM_BYTES(b)) = 2 * Len(b)
         /\ IsBytes(STR_FROM_BYTES(b))
         /\ BYTES_FROM_STR(STR_FROM_BYTES(b)) = b
<1> DEFINE n == Len(b)
           s == STR_FROM_BYTES(b)
<1>1. n \in Nat /\ DOMAIN b = 1 .. n
  BY LenProperties DEF Bytes
<1>2. \A i \in 1 .. n : b[i] \in Nat
  <2>1. \A i \in 1 .. n : b[i] \in 0 .. Byte - 1
    BY ElementOfSeq DEF Bytes
  <2>2. QED
    BY <2>1, ByteType
<1>3. b = [i \in 1 .. n |-> b[i]]
  BY <1>1 DEF Bytes
<1> HIDE DEF n
<1>4. s = [i \in 1 .. 2 * n |-> IF i % 2 = 1 THEN b[(i + 1) \div 2] \div Digit
                                ELSE b[(i + 1) \div 2] % Digit]
  BY DEF STR_FROM_BYTES, n
<1>5. ASSUME NEW i \in 1 .. 2 * n
      PROVE  s[i] \in Nat
  <2>1. (i + 1) \div 2 \in 1 .. n
    BY <1>1
  <2>2. b[(i + 1) \div 2] \in Nat
    BY <1>2, <2>1
  <2>3. b[(i + 1) \div 2] \div Digit \in Nat /\ b[(i + 1) \div 2] % Digit \in Nat
    <3>1. \A k \in Nat : k \div Digit \in Nat /\ k % Digit \in 0 .. Digit - 1
      BY Division, DigitType
    <3>2. QED
      BY <2>2, <3>1, DigitType
  <2>4. s[i] = IF i % 2 = 1 THEN b[(i + 1) \div 2] \div Digit
               ELSE b[(i + 1) \div 2] % Digit
    BY <1>4
  <2>5. QED
    BY <2>3, <2>4
<1>6. s \in [1 .. 2 * n -> Nat]
  <2>1. s = [i \in 1 .. 2 * n |-> s[i]]
    BY <1>4
  <2>2. QED
    BY <1>5, <2>1
<1>7. s \in Seq(Nat) /\ Len(s) = 2 * n
  <2>1. 2 * n \in Nat
    BY <1>1
  <2>2. QED
    BY <1>6, <2>1, FunctionIsSeq
<1>8. (2 * n) % 2 = 0 /\ (2 * n) \div 2 = n
  BY <1>1
<1>9. ASSUME NEW i \in 1 .. n
      PROVE  s[2 * i - 1] * Digit + s[2 * i] = b[i]
  <2>1. /\ 2 * i - 1 \in 1 .. 2 * n /\ 2 * i \in 1 .. 2 * n
        /\ (2 * i - 1) % 2 = 1 /\ (2 * i) % 2 = 0
        /\ ((2 * i - 1) + 1) \div 2 = i /\ (2 * i + 1) \div 2 = i
    BY <1>1
  <2>2. s[2 * i - 1] = b[i] \div Digit
    <3> DEFINE j == 2 * i - 1
    <3>1. j \in 1 .. 2 * n /\ j % 2 = 1 /\ (j + 1) \div 2 = i
      BY <2>1
    <3> HIDE DEF j
    <3>2. s[j] = b[i] \div Digit
      BY <1>4, <3>1
    <3>3. QED
      BY <3>2 DEF j
  <2>3. s[2 * i] = b[i] % Digit
    <3> DEFINE j == 2 * i
    <3>1. j \in 1 .. 2 * n /\ j % 2 # 1 /\ (j + 1) \div 2 = i
      BY <2>1
    <3> HIDE DEF j
    <3>2. s[j] = b[i] % Digit
      BY <1>4, <3>1
    <3>3. QED
      BY <3>2 DEF j
  <2>4. b[i] = (b[i] \div Digit) * Digit + (b[i] % Digit)
    BY <1>2, DigitType, Division
  <2>5. QED
    BY <2>2, <2>3, <2>4
<1> HIDE DEF s
<1>10. IsBytes(s)
  BY <1>7, <1>8 DEF IsBytes
<1>11. BYTES_FROM_STR(s) = [i \in 1 .. n |-> s[2 * i - 1] * Digit + s[2 * i]]
  BY <1>7, <1>8 DEF BYTES_FROM_STR
<1>12. BYTES_FROM_STR(s) = b
  BY <1>3, <1>9, <1>11
<1>13. QED
  BY <1>7, <1>10, <1>12 DEF s, n

\* An object is exported as a tree that can be read back.
LEMMA ZplStep ==
  ASSUME Typed, OneOwner, NEW e \in Ends, tpq_codec_zpl(e), calls' \in 0 .. MaxCalls
  PROVE  Typed' /\ OneOwner'
<1> DEFINE c == codec[e]
           content == [f \in ZplFields(c.id) |-> IF f \in Strings THEN c[f] ELSE LongOf(c[f])]
           routing == [i \in DOMAIN c.routing_id |-> STR_FROM_BYTES(c.routing_id[i])]
           payload == IF c.id # RESULT THEN << >>
                      ELSE [i \in DOMAIN heap[c.payload] |->
                              STR_FROM_BYTES(heap[c.payload][i])]
           t == [message |-> c.id, routing_id |-> routing, content |-> content,
                 payload |-> payload, bad |-> {}]
<1>1. c \in CodecFits /\ HeapFits(heap) /\ (c.payload = 0 \/ c.payload \in DOMAIN heap)
  BY OwnedAlive DEF Typed
<1>2. /\ c.id = RESULT => c.payload # 0
      /\ text' = <<t, Claim(c, Says(c, heap))>>
      /\ UNCHANGED <<codec, copy, held, heap, wire, got>>
  BY DEF tpq_codec_zpl
<1> HIDE DEF c
<1>3. ZplFields(c.id) \in SUBSET (Strings \cup Numbers)
  BY DEF ZplFields, Strings, Numbers
<1>4. \A f \in ZplFields(c.id) :
        content[f] = IF f \in Strings THEN c[f] ELSE LongOf(c[f])
  OBVIOUS
<1>5. \A f \in ZplFields(c.id) \cap Strings : content[f] \in Bytes
  BY <1>1, <1>4, FieldsType
<1>6. \A f \in ZplFields(c.id) \cap Numbers : content[f] \in Int
  <2>1. \A f \in Numbers : Capacity(f) \in Nat \ {0} /\ c[f] \in 0 .. Capacity(f) - 1
    BY <1>1, FieldsType, CapacityOf
  <2>2. \A f \in Numbers : c[f] \in Int
    BY <2>1
  <2>3. \A k \in Int : LongOf(k) \in Int
    <3>1. Weight(8) \in Nat
      BY WeightType
    <3>2. QED
      BY <3>1 DEF LongOf
  <2>4. \A f \in Numbers : f \notin Strings
    BY DEF Numbers, Strings
  <2>5. QED
    BY <1>4, <2>2, <2>3, <2>4
<1>7. content \in FieldRecords /\ DOMAIN content = ZplFields(c.id)
  <2>1. \A f \in ZplFields(c.id) : content[f] \in FieldValues
    BY <1>3, <1>5, <1>6 DEF FieldValues
  <2>2. content \in [ZplFields(c.id) -> FieldValues]
    BY <2>1
  <2>3. QED
    BY <1>3, <2>2 DEF FieldRecords
<1>8. ASSUME NEW frames \in Seq(Bytes)
      PROVE  /\ [i \in DOMAIN frames |-> STR_FROM_BYTES(frames[i])] \in Seq(Seq(Nat))
             /\ Len([i \in DOMAIN frames |-> STR_FROM_BYTES(frames[i])]) = Len(frames)
             /\ \A i \in DOMAIN [i \in DOMAIN frames |-> STR_FROM_BYTES(frames[i])] :
                  BYTES_FROM_STR([j \in DOMAIN frames |-> STR_FROM_BYTES(frames[j])][i])
                    \in Bytes
  <2> DEFINE s == [i \in DOMAIN frames |-> STR_FROM_BYTES(frames[i])]
             T == Seq(Nat)
  <2>1. Len(frames) \in Nat /\ DOMAIN frames = 1 .. Len(frames)
    BY LenProperties
  <2>2. \A i \in 1 .. Len(frames) : frames[i] \in Bytes
    BY ElementOfSeq
  <2>3. \A i \in 1 .. Len(frames) :
          STR_FROM_BYTES(frames[i]) \in T /\ BYTES_FROM_STR(STR_FROM_BYTES(frames[i])) \in Bytes
    BY <2>2, TextOfBytes
  <2> HIDE DEF T
  <2>4. s \in [1 .. Len(frames) -> T]
    BY <2>1, <2>3
  <2>5. s \in Seq(T) /\ Len(s) = Len(frames)
    BY <2>1, <2>4, FunctionIsSeq
  <2>6. QED
    BY <2>1, <2>3, <2>5 DEF T
<1>9. routing \in Seq(Seq(Nat)) /\ Len(routing) <= 1
      /\ \A i \in DOMAIN routing : BYTES_FROM_STR(routing[i]) \in Bytes
  <2>1. c.routing_id \in Seq(Bytes) /\ Len(c.routing_id) <= 1
    BY <1>1, FieldsType
  <2>2. QED
    BY <1>8, <2>1
<1>10. payload \in Seq(Seq(Nat))
       /\ \A i \in DOMAIN payload : BYTES_FROM_STR(payload[i]) \in Bytes
  <2>1. CASE c.id # RESULT
    <3>1. payload = << >>
      BY <2>1
    <3>2. QED
      BY <3>1
  <2>2. CASE c.id = RESULT
    <3>1. heap[c.payload] \in Seq(Bytes)
      BY <1>1, <1>2, <2>2 DEF HeapFits, Payloads
    <3>2. payload = [i \in DOMAIN heap[c.payload] |-> STR_FROM_BYTES(heap[c.payload][i])]
      BY <2>2
    <3>3. QED
      BY <1>8, <3>1, <3>2
  <2>3. QED
    BY <2>1, <2>2
<1>11. c.id \in 0 .. Byte - 1
  BY <1>1, FieldsType
<1> HIDE DEF content, routing, payload
<1>12. t \in TreeType
  BY <1>7, <1>9, <1>10, <1>11 DEF TreeType
<1>13. TreeFits(t)
  BY <1>5, <1>6, <1>7, <1>9, <1>10, <1>12 DEF TreeFits
<1> HIDE DEF t
<1>14. text' = <<text'[1], text'[2]>> /\ TreeFits(text'[1])
  BY <1>2, <1>13
<1>15. Typed'
  BY <1>2, <1>14 DEF Typed
<1>16. OneOwner'
  BY <1>2, SameOwners
<1>17. QED
  BY <1>15, <1>16

\* Someone edits the tree.
LEMMA EditStep ==
  ASSUME Typed, OneOwner, EditText, calls' \in 0 .. MaxCalls
  PROVE  Typed' /\ OneOwner'
<1> DEFINE t == text[1]
<1>1. text = <<t, text[2]>> /\ TreeFits(t) /\ t \in TreeType
  BY DEF EditText, Typed, TreeFits
<1>2. UNCHANGED <<codec, copy, held, heap, wire, got>>
  BY DEF EditText
<1>3. ASSUME NEW u, TreeFits(u), text' = [text EXCEPT ![1] = u]
      PROVE  text' = <<text'[1], text'[2]>> /\ TreeFits(text'[1])
  BY <1>1, <1>3
<1>4. \/ \E f \in DOMAIN t.content : text' = [text EXCEPT ![1] = [t EXCEPT !.bad = @ \cup {f}]]
      \/ /\ t.routing_id # << >> /\ t.routing_id[1] # << >> /\ IsBytes(t.routing_id[1])
         /\ text' = [text EXCEPT ![1] = [t EXCEPT !.routing_id[1] = Tail(@)]]
  BY DEF EditText
<1>5. ASSUME NEW f \in DOMAIN t.content,
             text' = [text EXCEPT ![1] = [t EXCEPT !.bad = @ \cup {f}]]
      PROVE  text' = <<text'[1], text'[2]>> /\ TreeFits(text'[1])
  <2> DEFINE u == [t EXCEPT !.bad = @ \cup {f}]
  <2>1. f \in Strings \cup Numbers
    BY <1>1 DEF TreeFits, ZplFields, Strings, Numbers
  <2>2. u \in TreeType
    BY <1>1, <2>1 DEF TreeType
  <2>3. u.message = t.message /\ u.routing_id = t.routing_id /\ u.content = t.content
        /\ u.payload = t.payload
    BY <1>1 DEF TreeType
  <2> HIDE DEF u
  <2>4. TreeFits(u)
    BY <1>1, <2>2, <2>3 DEF TreeFits
  <2>5. QED
    BY <1>3, <1>5, <2>4 DEF u
<1>6. ASSUME t.routing_id # << >>, t.routing_id[1] # << >>, IsBytes(t.routing_id[1]),
             text' = [text EXCEPT ![1] = [t EXCEPT !.routing_id[1] = Tail(@)]]
      PROVE  text' = <<text'[1], text'[2]>> /\ TreeFits(text'[1])
  <2> DEFINE s == Tail(t.routing_id[1])
             r == [t.routing_id EXCEPT ![1] = s]
             u == [t EXCEPT !.routing_id = r]
             T == Seq(Nat)
  <2>1. t.routing_id \in Seq(T)
    BY <1>1 DEF TreeType
  <2> HIDE DEF T
  <2>2. 1 \in 1 .. Len(t.routing_id) /\ DOMAIN t.routing_id = 1 .. Len(t.routing_id)
    BY <1>6, <2>1, EmptySeq, LenProperties
  <2>3. t.routing_id[1] \in T
    BY <2>1, <2>2, ElementOfSeq
  <2>4. s \in T /\ Len(s) = Len(t.routing_id[1]) - 1 /\ Len(t.routing_id[1]) \in Nat
    BY <1>6, <2>3, HeadTailProperties DEF T
  <2>5. ~ IsBytes(s)
    <3>1. Len(t.routing_id[1]) % 2 = 0
      BY <1>6 DEF IsBytes
    <3>2. \A n \in Nat : n % 2 = 0 => (n - 1) % 2 # 0
      OBVIOUS
    <3>3. Len(s) % 2 # 0
      BY <2>4, <3>1, <3>2
    <3>4. QED
      BY <3>3 DEF IsBytes
  <2> HIDE DEF s
  <2>6. r \in Seq(T) /\ Len(r) = Len(t.routing_id) /\ r[1] = s /\ 1 \in DOMAIN r
    BY <2>1, <2>2, <2>4
  <2> HIDE DEF r
  <2>7. u \in TreeType
    BY <1>1, <2>6 DEF TreeType, T
  <2>8. u.message = t.message /\ u.routing_id = r /\ u.content = t.content
        /\ u.payload = t.payload
    BY <1>1 DEF TreeType
  <2>9. [t EXCEPT !.routing_id[1] = Tail(@)] = u
    BY DEF u, r, s
  <2> HIDE DEF u
  <2>10. TreeFits(u)
    BY <1>1, <2>5, <2>6, <2>7, <2>8 DEF TreeFits
  <2>11. QED
    BY <1>3, <1>6, <2>9, <2>10
<1>7. text' = <<text'[1], text'[2]>> /\ TreeFits(text'[1])
  BY <1>4, <1>5, <1>6
<1>8. Typed'
  BY <1>2, <1>7 DEF Typed
<1>9. OneOwner'
  BY <1>2, SameOwners
<1>10. QED
  BY <1>8, <1>9

\* What a tree describes is an object without a payload.
LEMMA FromTextType ==
  ASSUME NEW t, TreeFits(t), \A i \in DOMAIN t.routing_id : IsBytes(t.routing_id[i])
  PROVE  FromText(t) \in CodecFits /\ FromText(t).payload = 0
<1> DEFINE c == FromText(t)
           routing == [i \in DOMAIN t.routing_id |-> BYTES_FROM_STR(t.routing_id[i])]
           new == tpq_codec_new
           fields == NewZplFields(t.message)
<1>1. t \in TreeType /\ fields = DOMAIN t.content
  BY DEF TreeFits, ZplFields, NewZplFields
<1>2. new \in CodecFits /\ DOMAIN new = FieldNames
  BY NewFits, FieldsType
<1>3. new.payload = 0
  BY DEF tpq_codec_new
<1> HIDE DEF new, fields
<1>4. c = [f \in FieldNames |->
             CASE f = "id"         -> t.message
               [] f = "routing_id" -> routing
               [] f \in fields \cap Strings -> SetString(t.content[f])
               [] f \in fields \cap Numbers -> NumberOf(f, t.content[f])
               [] OTHER -> new[f]]
  BY <1>2 DEF FromText, new, fields
<1>5. DOMAIN c = FieldNames /\ c = [f \in DOMAIN c |-> c[f]]
  BY <1>4
<1>6. routing \in Seq(Bytes) /\ Len(routing) <= 1
  <2>1. \A i \in DOMAIN t.routing_id : BYTES_FROM_STR(t.routing_id[i]) \in Bytes
    BY DEF TreeFits
  <2>2. Len(t.routing_id) \in Nat /\ DOMAIN t.routing_id = 1 .. Len(t.routing_id)
        /\ Len(t.routing_id) <= 1
    BY <1>1, LenProperties DEF TreeType, TreeFits
  <2>3. routing \in [1 .. Len(t.routing_id) -> Bytes]
    BY <2>1, <2>2
  <2>4. QED
    BY <2>2, <2>3, FunctionIsSeq
<1> HIDE DEF c, routing
<1>7. /\ "id" \in FieldNames /\ "routing_id" \in FieldNames /\ "payload" \in FieldNames
      /\ "payload" \notin Strings \cup Numbers
      /\ "id" \notin Strings \cup Numbers /\ "routing_id" \notin Strings \cup Numbers
      /\ \A f \in Numbers : f \notin Strings /\ f \in FieldNames
      /\ \A f \in Strings : f \in FieldNames
  BY DEF FieldNames, Strings, Numbers
<1>8. c.id = t.message /\ c.routing_id = routing
  BY <1>4, <1>7
<1>9. c.payload = 0
  BY <1>3, <1>4, <1>7
<1>10. ASSUME NEW f \in Numbers
       PROVE  c[f] \in 0 .. Capacity(f) - 1
  <2>1. f \in FieldNames /\ f \notin Strings /\ f # "id" /\ f # "routing_id"
    BY <1>7
  <2>2. CASE f \in fields
    <3>1. c[f] = NumberOf(f, t.content[f])
      BY <1>4, <2>1, <2>2
    <3>2. t.content[f] \in Int
      BY <1>1, <2>2 DEF TreeFits
    <3>3. \A b \in Nat \ {0} : \A k \in Int : k % b \in 0 .. b - 1
      OBVIOUS
    <3>4. Weight(8) \in Nat \ {0} /\ Capacity(f) \in Nat \ {0}
      BY WeightType, CapacityOf
    <3>5. t.content[f] % Weight(8) \in Int
      <4>1. t.content[f] % Weight(8) \in 0 .. Weight(8) - 1
        BY <3>2, <3>3, <3>4
      <4>2. QED
        BY <4>1, <3>4
    <3>6. (t.content[f] % Weight(8)) % Capacity(f) \in 0 .. Capacity(f) - 1
      BY <3>3, <3>4, <3>5
    <3>7. QED
      BY <3>1, <3>6 DEF NumberOf
  <2>3. CASE f \notin fields
    <3>1. c[f] = new[f]
      BY <1>4, <2>1, <2>3
    <3>2. QED
      BY <1>2, <3>1, FieldsType
  <2>4. QED
    BY <2>2, <2>3
<1>11. ASSUME NEW f \in Strings
       PROVE  c[f] \in Bytes /\ Len(c[f]) < Byte
  <2>1. f \in FieldNames /\ f \notin Numbers /\ f # "id" /\ f # "routing_id"
    BY <1>7
  <2>2. CASE f \in fields
    <3>1. c[f] = SetString(t.content[f])
      BY <1>4, <2>1, <2>2
    <3>2. t.content[f] \in Bytes
      BY <1>1, <2>2 DEF TreeFits
    <3>3. QED
      BY <3>1, <3>2, SetStringType
  <2>3. CASE f \notin fields
    <3>1. c[f] = new[f]
      BY <1>4, <2>1, <2>3
    <3>2. QED
      BY <1>2, <3>1, FieldsType
  <2>4. QED
    BY <2>2, <2>3
<1>12. c.id \in 0 .. Byte - 1
  BY <1>1, <1>8 DEF TreeType
<1>13. c.payload \in 0 .. MaxMsgs
  BY <1>9, CodecAssumption
<1>14. c.routing_id \in Seq(Bytes) /\ Len(c.routing_id) <= 1
  BY <1>6, <1>8
<1>15. c \in CodecFits
  BY <1>5, <1>10, <1>11, <1>12, <1>13, <1>14, FitsFromFields
<1>16. QED
  BY <1>9, <1>15 DEF c

\* An object is read back from the tree, or none.
LEMMA NewZplStep ==
  ASSUME Typed, OneOwner, tpq_codec_new_zpl, calls' \in 0 .. MaxCalls
  PROVE  Typed' /\ OneOwner'
<1> DEFINE t == text[1]
           refused == \/ t.message \notin Ids \/ NewZplFields(t.message) \cap t.bad # {}
                      \/ \E i \in DOMAIN t.routing_id : ~ IsBytes(t.routing_id[i])
           frames == [i \in DOMAIN t.payload |-> BYTES_FROM_STR(t.payload[i])]
<1>1. text # << >> /\ copy = << >> /\ UNCHANGED <<codec, text, held, wire, got>>
  BY DEF tpq_codec_new_zpl
<1>2. TreeFits(t) /\ t \in TreeType
  BY <1>1 DEF Typed, TreeFits
<1>3. \/ refused /\ UNCHANGED <<copy, heap>>
      \/ ~ refused /\ copy' = <<FromText(t), text[2]>> /\ heap' = heap
      \/ /\ ~ refused /\ FreshIds(heap) # {} /\ heap' = Alloc(heap, frames)
         /\ copy' = <<[FromText(t) EXCEPT !.payload = Fresh(heap)], text[2]>>
  BY DEF tpq_codec_new_zpl
<1>4. ASSUME UNCHANGED <<copy, heap>>
      PROVE  Typed' /\ OneOwner'
  <2>1. Typed'
    BY <1>1, <1>4 DEF Typed
  <2>2. QED
    BY <1>1, <1>4, <2>1, SameOwners
<1>5. ASSUME ~ refused
      PROVE  FromText(t) \in CodecFits /\ FromText(t).payload = 0
  BY <1>2, <1>5, FromTextType
<1>6. frames \in Payloads
  <2> DEFINE p == t.payload
  <2>1. Len(p) \in Nat /\ DOMAIN p = 1 .. Len(p)
    BY <1>2, LenProperties DEF TreeType
  <2>2. \A i \in 1 .. Len(p) : BYTES_FROM_STR(p[i]) \in Bytes
    BY <1>2, <2>1 DEF TreeFits
  <2>3. frames \in [1 .. Len(p) -> Bytes]
    BY <2>1, <2>2
  <2>4. QED
    BY <2>1, <2>3, FunctionIsSeq DEF Payloads
<1> HIDE DEF frames, refused
<1>7. CASE ~ refused /\ copy' = <<FromText(t), text[2]>> /\ heap' = heap
  BY <1>1, <1>5, <1>7, CopyStep
<1>8. CASE /\ ~ refused /\ FreshIds(heap) # {} /\ heap' = Alloc(heap, frames)
           /\ copy' = <<[FromText(t) EXCEPT !.payload = Fresh(heap)], text[2]>>
  BY <1>1, <1>5, <1>6, <1>8, CopyStep
<1>9. QED
  BY <1>3, <1>4, <1>7, <1>8


-----------------------------------------------------------------------------
(***************************************************************************)
(* The theorems.                                                           *)
(***************************************************************************)

\* Two new objects and nothing on the wire.
LEMMA CodecInit == Init => CodecInv
<1> SUFFICES ASSUME Init PROVE CodecInv
  OBVIOUS
<1>1. \A e \in Ends : codec[e] = tpq_codec_new
  BY DEF Init
<1>2. codec \in [Ends -> CodecFits]
  BY NewFits DEF Init
<1>3. HeapFits(heap)
  BY DEF Init, HeapFits
<1>4. wire \in [Ends -> Seq(FrameType)] /\ \A e \in Ends : EndsWhole(wire[e])
  BY DEF Init, EndsWhole
<1>5. got \in [Ends -> AnswerType]
  BY DEF Init, AnswerType
<1>6. held \in 0 .. MaxMsgs /\ calls \in 0 .. MaxCalls
  BY CodecAssumption DEF Init
<1>7. Typed
  BY <1>2, <1>3, <1>4, <1>5, <1>6 DEF Typed, Init
<1>8. codec["client"].payload = 0 /\ codec["server"].payload = 0 /\ Copied = 0 /\ held = 0
  BY <1>1 DEF Init, Ends, tpq_codec_new, Copied
<1>9. OwnedOnce(heap, 0, 0, 0, 0)
  BY DEF Init, OwnedOnce
<1>10. OneOwner
  BY <1>8, <1>9, OneOwnerByName
<1>11. QED
  BY <1>7, <1>10 DEF CodecInv

\* Every call keeps the types and the owners.
LEMMA CodecStep == CodecInv /\ [Next]_vars => CodecInv'
<1> SUFFICES ASSUME CodecInv, [Next]_vars PROVE CodecInv'
  OBVIOUS
<1>1. Typed /\ OneOwner
  BY DEF CodecInv
<1>2. CASE UNCHANGED vars
  <2>1. Typed'
    BY <1>1, <1>2 DEF vars, Typed
  <2>2. OneOwner'
    BY <1>1, <1>2, SameOwners DEF vars
  <2>3. QED
    BY <2>1, <2>2 DEF CodecInv
<1>3. CASE Next
  <2>1. calls' \in 0 .. MaxCalls /\ Call
    <3>1. calls \in 0 .. MaxCalls /\ calls < MaxCalls /\ calls' = calls + 1 /\ Call
      BY <1>1, <1>3 DEF Next, Typed
    <3>2. MaxCalls \in Nat
      BY CodecAssumption
    <3>3. QED
      BY <3>1, <3>2
  <2>2. ASSUME NEW e \in Ends, Compose(e) PROVE Typed' /\ OneOwner'
    BY <1>1, <2>1, <2>2, ComposeStep
  <2>3. ASSUME NEW e \in Ends, tpq_codec_send(e) \/ SendShort(e) PROVE Typed' /\ OneOwner'
    BY <1>1, <2>1, <2>3, SendStep
  <2>4. ASSUME NEW e \in Ends, tpq_codec_recv(e) PROVE Typed' /\ OneOwner'
    BY <1>1, <2>1, <2>4, ReceiveStep
  <2>5. ASSUME NEW e \in Ends, Interrupt(e) PROVE Typed' /\ OneOwner'
    BY <1>1, <2>1, <2>5, InterruptStep
  <2>6. ASSUME NEW e \in Ends, tpq_codec_get_payload(e) PROVE Typed' /\ OneOwner'
    BY <1>1, <2>1, <2>6, GetPayloadStep
  <2>7. ASSUME NEW e \in Ends, tpq_codec_set_payload(e) PROVE Typed' /\ OneOwner'
    BY <1>1, <2>1, <2>7, SetPayloadStep
  <2>8. ASSUME NEW e \in Ends, tpq_codec_dup(e) PROVE Typed' /\ OneOwner'
    BY <1>1, <2>1, <2>8, DupStep
  <2>9. ASSUME NEW e \in Ends, tpq_codec_zpl(e) PROVE Typed' /\ OneOwner'
    BY <1>1, <2>1, <2>9, ZplStep
  <2>10. ASSUME tpq_codec_set_routing_id("server") PROVE Typed' /\ OneOwner'
    <3>1. "server" \in Ends
      BY DEF Ends
    <3>2. QED
      BY <1>1, <2>1, <2>10, <3>1, SetRoutingStep
  <2>11. ASSUME DestroyPayload PROVE Typed' /\ OneOwner'
    BY <1>1, <2>1, <2>11, DestroyPayloadStep
  <2>12. ASSUME tpq_codec_destroy PROVE Typed' /\ OneOwner'
    BY <1>1, <2>1, <2>12, DestroyStep
  <2>13. ASSUME EditText PROVE Typed' /\ OneOwner'
    BY <1>1, <2>1, <2>13, EditStep
  <2>14. ASSUME tpq_codec_new_zpl PROVE Typed' /\ OneOwner'
    BY <1>1, <2>1, <2>14, NewZplStep
  <2>15. Typed' /\ OneOwner'
    BY <2>1, <2>2, <2>3, <2>4, <2>5, <2>6, <2>7, <2>8, <2>9, <2>10, <2>11, <2>12, <2>13,
       <2>14 DEF Call
  <2>16. QED
    BY <2>15 DEF CodecInv
<1>4. QED
  BY <1>2, <1>3

\* The types and the owners hold in every state, whatever the two programs say
\* and however many calls they make (tpq_codec.c).
THEOREM CodecInvariant == Spec => []CodecInv
BY CodecInit, CodecStep, PTL DEF Spec

\* Every field keeps the width of its C type, every string fits its array, and
\* a handle is an object of the heap or none (struct _tpq_codec_t).
THEOREM CodecTypes == Spec => []TypeOK
<1>1. CodecInv => TypeOK
  <2> SUFFICES ASSUME CodecInv PROVE TypeOK
    OBVIOUS
  <2>1. Typed
    BY DEF CodecInv
  <2>2. codec \in [Ends -> CodecFits] /\ \A e \in Ends : codec[e] \in CodecFits
    BY <2>1 DEF Typed
  <2>3. codec \in [Ends -> CodecType]
    BY <2>2 DEF CodecFits
  <2>4. \A e \in Ends : /\ Len(codec[e].nickname) < Byte /\ Len(codec[e].reason) < Byte
                        /\ Len(codec[e].routing_id) <= 1
    BY <2>2 DEF CodecFits
  <2>5. copy # << >> => copy[1] \in CodecType
    BY <2>1 DEF Typed, CodecFits
  <2>6. held \in 0 .. MaxMsgs /\ DOMAIN heap \subseteq 1 .. MaxMsgs /\ calls \in 0 .. MaxCalls
    BY <2>1 DEF Typed, HeapFits
  <2>7. QED
    BY <2>3, <2>4, <2>5, <2>6 DEF TypeOK
<1>2. QED
  BY <1>1, CodecInvariant, PTL

\* Every zmsg_t has one owner: a receive, a setter, a copy and a destructor
\* neither leak one nor share one, and none is used after it was freed.
THEOREM PayloadsHaveOneOwner == Spec => []OneOwner
<1>1. CodecInv => OneOwner
  BY DEF CodecInv
<1>2. QED
  BY <1>1, CodecInvariant, PTL

\* tpq_codec_send fills the frame it allocated, to the last byte and no
\* further, whatever the object has become.
THEOREM FramesAreFilled == Spec => []BufferIsFilled
<1>1. CodecInv => BufferIsFilled
  <2> SUFFICES ASSUME CodecInv, NEW e \in Ends
               PROVE  Len(DataFrame(codec[e])) = FrameSize(codec[e])
    BY DEF BufferIsFilled
  <2>1. codec[e] \in CodecFits
    BY DEF CodecInv, Typed
  <2>2. QED
    BY <2>1, DataFrameType
<1>2. QED
  BY <1>1, CodecInvariant, PTL

\* An object after a receive is the parsed one, but for the payload.
LEMMA ReceivedObject ==
  ASSUME NEW e, NEW c, NEW i, ReceiveData(e, c, i)
  PROVE  LET p == Parse(c, wire[e][i].data)
         IN  \E o : \/ codec' = [codec EXCEPT ![e] = [p.codec EXCEPT !.payload = o]]
                    \/ codec' = [codec EXCEPT ![e] = p.codec]
<1> DEFINE frames == wire[e]
           p == Parse(c, frames[i].data)
           whole == p.codec.id = RESULT /\ ~ p.short
           o == Fresh(Destroy(heap, c.payload))
           after == IF whole THEN [p.codec EXCEPT !.payload = o] ELSE p.codec
<1>1. codec' = [codec EXCEPT ![e] = after]
  BY DEF ReceiveData
<1> HIDE DEF whole, p, o
<1>2. after = [p.codec EXCEPT !.payload = o] \/ after = p.codec
  OBVIOUS
<1> HIDE DEF after
<1>3. \E x : \/ codec' = [codec EXCEPT ![e] = [p.codec EXCEPT !.payload = x]]
             \/ codec' = [codec EXCEPT ![e] = p.codec]
  BY <1>1, <1>2
<1>4. QED
  BY <1>3 DEF p

\* What a receive may change: the fields of the message it announces.
LEMMA ReceiveKeeps ==
  ASSUME Typed, NEW e \in Ends, tpq_codec_recv(e), NEW f \in Strings \cup Numbers
  PROVE  f \in ToSet(PutFields(codec'[e].id)) \/ codec'[e][f] = codec[e][f]
<1>1. /\ wire \in [Ends -> Seq(FrameType)] /\ wire[e] # << >> /\ EndsWhole(wire[e])
      /\ codec \in [Ends -> CodecFits] /\ codec[e] \in CodecFits
  BY DEF Typed, tpq_codec_recv
<1>2. Len(wire[e]) \in Nat \ {0}
  BY <1>1, EmptySeq
<1>3. \A i \in 1 .. Len(wire[e]) : wire[e][i].data \in Bytes
  <2>1. \A i \in 1 .. Len(wire[e]) : wire[e][i] \in FrameType
    BY <1>1, ElementOfSeq
  <2>2. QED
    BY <2>1 DEF FrameType
<1>4. f \in FieldNames /\ f \notin {"payload", "routing_id", "id"}
  BY DEF FieldNames, Strings, Numbers
<1>5. ASSUME NEW c \in CodecFits, c[f] = codec[e][f], NEW i \in 1 .. Len(wire[e]),
             ReceiveData(e, c, i)
      PROVE  f \in ToSet(PutFields(codec'[e].id)) \/ codec'[e][f] = codec[e][f]
  <2> DEFINE p == Parse(c, wire[e][i].data).codec
  <2>1. p \in CodecFits /\ (f \in ToSet(PutFields(p.id)) \/ p[f] = c[f])
    BY <1>3, ParseType
  <2>2. \E o : \/ codec' = [codec EXCEPT ![e] = [p EXCEPT !.payload = o]]
               \/ codec' = [codec EXCEPT ![e] = p]
    BY <1>5, ReceivedObject
  <2> HIDE DEF p
  <2>3. PICK o : codec'[e] = [p EXCEPT !.payload = o] \/ codec'[e] = p
    BY <1>1, <2>2
  <2>4. DOMAIN p = FieldNames
    BY <2>1, FieldsType
  <2>5. codec'[e].id = p.id /\ codec'[e][f] = p[f]
    BY <1>4, <2>3, <2>4 DEF FieldNames
  <2>6. QED
    BY <1>5, <2>1, <2>5
<1>6. DOMAIN codec[e] = FieldNames
  BY <1>1, FieldsType
<1>7. CASE e = "client"
  <2>1. ReceiveData(e, codec[e], 1) /\ 1 \in 1 .. Len(wire[e])
    BY <1>2, <1>7 DEF tpq_codec_recv
  <2>2. QED
    BY <1>1, <1>5, <2>1
<1>8. CASE e # "client"
  <2> DEFINE named == [codec[e] EXCEPT !.routing_id = <<wire[e][1].data>>]
  <2>1. 1 \in 1 .. Len(wire[e])
    BY <1>2
  <2>2. named \in CodecFits
    BY <1>1, <1>3, <2>1, RoutingIdSet
  <2>3. named[f] = codec[e][f]
    BY <1>4, <1>6
  <2>4. CASE wire[e][1].more
    <3>1. ReceiveData(e, named, 2)
      BY <1>8, <2>4 DEF tpq_codec_recv
    <3>2. 2 \in 1 .. Len(wire[e])
      BY <1>1, <1>2, <2>4 DEF EndsWhole
    <3>3. QED
      BY <1>5, <2>2, <2>3, <3>1, <3>2
  <2>5. CASE ~ wire[e][1].more
    <3>1. codec' = [codec EXCEPT ![e] = named]
      BY <1>8, <2>5 DEF tpq_codec_recv
    <3>2. codec'[e] = named
      BY <1>1, <3>1
    <3>3. QED
      BY <2>3, <3>2
  <2>6. QED
    BY <2>4, <2>5
<1>9. QED
  BY <1>7, <1>8

\* What an earlier message left in an object survives every receive of another
\* kind of message, the interval of a query among it, which the server reads
\* again when it answers the queries it holds (tpq_server.cpp).
THEOREM FieldsSurvive == Spec => OtherFieldsSurvive
<1> DEFINE Keeps == \A e \in Ends : tpq_codec_recv(e) =>
                      \A f \in Strings \cup Numbers :
                        \/ f \in ToSet(PutFields(codec'[e].id))
                        \/ codec'[e][f] = codec[e][f]
<1>1. CodecInv /\ [Next]_vars => [Keeps]_vars
  <2>1. CodecInv => Typed
    BY DEF CodecInv
  <2>2. QED
    BY <2>1, ReceiveKeeps
<1>2. QED
  BY <1>1, CodecInvariant, PTL DEF Spec, OtherFieldsSurvive

-----------------------------------------------------------------------------
(***************************************************************************)
(* What PUT wrote, GET reads: fields.                                      *)
(***************************************************************************)

\* Two sequences of bytes that were joined come apart again.
LEMMA SplitBytes ==
  ASSUME NEW s \in Bytes, NEW t \in Bytes
  PROVE  /\ SubSeq(s \o t, 1, Len(s)) = s
         /\ SubSeq(s \o t, Len(s) + 1, Len(s \o t)) = t
<1> DEFINE u == s \o t
           m == Len(s)
           n == Len(t)
           a == SubSeq(u, 1, m)
           b == SubSeq(u, m + 1, m + n)
<1>1. m \in Nat /\ n \in Nat
  BY DEF Bytes
<1>2. /\ u \in Bytes /\ Len(u) = m + n
      /\ \A i \in 1 .. m + n : u[i] = IF i <= m THEN s[i] ELSE t[i - m]
  BY ConcatProperties DEF Bytes
<1> HIDE DEF u, m, n
<1>3. \A i \in 1 .. m + n : u[i] \in 0 .. Byte - 1
  BY <1>2, ElementOfSeq DEF Bytes
<1>4. /\ a \in Seq(0 .. Byte - 1) /\ Len(a) = IF 1 <= m THEN m - 1 + 1 ELSE 0
      /\ \A i \in 1 .. m - 1 + 1 : a[i] = u[1 + i - 1]
  <2>1. \A i \in 1 .. m : u[i] \in 0 .. Byte - 1
    BY <1>1, <1>3
  <2>2. 1 \in Int /\ m \in Int
    BY <1>1
  <2>3. QED
    BY <2>1, <2>2, SubSeqProperties
<1>5. /\ b \in Seq(0 .. Byte - 1)
      /\ Len(b) = IF m + 1 <= m + n THEN (m + n) - (m + 1) + 1 ELSE 0
      /\ \A i \in 1 .. (m + n) - (m + 1) + 1 : b[i] = u[(m + 1) + i - 1]
  <2>1. \A i \in m + 1 .. m + n : u[i] \in 0 .. Byte - 1
    BY <1>1, <1>3
  <2>2. m + 1 \in Int /\ m + n \in Int
    BY <1>1
  <2>3. QED
    BY <2>1, <2>2, SubSeqProperties
<1> HIDE DEF a, b
<1>6. a = s
  <2>1. Len(a) = m
    BY <1>1, <1>4
  <2>2. \A i \in 1 .. m : a[i] = s[i]
    <3>1. ASSUME NEW i \in 1 .. m PROVE a[i] = s[i]
      <4>1. a[i] = u[1 + i - 1] /\ 1 + i - 1 = i
        BY <1>1, <1>4
      <4>2. i \in 1 .. m + n /\ i <= m
        BY <1>1
      <4>3. QED
        BY <1>2, <4>1, <4>2
    <3>2. QED
      BY <3>1
  <2>3. s \in Seq(0 .. Byte - 1) /\ Len(s) = m
    BY DEF Bytes, m
  <2>4. QED
    BY <1>4, <2>1, <2>2, <2>3, SeqEqual
<1>7. b = t
  <2>1. Len(b) = n
    BY <1>1, <1>5
  <2>2. \A i \in 1 .. n : b[i] = t[i]
    <3>1. ASSUME NEW i \in 1 .. n PROVE b[i] = t[i]
      <4>1. i \in 1 .. (m + n) - (m + 1) + 1 /\ (m + 1) + i - 1 = m + i
        BY <1>1
      <4>2. m + i \in 1 .. m + n /\ ~ (m + i <= m) /\ (m + i) - m = i
        BY <1>1
      <4>3. QED
        BY <1>2, <1>5, <4>1, <4>2
    <3>2. QED
      BY <3>1
  <2>3. t \in Seq(0 .. Byte - 1) /\ Len(t) = n
    BY DEF Bytes, n
  <2>4. QED
    BY <1>5, <2>1, <2>2, <2>3, SeqEqual
<1>8. QED
  BY <1>2, <1>6, <1>7 DEF a, b, u, m, n

\* A string is found behind the byte that counts it.
LEMMA StringRoundTrip ==
  ASSUME NEW s \in Bytes, Len(s) < Byte, NEW t \in Bytes
  PROVE  /\ Head(PutString(s) \o t) = Len(s)
         /\ SubSeq(PutString(s) \o t, 2, 1 + Len(s)) = s
<1> DEFINE p == PutString(s)
           u == p \o t
           n == Len(s)
           v == SubSeq(u, 2, 1 + n)
<1>1. n \in Nat /\ Len(t) \in Nat
  BY DEF Bytes
<1>2. p \in Bytes /\ Len(p) = 1 + n /\ p = <<n>> \o s /\ <<n>> \in Bytes
  BY PutStringType
<1>3. \A i \in 1 .. 1 + n : p[i] = IF i <= 1 THEN n ELSE s[i - 1]
  <2>1. /\ Len(<<n>>) = 1 /\ <<n>>[1] = n
    OBVIOUS
  <2>2. \A i \in 1 .. Len(<<n>>) + Len(s) : (<<n>> \o s)[i] =
          IF i <= Len(<<n>>) THEN <<n>>[i] ELSE s[i - Len(<<n>>)]
    BY <1>2, ConcatProperties DEF Bytes
  <2>3. \A i \in 1 .. 1 + n : (<<n>> \o s)[i] = IF i <= 1 THEN <<n>>[i] ELSE s[i - 1]
    BY <2>1, <2>2
  <2>4. \A i \in 1 .. 1 + n : i <= 1 => i = 1
    BY <1>1
  <2>5. QED
    BY <1>2, <2>1, <2>3, <2>4
<1> HIDE DEF p, n
<1>4. /\ u \in Bytes /\ Len(u) = (1 + n) + Len(t)
      /\ \A i \in 1 .. (1 + n) + Len(t) : u[i] = IF i <= 1 + n THEN p[i] ELSE t[i - (1 + n)]
  BY <1>2, ConcatProperties DEF Bytes
<1> HIDE DEF u
<1>5. \A i \in 1 .. 1 + n : u[i] = p[i]
  BY <1>1, <1>4
<1>6. Head(u) = n
  <2>1. u # << >>
    BY <1>1, <1>4
  <2>2. Head(u) = u[1]
    BY <1>4, <2>1 DEF Bytes
  <2>3. 1 \in 1 .. 1 + n
    BY <1>1
  <2>4. QED
    BY <1>3, <1>5, <2>2, <2>3
<1>7. /\ v \in Seq(0 .. Byte - 1) /\ Len(v) = IF 2 <= 1 + n THEN (1 + n) - 2 + 1 ELSE 0
      /\ \A i \in 1 .. (1 + n) - 2 + 1 : v[i] = u[2 + i - 1]
  <2>1. \A i \in 1 .. (1 + n) + Len(t) : u[i] \in 0 .. Byte - 1
    BY <1>4, ElementOfSeq DEF Bytes
  <2>2. \A i \in 2 .. 1 + n : u[i] \in 0 .. Byte - 1
    BY <1>1, <2>1
  <2>3. 2 \in Int /\ 1 + n \in Int
    BY <1>1
  <2>4. QED
    BY <2>2, <2>3, SubSeqProperties
<1> HIDE DEF v
<1>8. v = s
  <2>1. Len(v) = n
    BY <1>1, <1>7
  <2>2. ASSUME NEW i \in 1 .. n PROVE v[i] = s[i]
    <3>1. i \in 1 .. (1 + n) - 2 + 1 /\ 2 + i - 1 = i + 1
      BY <1>1
    <3>2. i + 1 \in 1 .. 1 + n /\ ~ (i + 1 <= 1) /\ (i + 1) - 1 = i
      BY <1>1
    <3>3. QED
      BY <1>3, <1>5, <1>7, <3>1, <3>2
  <2>3. s \in Seq(0 .. Byte - 1) /\ Len(s) = n
    BY DEF Bytes, n
  <2>4. QED
    BY <1>7, <2>1, <2>2, <2>3, SeqEqual
<1>9. QED
  BY <1>6, <1>8 DEF v, u, p, n

\* A GET macro takes the field that a PUT macro wrote, and leaves the rest.
LEMMA FieldRoundTrip ==
  ASSUME NEW r \in Readers, ~ r.short, NEW c \in CodecFits, NEW f \in Strings \cup Numbers,
         NEW t \in Bytes, r.rest = PutField(c, f) \o t
  PROVE  GetField(r, f) = [codec |-> [r.codec EXCEPT ![f] = c[f]], short |-> FALSE,
                           rest |-> t]
<1> DEFINE p == PutField(c, f)
<1>1. p \in Bytes /\ Len(p) = FieldSize(c, f) /\ Len(p) \in Nat /\ Len(t) \in Nat
  BY PutFieldType DEF Bytes
<1>2. Len(r.rest) = Len(p) + Len(t)
  BY <1>1, JoinType
<1>3. SubSeq(r.rest, 1, Len(p)) = p /\ SubSeq(r.rest, Len(p) + 1, Len(r.rest)) = t
  BY <1>1, SplitBytes
<1>4. CASE f \in Numbers
  <2>1. f \notin Strings /\ Width[f] \in {2, 4, 8} /\ c[f] \in 0 .. Capacity(f) - 1
    BY <1>4, CapacityOf, FieldsType DEF Strings, Numbers
  <2>2. p = PutNumber(c[f], Width[f]) /\ Len(p) = Width[f]
    BY <1>1, <2>1 DEF PutField, FieldSize
  <2>3. GetNumber(p) = c[f]
    BY <2>1, <2>2, NumberRoundTrip DEF Capacity
  <2> HIDE DEF p
  <2>4. ~ (Len(r.rest) < Width[f])
    BY <1>1, <1>2, <2>2
  <2>5. GetField(r, f) =
          Take(r, f, GetNumber(SubSeq(r.rest, 1, Width[f])), Width[f])
    BY <1>4, <2>1, <2>4 DEF GetField
  <2>6. GetField(r, f) = Take(r, f, c[f], Len(p))
    BY <1>3, <2>2, <2>3, <2>5
  <2>7. QED
    BY <1>3, <2>6 DEF Take
<1>5. CASE f \notin Numbers
  <2>1. f \in Strings /\ c[f] \in Bytes /\ Len(c[f]) < Byte /\ Len(c[f]) \in Nat
    BY <1>5, FieldsType DEF Bytes
  <2>2. p = PutString(c[f]) /\ Len(p) = 1 + Len(c[f])
    BY <1>1, <2>1 DEF PutField, FieldSize
  <2>3. Head(r.rest) = Len(c[f]) /\ SubSeq(r.rest, 2, 1 + Len(c[f])) = c[f]
    BY <2>1, <2>2, StringRoundTrip
  <2> HIDE DEF p
  <2>4. ~ (Len(r.rest) < 1) /\ ~ (Len(r.rest) < 1 + Head(r.rest))
    BY <1>1, <1>2, <2>1, <2>2, <2>3
  <2>5. GetField(r, f) = Take(r, f, SubSeq(r.rest, 2, 1 + Head(r.rest)), 1 + Head(r.rest))
    BY <1>5, <2>1, <2>4 DEF GetField
  <2>6. GetField(r, f) = Take(r, f, c[f], Len(p))
    BY <2>2, <2>3, <2>5
  <2>7. QED
    BY <1>3, <2>6 DEF Take
<1>6. QED
  BY <1>4, <1>5

\* A reader that has taken the first i fields of what c says, t being left.
HasRead(r, c, fs, i, t) ==
  /\ r \in Readers /\ ~ r.short /\ r.rest = t /\ t \in Bytes
  /\ \A j \in 1 .. i : j \in DOMAIN fs => r.codec[fs[j]] = c[fs[j]]

\* It takes the next one.
LEMMA NextField ==
  ASSUME NEW c \in CodecFits, NEW id, NEW i \in 1 .. 5, NEW r, NEW t \in Bytes,
         HasRead(r, c, PutFields(id), i - 1, Put(c, PutFields(id), i) \o t)
  PROVE  HasRead(Get(r, PutFields(id), i), c, PutFields(id), i, t)
<1> DEFINE fs == PutFields(id)
           q == Get(r, fs, i)
<1>1. /\ r \in Readers /\ ~ r.short /\ r.rest = Put(c, fs, i) \o t
      /\ \A j \in 1 .. i - 1 : j \in DOMAIN fs => r.codec[fs[j]] = c[fs[j]]
  BY DEF HasRead
<1>2. CASE i \notin DOMAIN fs
  <2>1. q = r /\ Put(c, fs, i) = << >>
    BY <1>2 DEF Get, Put
  <2>2. << >> \o t = t
    BY ConcatEmptySeq DEF Bytes
  <2>3. \A j \in 1 .. i : j \in DOMAIN fs => j \in 1 .. i - 1
    BY <1>2
  <2>4. QED
    BY <1>1, <2>1, <2>2, <2>3 DEF HasRead
<1>3. CASE i \in DOMAIN fs
  <2> DEFINE f == fs[i]
  <2>1. f \in Strings \cup Numbers
    BY <1>3, FieldsOfMessage
  <2>2. q = GetField(r, f) /\ Put(c, fs, i) = PutField(c, f)
    BY <1>3 DEF Get, Put
  <2> HIDE DEF f
  <2>3. /\ q \in Readers
        /\ q = [codec |-> [r.codec EXCEPT ![f] = c[f]], short |-> FALSE, rest |-> t]
    BY <1>1, <2>1, <2>2, FieldRoundTrip, GetFieldType
  <2> HIDE DEF q
  <2>4. q.codec = [r.codec EXCEPT ![f] = c[f]] /\ q.short = FALSE /\ q.rest = t
    BY <2>3
  <2>5. \A g \in FieldNames : q.codec[g] = IF g = f THEN c[g] ELSE r.codec[g]
    <3>1. r.codec \in CodecFits
      BY <1>1 DEF Readers
    <3>2. DOMAIN r.codec = FieldNames
      BY <3>1, FieldsType
    <3>3. QED
      BY <2>4, <3>2
  <2>6. ASSUME NEW j \in 1 .. i, j \in DOMAIN fs
        PROVE  q.codec[fs[j]] = c[fs[j]]
    <3>1. fs[j] \in FieldNames
      <4>1. fs[j] \in Strings \cup Numbers
        BY <2>6, FieldsOfMessage
      <4>2. QED
        BY <4>1 DEF Strings, Numbers, FieldNames
    <3>2. CASE fs[j] = f
      BY <2>5, <3>1, <3>2
    <3>3. CASE fs[j] # f
      <4>1. j \in 1 .. i - 1
        BY <3>3 DEF f
      <4>2. QED
        BY <1>1, <2>5, <2>6, <3>1, <3>3, <4>1
    <3>4. QED
      BY <3>2, <3>3
  <2>7. HasRead(q, c, fs, i, t)
    BY <2>3, <2>4, <2>6 DEF HasRead
  <2>8. QED
    BY <2>7 DEF q
<1>4. QED
  BY <1>2, <1>3

\* What is parsed from the data frame of an object says the same: the message
\* is accepted, to its end, and each of its fields has the value sent.
LEMMA ParseRoundTrip ==
  ASSUME NEW c \in CodecFits, c.id \in Ids, NEW c0 \in CodecFits
  PROVE  LET p == Parse(c0, DataFrame(c))
         IN  /\ p.rc = 0 /\ p.short = FALSE /\ p.codec.id = c.id
             /\ \A f \in ToSet(PutFields(c.id)) : p.codec[f] = c[f]
<1> DEFINE bytes == DataFrame(c)
           p == Parse(c0, bytes)
           fs == PutFields(c.id)
           P(i) == Put(c, fs, i)
           t4 == P(5)
           t3 == P(4) \o t4
           t2 == P(3) \o t3
           t1 == P(2) \o t2
           t0 == P(1) \o t1
           sig == PutNumber(Signature, 2)
           one == PutNumber(c.id, 1)
           start == [codec |-> [c0 EXCEPT !.id = c.id], short |-> FALSE, rest |-> t0]
           q == ReadFields(start, fs)
<1>1. \A i \in 1 .. 5 : P(i) \in Bytes
  BY PutType
<1>2. c.id \in Nat /\ c.id \in 0 .. Byte - 1
  BY FieldsType, ByteType
<1>3. /\ t4 \in Bytes /\ t3 \in Bytes /\ t2 \in Bytes /\ t1 \in Bytes /\ t0 \in Bytes
  <2>1. P(1) \in Bytes /\ P(2) \in Bytes /\ P(3) \in Bytes /\ P(4) \in Bytes /\ P(5) \in Bytes
    BY <1>1
  <2> HIDE DEF P
  <2>2. t3 \in Bytes
    BY <2>1, JoinType
  <2>3. t2 \in Bytes
    BY <2>1, <2>2, JoinType
  <2>4. t1 \in Bytes
    BY <2>1, <2>3, JoinType
  <2>5. t0 \in Bytes
    BY <2>1, <2>4, JoinType
  <2>6. QED
    BY <2>1, <2>2, <2>3, <2>4, <2>5
<1>4. /\ sig \in Bytes /\ Len(sig) = 2 /\ one \in Bytes /\ Len(one) = 1
  <2>1. Signature \in Nat /\ c.id \in Nat
    BY <1>2, ByteType
  <2>2. QED
    BY <2>1, PutNumberType
<1>5. bytes = sig \o (one \o t0)
  BY DEF DataFrame, PutAll
<1>6. one[1] = c.id
  <2>1. Weight(0) = 1
    BY WeightStep
  <2>2. one[1] = (c.id \div Weight(1 - 1)) % Byte
    BY DEF PutNumber
  <2>3. one[1] = (c.id \div 1) % Byte
    BY <2>1, <2>2
  <2>4. c.id \div 1 = c.id /\ c.id % Byte = c.id
    BY <1>2, ByteType
  <2>5. QED
    BY <2>3, <2>4
<1>7. GetNumber(sig) = Signature
  <2>1. Signature \in 0 .. Weight(2) - 1
    <3>1. Weight(2) = Byte * Byte
      BY WeightStep DEF Byte2
    <3>2. QED
      BY <3>1, CodecAssumption
  <2>2. QED
    BY <2>1, NumberRoundTrip
<1> HIDE DEF P, t0, t1, t2, t3, t4, sig, one, bytes
<1>8. one \o t0 \in Bytes /\ Len(one \o t0) = 1 + Len(t0) /\ Len(t0) \in Nat
  <2>1. one \o t0 \in Bytes /\ Len(one \o t0) = Len(one) + Len(t0)
    BY <1>3, <1>4, JoinType
  <2>2. Len(t0) \in Nat
    BY <1>3 DEF Bytes
  <2>3. QED
    BY <1>4, <2>1, <2>2
<1>9. bytes \in Bytes /\ Len(bytes) = 3 + Len(t0)
  <2>1. bytes \in Bytes /\ Len(bytes) = 2 + (1 + Len(t0))
    BY <1>4, <1>5, <1>8, JoinType
  <2>2. QED
    BY <1>8, <2>1
<1>10. SubSeq(bytes, 1, 2) = sig
  BY <1>4, <1>5, <1>8, SplitBytes
<1>11. bytes[3] = c.id
  <2>1. bytes[3] = (one \o t0)[1]
    <3>1. \A i \in 1 .. Len(sig) + Len(one \o t0) : (sig \o (one \o t0))[i] =
            IF i <= Len(sig) THEN sig[i] ELSE (one \o t0)[i - Len(sig)]
      BY <1>4, <1>8, ConcatProperties DEF Bytes
    <3>2. 3 \in 1 .. Len(sig) + Len(one \o t0) /\ ~ (3 <= Len(sig)) /\ 3 - Len(sig) = 1
      BY <1>4, <1>8
    <3>3. QED
      BY <1>5, <3>1, <3>2
  <2>2. (one \o t0)[1] = one[1]
    <3>1. \A i \in 1 .. Len(one) + Len(t0) : (one \o t0)[i] =
            IF i <= Len(one) THEN one[i] ELSE t0[i - Len(one)]
      BY <1>3, <1>4, ConcatProperties DEF Bytes
    <3>2. 1 \in 1 .. Len(one) + Len(t0) /\ 1 <= Len(one)
      BY <1>4, <1>8
    <3>3. QED
      BY <3>1, <3>2
  <2>3. QED
    BY <1>6, <2>1, <2>2
<1>12. SubSeq(bytes, 4, Len(bytes)) = t0
  <2> DEFINE head == sig \o one
  <2>1. head \in Bytes /\ Len(head) = 3
    <3>1. head \in Bytes /\ Len(head) = Len(sig) + Len(one)
      BY <1>4, JoinType
    <3>2. QED
      BY <1>4, <3>1
  <2>2. bytes = head \o t0
    <3> DEFINE S == 0 .. Byte - 1
    <3>1. sig \in Seq(S) /\ one \in Seq(S) /\ t0 \in Seq(S)
      BY <1>3, <1>4 DEF Bytes
    <3> HIDE DEF S
    <3>2. (sig \o one) \o t0 = sig \o (one \o t0)
      BY <3>1, ConcatAssociative
    <3>3. QED
      BY <1>5, <3>2
  <2> HIDE DEF head
  <2>3. SubSeq(head \o t0, Len(head) + 1, Len(head \o t0)) = t0
    BY <1>3, <2>1, SplitBytes
  <2>4. QED
    BY <2>1, <2>2, <2>3
<1>13. GetFields(c.id) = fs
  BY FieldsOfMessage
<1>14. p = [codec |-> q.codec, rc |-> 0, short |-> q.short]
  <2>1. ~ (Len(bytes) < 2) /\ ~ (Len(bytes) < 3)
    BY <1>8, <1>9
  <2>2. p = IF bytes[3] \notin Ids
            THEN [codec |-> [c0 EXCEPT !.id = bytes[3]], rc |-> -2, short |-> TRUE]
            ELSE LET read == ReadFields([codec |-> [c0 EXCEPT !.id = bytes[3]],
                                         short |-> FALSE,
                                         rest |-> SubSeq(bytes, 4, Len(bytes))],
                                        GetFields(bytes[3]))
                 IN  [codec |-> read.codec, rc |-> 0, short |-> read.short]
    BY <1>7, <1>10, <2>1 DEF Parse
  <2>3. QED
    BY <1>11, <1>12, <1>13, <2>2
<1>15. start \in Readers
  <2>1. [c0 EXCEPT !.id = c.id] \in CodecFits
    BY <1>2, IdUpdate
  <2>2. QED
    BY <1>3, <2>1 DEF Readers
<1>16. start.codec.id = c.id
  BY FieldsType DEF FieldNames
<1>17. HasRead(start, c, fs, 0, P(1) \o t1)
  <2>1. start.short = FALSE /\ start.rest = t0 /\ t0 = P(1) \o t1
    BY DEF t0
  <2> HIDE DEF start
  <2>2. HasRead(start, c, fs, 0, t0)
    BY <1>3, <1>15, <2>1 DEF HasRead
  <2>3. QED
    BY <2>1, <2>2
<1>18. HasRead(q, c, fs, 5, << >>)
  <2> HIDE DEF P, start
  <2> DEFINE q1 == Get(start, fs, 1)
             q2 == Get(q1, fs, 2)
             q3 == Get(q2, fs, 3)
             q4 == Get(q3, fs, 4)
             q5 == Get(q4, fs, 5)
  <2>1. HasRead(q1, c, fs, 1, t1)
    BY <1>3, <1>17, NextField DEF P
  <2> HIDE DEF q1
  <2>2. HasRead(q2, c, fs, 2, t2)
    BY <1>3, <2>1, NextField DEF P, t1
  <2> HIDE DEF q2
  <2>3. HasRead(q3, c, fs, 3, t3)
    BY <1>3, <2>2, NextField DEF P, t2
  <2> HIDE DEF q3
  <2>4. HasRead(q4, c, fs, 4, t4)
    BY <1>3, <2>3, NextField DEF P, t3
  <2> HIDE DEF q4
  <2>5. << >> \in Bytes /\ t4 = P(5) \o << >>
    <3>1. t4 = P(5) /\ t4 \in Bytes
      BY <1>3 DEF t4
    <3>2. << >> \in Bytes /\ t4 \o << >> = t4
      BY <3>1, ConcatEmptySeq DEF Bytes
    <3>3. QED
      BY <3>1, <3>2
  <2>6. HasRead(q5, c, fs, 5, << >>)
    <3>1. HasRead(q4, c, fs, 5 - 1, Put(c, fs, 5) \o << >>)
      BY <2>4, <2>5 DEF P
    <3>2. \A t \in Bytes : HasRead(q4, c, fs, 5 - 1, Put(c, fs, 5) \o t)
                             => HasRead(Get(q4, fs, 5), c, fs, 5, t)
      BY NextField
    <3>3. QED
      BY <2>5, <3>1, <3>2
  <2>7. QED
    BY <2>6 DEF ReadFields, q1, q2, q3, q4
<1>19. DOMAIN fs \subseteq 1 .. 5
  BY DEF PutFields
<1>20. \A f \in ToSet(fs) : q.codec[f] = c[f]
  BY <1>18, <1>19 DEF HasRead, ToSet
<1>21. q.codec.id = c.id
  <2>1. "id" \in FieldNames /\ "id" \notin ToSet(fs)
    <3>1. ToSet(fs) \subseteq Strings \cup Numbers
      BY FieldsOfMessage DEF ToSet
    <3>2. QED
      BY <3>1 DEF Strings, Numbers, FieldNames
  <2>2. \A g \in FieldNames \ ToSet(fs) : q.codec[g] = start.codec[g]
    <3> HIDE DEF start
    <3>1. QED
      BY <1>13, <1>15, ReadFieldsType
  <2>3. QED
    BY <1>16, <2>1, <2>2
<1>22. q.short = FALSE
  BY <1>18 DEF HasRead, Readers
<1> HIDE DEF q, p
<1>23. p.rc = 0 /\ p.short = FALSE /\ p.codec = q.codec
  BY <1>14, <1>22
<1>24. QED
  BY <1>20, <1>21, <1>23 DEF p, bytes


-----------------------------------------------------------------------------
(***************************************************************************)
(* What an object says.                                                    *)
(***************************************************************************)

\* What an object with these payload frames says; frames counts for a RESULT.
Said(c, frames) ==
  [id |-> c.id, fields |-> [f \in ToSet(PutFields(c.id)) |-> c[f]],
   payload |-> IF c.id = RESULT THEN <<frames>> ELSE << >>]

\* An object that agrees in the fields of its message and in its payload.
LEMMA SaysSame ==
  ASSUME NEW c, NEW d, NEW h, NEW frames, d.id = c.id,
         \A f \in ToSet(PutFields(c.id)) : d[f] = c[f],
         c.id = RESULT => d.payload # 0 /\ h[d.payload] = frames
  PROVE  Says(d, h) = Said(c, frames)
<1>1. [f \in ToSet(PutFields(d.id)) |-> d[f]] = [f \in ToSet(PutFields(c.id)) |-> c[f]]
  OBVIOUS
<1>2. (IF d.id = RESULT THEN PayloadOf(d, h) ELSE << >>)
        = (IF c.id = RESULT THEN <<frames>> ELSE << >>)
  BY DEF PayloadOf
<1>3. QED
  BY <1>1, <1>2 DEF Says, Said

\* An object of the heap that a step leaves as it was.
Untouched(m) == m = 0 \/ heap'[m] = heap[m]

\* What an object says and holds does not depend on the rest of the heap, nor
\* on its routing id.
LEMMA SaysKept ==
  ASSUME NEW c, NEW d, d.id = c.id, d.payload = c.payload,
         \A f \in Strings \cup Numbers : d[f] = c[f], Untouched(c.payload)
  PROVE  Says(d, heap') = Says(c, heap) /\ Holds(d, heap') = Holds(c, heap)
<1>1. PayloadOf(d, heap') = PayloadOf(c, heap)
  BY DEF PayloadOf, Untouched
<1>2. ToSet(PutFields(c.id)) \subseteq Strings \cup Numbers
  BY FieldsOfMessage DEF ToSet
<1>3. [f \in ToSet(PutFields(d.id)) |-> d[f]] = [f \in ToSet(PutFields(c.id)) |-> c[f]]
  BY <1>2
<1>4. [f \in Strings \cup Numbers |-> d[f]] = [f \in Strings \cup Numbers |-> c[f]]
  OBVIOUS
<1>5. QED
  BY <1>1, <1>3, <1>4 DEF Says, Holds

\* Objects that neither the destroyed nor the new one is stay as they were.
LEMMA HeapReplaced ==
  ASSUME NEW h, NEW a, NEW frames, NEW m \in DOMAIN h, m # a
  PROVE  /\ Destroy(h, a)[m] = h[m]
         /\ FreshIds(Destroy(h, a)) # {} => Alloc(Destroy(h, a), frames)[m] = h[m]
<1> DEFINE g == Destroy(h, a)
<1>1. m \in DOMAIN g /\ g[m] = h[m]
  BY DestroyFacts
<1> HIDE DEF g
<1>2. ASSUME FreshIds(g) # {}
      PROVE  Alloc(g, frames)[m] = h[m]
  <2>1. \A k \in DOMAIN g : Alloc(g, frames)[k] = g[k]
    BY <1>2, AllocFacts
  <2>2. QED
    BY <1>1, <2>1
<1>3. QED
  BY <1>1, <1>2 DEF g

\* A call on one object leaves the payloads of the others alone.
LEMMA OthersUntouched ==
  ASSUME OneOwner, NEW e \in Ends, NEW frames,
         \/ heap' = heap
         \/ heap' = Destroy(heap, codec[e].payload)
         \/ /\ FreshIds(Destroy(heap, codec[e].payload)) # {}
            /\ heap' = Alloc(Destroy(heap, codec[e].payload), frames)
  PROVE  Untouched(codec[Peer[e]].payload) /\ Untouched(Copied)
<1> DEFINE a == codec[e].payload
<1>1. OwnedOnce(heap, a, codec[Peer[e]].payload, Copied, held)
  BY OwnersFrom
<1>2. ASSUME NEW m, m # 0, m \in {codec[Peer[e]].payload, Copied}
      PROVE  heap'[m] = heap[m]
  <2>1. m \in DOMAIN heap /\ m # a
    BY <1>1, <1>2 DEF OwnedOnce
  <2> HIDE DEF a
  <2>2. /\ Destroy(heap, a)[m] = heap[m]
        /\ FreshIds(Destroy(heap, a)) # {} => Alloc(Destroy(heap, a), frames)[m] = heap[m]
    BY <2>1, HeapReplaced
  <2>3. QED
    BY <2>2 DEF a
<1>3. QED
  BY <1>2 DEF Untouched

\* So does a call that makes or destroys a copy, or destroys what the
\* application holds.
LEMMA EndsUntouched ==
  ASSUME OneOwner, NEW frames,
         \/ heap' = heap
         \/ heap' = Destroy(heap, Copied) \/ heap' = Destroy(heap, held)
         \/ FreshIds(heap) # {} /\ heap' = Alloc(heap, frames)
  PROVE  /\ \A e \in Ends : Untouched(codec[e].payload)
         /\ heap' = Destroy(heap, held) => Untouched(Copied)
<1>1. OwnedOnce(heap, codec["client"].payload, codec["server"].payload, Copied, held)
  BY OneOwnerByName
<1>2. ASSUME NEW e \in Ends, codec[e].payload # 0
      PROVE  heap'[codec[e].payload] = heap[codec[e].payload]
  <2> DEFINE m == codec[e].payload
  <2>1. m \in DOMAIN heap /\ m # Copied /\ m # held
    BY <1>1, <1>2 DEF OwnedOnce, Ends
  <2> HIDE DEF m
  <2>2. Destroy(heap, Copied)[m] = heap[m] /\ Destroy(heap, held)[m] = heap[m]
    BY <2>1, DestroyFacts
  <2>3. ASSUME FreshIds(heap) # {} PROVE Alloc(heap, frames)[m] = heap[m]
    <3>1. \A k \in DOMAIN heap : Alloc(heap, frames)[k] = heap[k]
      BY <2>3, AllocFacts
    <3>2. QED
      BY <2>1, <3>1
  <2>4. heap'[m] = heap[m]
    BY <2>2, <2>3
  <2>5. QED
    BY <2>4 DEF m
<1>3. ASSUME heap' = Destroy(heap, held), Copied # 0
      PROVE  heap'[Copied] = heap[Copied]
  <2>1. Copied \in DOMAIN heap /\ Copied # held
    BY <1>1, <1>3 DEF OwnedOnce
  <2>2. QED
    BY <1>3, <2>1, DestroyFacts
<1>4. QED
  BY <1>2, <1>3 DEF Untouched


-----------------------------------------------------------------------------
(***************************************************************************)
(* Copies.                                                                 *)
(***************************************************************************)

\* A copy that nobody touches stays faithful.
LEMMA CopyKept ==
  ASSUME CopyIsFaithful, UNCHANGED copy, Untouched(Copied)
  PROVE  CopyIsFaithful'
<1> SUFFICES ASSUME copy # << >>
             PROVE  /\ copy[2].says \in {Says(copy[1], heap'), Holds(copy[1], heap')}
                    /\ copy[2].routing_id = copy[1].routing_id
  BY DEF CopyIsFaithful
<1>1. Copied = copy[1].payload
  BY DEF Copied
<1>2. Says(copy[1], heap') = Says(copy[1], heap) /\ Holds(copy[1], heap') = Holds(copy[1], heap)
  BY <1>1, SaysKept
<1>3. QED
  BY <1>2 DEF CopyIsFaithful

\* A dup holds what its original held.
LEMMA DupIsFaithful ==
  ASSUME Typed, OneOwner, NEW e \in Ends, tpq_codec_dup(e)
  PROVE  CopyIsFaithful'
<1> DEFINE c == codec[e]
<1>1. c \in CodecFits /\ HeapFits(heap) /\ (c.payload = 0 \/ c.payload \in DOMAIN heap)
  BY OwnedAlive DEF Typed
<1>2. \/ /\ c.payload = 0 /\ heap' = heap
         /\ copy' = <<CopyOf(c, 0), Claim(c, Holds(c, heap))>>
      \/ /\ c.payload # 0 /\ FreshIds(heap) # {} /\ heap' = Alloc(heap, heap[c.payload])
         /\ copy' = <<CopyOf(c, Fresh(heap)), Claim(c, Holds(c, heap))>>
  BY DEF tpq_codec_dup
<1> HIDE DEF c
<1>3. DOMAIN c = FieldNames
  BY <1>1, FieldsType
<1>4. ASSUME NEW o, NEW h, copy' = <<CopyOf(c, o), Claim(c, Holds(c, heap))>>,
             heap' = h, PayloadOf(CopyOf(c, o), h) = PayloadOf(c, heap)
      PROVE  CopyIsFaithful'
  <2> DEFINE d == CopyOf(c, o)
  <2>1. /\ d.id = c.id /\ d.routing_id = c.routing_id
        /\ \A f \in Strings \cup Numbers : d[f] = c[f]
    BY <1>3 DEF CopyOf, FieldNames, Strings, Numbers
  <2>2. Holds(d, h) = Holds(c, heap)
    <3> HIDE DEF d
    <3>1. [f \in Strings \cup Numbers |-> d[f]] = [f \in Strings \cup Numbers |-> c[f]]
      BY <2>1
    <3>2. QED
      BY <1>4, <2>1, <3>1 DEF Holds, d
  <2>3. copy'[1] = d /\ copy'[2].says = Holds(c, heap) /\ copy'[2].routing_id = c.routing_id
    BY <1>4 DEF Claim
  <2> HIDE DEF d
  <2>4. QED
    BY <1>4, <2>1, <2>2, <2>3 DEF CopyIsFaithful
<1>5. CASE /\ c.payload = 0 /\ heap' = heap
           /\ copy' = <<CopyOf(c, 0), Claim(c, Holds(c, heap))>>
  <2>1. CopyOf(c, 0).payload = 0
    BY <1>3 DEF CopyOf, FieldNames
  <2>2. PayloadOf(CopyOf(c, 0), heap) = PayloadOf(c, heap)
    BY <1>5, <2>1 DEF PayloadOf
  <2>3. QED
    BY <1>4, <1>5, <2>2
<1>6. CASE /\ c.payload # 0 /\ FreshIds(heap) # {} /\ heap' = Alloc(heap, heap[c.payload])
           /\ copy' = <<CopyOf(c, Fresh(heap)), Claim(c, Holds(c, heap))>>
  <2> DEFINE o == Fresh(heap)
             h == Alloc(heap, heap[c.payload])
  <2>1. o # 0 /\ h[o] = heap[c.payload]
    BY <1>6, AllocFacts
  <2>2. CopyOf(c, o).payload = o
    BY <1>3 DEF CopyOf, FieldNames
  <2> HIDE DEF o, h
  <2>3. PayloadOf(CopyOf(c, o), h) = PayloadOf(c, heap)
    BY <1>6, <2>1, <2>2 DEF PayloadOf
  <2>4. QED
    BY <1>4, <1>6, <2>3 DEF o, h
<1>7. QED
  BY <1>2, <1>5, <1>6

\* The number that is printed as a long is read back into its field.
LEMMA NumberOfLong ==
  ASSUME NEW f \in Numbers, NEW n \in 0 .. Capacity(f) - 1
  PROVE  NumberOf(f, LongOf(n)) = n
<1> DEFINE W == Weight(8)
           C == Capacity(f)
<1>1. W \in Nat \ {0} /\ C \in Nat \ {0}
  BY WeightType, CapacityOf
<1>2. C <= W
  <2>1. Weight(2) = Byte2 /\ Weight(4) = Byte4 /\ Weight(8) = Byte4 * Byte4
    BY WeightStep
  <2>2. Byte2 \in Nat \ {0} /\ Byte4 \in Nat \ {0}
    BY WeightType
  <2>3. \A a, b \in Nat \ {0} : a <= a * b
    OBVIOUS
  <2>4. Byte2 <= Byte4
    BY <2>2, <2>3 DEF Byte4
  <2>5. Byte4 <= Byte4 * Byte4
    BY <2>2, <2>3
  <2>6. C = Weight(2) \/ C = Weight(4) \/ C = Weight(8)
    BY CapacityOf DEF Numbers
  <2>7. Byte4 * Byte4 \in Nat
    BY <2>2
  <2>8. QED
    BY <2>1, <2>2, <2>4, <2>5, <2>6, <2>7
<1>3. LongOf(n) = n \/ LongOf(n) = n - W
  BY DEF LongOf
<1>4. n \in Nat /\ n < W /\ n < C
  BY <1>1, <1>2
<1>5. NumberOf(f, LongOf(n)) = (LongOf(n) % W) % C
  BY DEF NumberOf
<1> HIDE DEF W, C
<1>6. n % W = n /\ (n - W) % W = n /\ n % C = n
  BY <1>1, <1>4
<1>7. QED
  BY <1>3, <1>5, <1>6

\* Bytes in the textual form.
TextOf(frames) == [i \in DOMAIN frames |-> STR_FROM_BYTES(frames[i])]
BytesOf(strs) == [i \in DOMAIN strs |-> BYTES_FROM_STR(strs[i])]

\* Frames are read back from their text.
LEMMA BytesOfText ==
  ASSUME NEW frames \in Seq(Bytes)
  PROVE  BytesOf(TextOf(frames)) = frames
<1>1. \A i \in DOMAIN frames : frames[i] \in Bytes
  BY ElementOfSeq, LenProperties
<1>2. \A i \in DOMAIN frames : BYTES_FROM_STR(STR_FROM_BYTES(frames[i])) = frames[i]
  BY <1>1, TextOfBytes
<1>3. frames = [i \in DOMAIN frames |-> frames[i]]
  OBVIOUS
<1>4. BytesOf(TextOf(frames)) = [i \in DOMAIN frames |-> frames[i]]
  BY <1>2 DEF BytesOf, TextOf
<1>5. QED
  BY <1>3, <1>4

ContentOf(c) == [f \in ZplFields(c.id) |-> IF f \in Strings THEN c[f] ELSE LongOf(c[f])]

\* A tree shows what is claimed of it: all of an object, but for what someone
\* has spoiled, which nothing is read from.
TextSays(t, claim) ==
  \E c \in CodecFits : \E frames \in Payloads :
    /\ claim = [says |-> Said(c, frames), routing_id |-> c.routing_id]
    /\ t.message = c.id /\ t.content = ContentOf(c)
    /\ c.id = RESULT => t.payload = TextOf(frames)
    /\ (\A i \in DOMAIN t.routing_id : IsBytes(t.routing_id[i])) =>
         t.routing_id = TextOf(c.routing_id)

TextInv == text # << >> => TextSays(text[1], text[2])

\* tpq_codec_zpl shows the object.
LEMMA ZplSays ==
  ASSUME Typed, OneOwner, NEW e \in Ends, tpq_codec_zpl(e)
  PROVE  TextInv'
<1> DEFINE c == codec[e]
           frames == IF c.id = RESULT THEN heap[c.payload] ELSE << >>
           t == text'[1]
<1>1. c \in CodecFits /\ HeapFits(heap) /\ (c.payload = 0 \/ c.payload \in DOMAIN heap)
  BY OwnedAlive DEF Typed
<1>2. /\ c.id = RESULT => c.payload # 0
      /\ t.message = c.id /\ t.content = ContentOf(c) /\ t.routing_id = TextOf(c.routing_id)
      /\ c.id = RESULT => t.payload = TextOf(heap[c.payload])
      /\ text'[2] = Claim(c, Says(c, heap))
  BY DEF tpq_codec_zpl, ContentOf, TextOf
<1> HIDE DEF c, t
<1>3. frames \in Payloads
  BY <1>1, <1>2 DEF HeapFits, Payloads
<1>4. Says(c, heap) = Said(c, frames)
  BY <1>2, SaysSame
<1>5. text'[2] = [says |-> Said(c, frames), routing_id |-> c.routing_id]
  BY <1>2, <1>4 DEF Claim
<1>6. c.id = RESULT => t.payload = TextOf(frames)
  BY <1>2
<1> HIDE DEF frames
<1>7. TextSays(t, text'[2])
  BY <1>1, <1>2, <1>3, <1>5, <1>6 DEF TextSays
<1>8. QED
  BY <1>7 DEF TextInv, t

\* Whoever edits the tree does not change what it shows unspoiled.
LEMMA EditSays ==
  ASSUME Typed, TextInv, EditText
  PROVE  TextInv'
<1> DEFINE t == text[1]
           u == text'[1]
<1>1. text # << >> /\ text = <<t, text[2]>> /\ TreeFits(t) /\ t \in TreeType
  BY DEF EditText, Typed, TreeFits
<1>2. PICK c \in CodecFits, frames \in Payloads :
        /\ text[2] = [says |-> Said(c, frames), routing_id |-> c.routing_id]
        /\ t.message = c.id /\ t.content = ContentOf(c)
        /\ c.id = RESULT => t.payload = TextOf(frames)
        /\ (\A i \in DOMAIN t.routing_id : IsBytes(t.routing_id[i])) =>
             t.routing_id = TextOf(c.routing_id)
  BY <1>1 DEF TextInv, TextSays
<1>3. ASSUME text'[2] = text[2], u.message = t.message, u.content = t.content,
             u.payload = t.payload,
             u.routing_id = t.routing_id
               \/ ~ (\A i \in DOMAIN u.routing_id : IsBytes(u.routing_id[i]))
      PROVE  TextInv'
  <2> HIDE DEF t, u
  <2>1. TextSays(u, text'[2])
    BY <1>2, <1>3 DEF TextSays
  <2>2. QED
    BY <2>1 DEF TextInv, u
<1>4. \/ \E f \in DOMAIN t.content : text' = [text EXCEPT ![1] = [t EXCEPT !.bad = @ \cup {f}]]
      \/ /\ t.routing_id # << >> /\ t.routing_id[1] # << >> /\ IsBytes(t.routing_id[1])
         /\ text' = [text EXCEPT ![1] = [t EXCEPT !.routing_id[1] = Tail(@)]]
  BY DEF EditText
<1>5. ASSUME NEW v, text' = [text EXCEPT ![1] = v]
      PROVE  u = v /\ text'[2] = text[2]
  BY <1>1, <1>5
<1>6. ASSUME NEW f \in DOMAIN t.content,
             text' = [text EXCEPT ![1] = [t EXCEPT !.bad = @ \cup {f}]]
      PROVE  TextInv'
  <2> DEFINE v == [t EXCEPT !.bad = @ \cup {f}]
  <2>1. u = v /\ text'[2] = text[2]
    BY <1>5, <1>6
  <2>2. v.message = t.message /\ v.content = t.content /\ v.payload = t.payload
        /\ v.routing_id = t.routing_id
    BY <1>1 DEF TreeType
  <2>3. QED
    BY <1>3, <2>1, <2>2
<1>7. ASSUME t.routing_id # << >>, t.routing_id[1] # << >>, IsBytes(t.routing_id[1]),
             text' = [text EXCEPT ![1] = [t EXCEPT !.routing_id[1] = Tail(@)]]
      PROVE  TextInv'
  <2> DEFINE s == Tail(t.routing_id[1])
             r == [t.routing_id EXCEPT ![1] = s]
             v == [t EXCEPT !.routing_id = r]
             T == Seq(Nat)
  <2>1. u = v /\ text'[2] = text[2]
    BY <1>5, <1>7
  <2>2. v.message = t.message /\ v.content = t.content /\ v.payload = t.payload
        /\ v.routing_id = r
    BY <1>1 DEF TreeType
  <2>3. t.routing_id \in Seq(T)
    BY <1>1 DEF TreeType
  <2> HIDE DEF T
  <2>4. 1 \in 1 .. Len(t.routing_id) /\ DOMAIN t.routing_id = 1 .. Len(t.routing_id)
    BY <1>7, <2>3, EmptySeq, LenProperties
  <2>5. t.routing_id[1] \in T
    BY <2>3, <2>4, ElementOfSeq
  <2>6. Len(s) = Len(t.routing_id[1]) - 1 /\ Len(t.routing_id[1]) \in Nat
    BY <1>7, <2>5, HeadTailProperties DEF T
  <2>7. Len(t.routing_id[1]) % 2 = 0
    BY <1>7 DEF IsBytes
  <2>8. \A n \in Nat : n % 2 = 0 => (n - 1) % 2 # 0
    OBVIOUS
  <2>9. ~ IsBytes(s)
    BY <2>6, <2>7, <2>8 DEF IsBytes
  <2> HIDE DEF s
  <2>10. r[1] = s /\ 1 \in DOMAIN r
    BY <2>4
  <2> HIDE DEF r, v
  <2>11. ~ (\A i \in DOMAIN u.routing_id : IsBytes(u.routing_id[i]))
    BY <2>1, <2>2, <2>9, <2>10
  <2>12. u.message = t.message /\ u.content = t.content /\ u.payload = t.payload
    BY <2>1, <2>2
  <2>13. QED
    BY <1>3, <2>1, <2>11, <2>12
<1>8. QED
  BY <1>4, <1>6, <1>7

\* What a tree describes is what was exported to it.
LEMMA FromTextSays ==
  ASSUME NEW t, TreeFits(t), NEW c \in CodecFits, t.message = c.id,
         t.content = ContentOf(c), t.routing_id = TextOf(c.routing_id)
  PROVE  LET d == FromText(t)
         IN  /\ d.id = c.id /\ d.routing_id = c.routing_id
             /\ \A f \in ToSet(PutFields(c.id)) : d[f] = c[f]
<1> DEFINE d == FromText(t)
           fields == NewZplFields(t.message)
<1>1. /\ fields = ToSet(PutFields(c.id)) /\ fields = ZplFields(c.id)
      /\ fields \subseteq Strings \cup Numbers
  <2>1. NewZplFields(c.id) = ZplFields(c.id)
    BY DEF NewZplFields, ZplFields
  <2>2. ToSet(PutFields(c.id)) = ZplFields(c.id)
    <3>1. \A id : ToSet(PutFields(id)) = ZplFields(id)
      BY DEF ToSet, PutFields, ZplFields, HELLO, COVERAGE, QUERY, RESULT, ERROR
    <3>2. QED
      BY <3>1
  <2>3. ToSet(PutFields(c.id)) \subseteq Strings \cup Numbers
    BY FieldsOfMessage DEF ToSet
  <2>4. QED
    BY <2>1, <2>2, <2>3
<1> HIDE DEF fields
<1>2. DOMAIN tpq_codec_new = FieldNames
  BY NewFits, FieldsType
<1>3. d = [f \in FieldNames |->
             CASE f = "id"         -> t.message
               [] f = "routing_id" -> BytesOf(t.routing_id)
               [] f \in fields \cap Strings -> SetString(t.content[f])
               [] f \in fields \cap Numbers -> NumberOf(f, t.content[f])
               [] OTHER -> tpq_codec_new[f]]
  BY <1>2 DEF FromText, BytesOf, fields
<1> HIDE DEF d
<1>4. /\ "id" \in FieldNames /\ "routing_id" \in FieldNames
      /\ "id" \notin Strings \cup Numbers /\ "routing_id" \notin Strings \cup Numbers
      /\ \A f \in Numbers : f \notin Strings /\ f \in FieldNames
      /\ \A f \in Strings : f \in FieldNames
  BY DEF FieldNames, Strings, Numbers
<1>5. d.id = c.id /\ d.routing_id = BytesOf(t.routing_id)
  BY <1>3, <1>4
<1>6. BytesOf(t.routing_id) = c.routing_id
  <2>1. c.routing_id \in Seq(Bytes)
    BY FieldsType
  <2>2. QED
    BY <2>1, BytesOfText
<1>7. ASSUME NEW f \in fields
      PROVE  d[f] = c[f]
  <2>1. f \in Strings \/ f \in Numbers
    BY <1>1
  <2>2. t.content[f] = IF f \in Strings THEN c[f] ELSE LongOf(c[f])
    BY <1>1 DEF ContentOf
  <2>3. CASE f \in Strings
    <3>1. d[f] = SetString(t.content[f])
      BY <1>3, <1>4, <2>3
    <3>2. c[f] \in Bytes /\ Len(c[f]) < Byte
      BY <2>3, FieldsType
    <3>3. QED
      BY <2>2, <2>3, <3>1, <3>2, SetStringType
  <2>4. CASE f \in Numbers
    <3>1. d[f] = NumberOf(f, t.content[f]) /\ f \notin Strings
      BY <1>3, <1>4, <2>4
    <3>2. c[f] \in 0 .. Capacity(f) - 1
      BY <2>4, FieldsType
    <3>3. QED
      BY <2>2, <2>4, <3>1, <3>2, NumberOfLong
  <2>5. QED
    BY <2>1, <2>3, <2>4
<1>8. QED
  BY <1>1, <1>5, <1>6, <1>7 DEF d

\* An object read back from a text says what was exported, and none comes of a
\* text that was spoiled.
LEMMA NewZplIsFaithful ==
  ASSUME Typed, OneOwner, TextInv, CopyIsFaithful, tpq_codec_new_zpl
  PROVE  CopyIsFaithful'
<1> DEFINE t == text[1]
           refused == \/ t.message \notin Ids \/ NewZplFields(t.message) \cap t.bad # {}
                      \/ \E i \in DOMAIN t.routing_id : ~ IsBytes(t.routing_id[i])
           d == FromText(t)
<1>1. text # << >> /\ copy = << >> /\ TreeFits(t)
  BY DEF tpq_codec_new_zpl, Typed
<1>2. PICK c \in CodecFits, frames \in Payloads :
        /\ text[2] = [says |-> Said(c, frames), routing_id |-> c.routing_id]
        /\ t.message = c.id /\ t.content = ContentOf(c)
        /\ c.id = RESULT => t.payload = TextOf(frames)
        /\ (\A i \in DOMAIN t.routing_id : IsBytes(t.routing_id[i])) =>
             t.routing_id = TextOf(c.routing_id)
  BY <1>1 DEF TextInv, TextSays
<1>3. \/ refused /\ copy' = copy
      \/ ~ refused /\ t.message # RESULT /\ copy' = <<d, text[2]>>
      \/ /\ ~ refused /\ t.message = RESULT /\ FreshIds(heap) # {}
         /\ heap' = Alloc(heap, BytesOf(t.payload))
         /\ copy' = <<[d EXCEPT !.payload = Fresh(heap)], text[2]>>
  BY DEF tpq_codec_new_zpl, BytesOf
<1>4. ASSUME ~ refused
      PROVE  /\ d.id = c.id /\ d.routing_id = c.routing_id /\ d \in CodecFits
             /\ \A f \in ToSet(PutFields(c.id)) : d[f] = c[f]
  <2>1. \A i \in DOMAIN t.routing_id : IsBytes(t.routing_id[i])
    BY <1>4
  <2>2. d \in CodecFits
    BY <1>1, <2>1, FromTextType
  <2>3. QED
    BY <1>1, <1>2, <2>1, <2>2, FromTextSays
<1> HIDE DEF refused, d
<1>5. CASE refused /\ copy' = copy
  BY <1>1, <1>5 DEF CopyIsFaithful
<1>6. CASE ~ refused /\ t.message # RESULT /\ copy' = <<d, text[2]>>
  <2>1. Says(d, heap') = Said(c, frames)
    BY <1>2, <1>4, <1>6, SaysSame
  <2>2. copy'[1] = d /\ copy'[2].says = Said(c, frames) /\ copy'[2].routing_id = c.routing_id
    BY <1>2, <1>6
  <2>3. QED
    BY <1>4, <1>6, <2>1, <2>2 DEF CopyIsFaithful
<1>7. CASE /\ ~ refused /\ t.message = RESULT /\ FreshIds(heap) # {}
           /\ heap' = Alloc(heap, BytesOf(t.payload))
           /\ copy' = <<[d EXCEPT !.payload = Fresh(heap)], text[2]>>
  <2> DEFINE o == Fresh(heap)
             x == [d EXCEPT !.payload = o]
  <2>1. BytesOf(t.payload) = frames
    BY <1>2, <1>7, BytesOfText DEF Payloads
  <2>2. o # 0 /\ heap'[o] = frames
    BY <1>7, <2>1, AllocFacts
  <2> HIDE DEF o
  <2>3. d \in CodecType /\ DOMAIN d = FieldNames
    BY <1>4, <1>7, FieldsType
  <2>4. ToSet(PutFields(c.id)) \subseteq FieldNames \ {"payload"}
    <3>1. ToSet(PutFields(c.id)) \subseteq Strings \cup Numbers
      BY FieldsOfMessage DEF ToSet
    <3>2. QED
      BY <3>1 DEF Strings, Numbers, FieldNames
  <2>5. /\ x.id = d.id /\ x.routing_id = d.routing_id /\ x.payload = o
        /\ \A f \in ToSet(PutFields(c.id)) : x[f] = d[f]
    BY <2>3, <2>4 DEF FieldNames
  <2>6. copy' = <<x, text[2]>>
    BY <1>7 DEF o
  <2> HIDE DEF x
  <2>7. Says(x, heap') = Said(c, frames)
    <3>1. x.id = c.id /\ \A f \in ToSet(PutFields(c.id)) : x[f] = c[f]
      BY <1>4, <1>7, <2>5
    <3>2. QED
      BY <2>2, <2>5, <3>1, SaysSame
  <2>8. copy'[1] = x /\ copy'[2].says = Said(c, frames) /\ copy'[2].routing_id = c.routing_id
    BY <1>2, <2>6
  <2>9. x.routing_id = c.routing_id
    BY <1>4, <1>7, <2>5
  <2>10. QED
    BY <2>7, <2>8, <2>9 DEF CopyIsFaithful
<1>8. QED
  BY <1>3, <1>5, <1>6, <1>7


-----------------------------------------------------------------------------
(***************************************************************************)
(* The wire.                                                               *)
(***************************************************************************)

\* From position i on there are these payload frames, and the message ends.
Ended(w, i, frames) ==
  /\ i + Len(frames) <= Len(w)
  /\ \A j \in 1 .. Len(frames) : w[i + j - 1].more /\ w[i + j].data = frames[j]
  /\ ~ w[i + Len(frames)].more

\* An intact message begins at position i: what its sender says is what is
\* written in its frames.
Intact(w, i) ==
  \E c \in CodecFits : \E frames \in Payloads :
    /\ c.id \in Ids /\ (c.id # RESULT => frames = << >>)
    /\ w[i].data = DataFrame(c) /\ w[i].of = <<Said(c, frames)>>
    /\ Ended(w, i, frames)

\* It is where the next receive looks for it: behind the last frame of another
\* message or none, for a ROUTER behind the routing frame.
Placed(e, w, i) ==
  IF e = "client" THEN i = 1 \/ ~ w[i - 1].more
  ELSE i >= 2 /\ w[i - 1].more /\ (i = 2 \/ ~ w[i - 2].more)

WireFits(e, w) ==
  \A i \in 1 .. Len(w) : w[i].of # << >> => Intact(w, i) /\ Placed(e, w, i)

WireInv == \A e \in Ends : WireFits(e, wire[e])

\* A message is the same whatever is before it and after it.
LEMMA IntactMoved ==
  ASSUME NEW v, NEW w, Len(v) \in Nat, Len(w) \in Nat, NEW k \in Int,
         NEW i \in 1 .. Len(v), NEW x \in Nat, x = i + k,
         \A j \in i .. Len(v) : w[j + k] = v[j], Len(v) + k <= Len(w), Intact(v, i)
  PROVE  Intact(w, x)
<1>1. PICK c \in CodecFits, frames \in Payloads :
        /\ c.id \in Ids /\ (c.id # RESULT => frames = << >>)
        /\ v[i].data = DataFrame(c) /\ v[i].of = <<Said(c, frames)>>
        /\ Ended(v, i, frames)
  BY DEF Intact
<1> DEFINE n == Len(frames)
<1>2. n \in Nat
  BY DEF Payloads
<1>3. /\ i + n <= Len(v) /\ ~ v[i + n].more
      /\ \A j \in 1 .. n : v[i + j - 1].more /\ v[i + j].data = frames[j]
  BY <1>1 DEF Ended
<1> HIDE DEF n
<1>4. w[x] = v[i]
  BY <1>2
<1>5. x + n <= Len(w)
  BY <1>2, <1>3
<1>6. ASSUME NEW j \in 0 .. n PROVE w[x + j] = v[i + j]
  <2>1. i + j \in i .. Len(v) /\ (i + j) + k = x + j
    BY <1>2, <1>3
  <2>2. QED
    BY <2>1
<1>7. ~ w[x + n].more
  BY <1>2, <1>3, <1>6
<1>8. ASSUME NEW j \in 1 .. n PROVE w[x + j - 1].more /\ w[x + j].data = frames[j]
  <2>1. j \in 0 .. n /\ j - 1 \in 0 .. n /\ x + (j - 1) = x + j - 1 /\ i + (j - 1) = i + j - 1
    BY <1>2
  <2>2. w[x + j] = v[i + j] /\ w[x + (j - 1)] = v[i + (j - 1)]
    BY <1>6, <2>1
  <2>3. QED
    BY <1>3, <2>1, <2>2
<1>9. Ended(w, x, frames)
  BY <1>5, <1>7, <1>8 DEF Ended, n
<1>10. QED
  BY <1>1, <1>4, <1>9 DEF Intact

RoutingFrame == [data |-> Identity, more |-> TRUE, of |-> << >>]

\* An intact message is put behind others.
LEMMA Appended ==
  ASSUME NEW e \in Ends, NEW w \in Seq(FrameType), EndsWhole(w), WireFits(e, w),
         NEW first \in Seq(FrameType),
         first = IF e = "server" THEN <<RoutingFrame>> ELSE << >>,
         NEW message \in Seq(FrameType),
         \A i \in 1 .. Len(message) :
           message[i].of # << >> => i = 1 /\ Intact(message, 1)
  PROVE  WireFits(e, (w \o first) \o message)
<1> DEFINE v == w \o first
           u == v \o message
           m == Len(w)
           f == Len(first)
           n == Len(message)
<1>1. m \in Nat /\ n \in Nat /\ f \in Nat
  OBVIOUS
<1>2. \/ e = "server" /\ f = 1 /\ first[1] = RoutingFrame
      \/ e = "client" /\ f = 0
  BY DEF Ends
<1>3. /\ v \in Seq(FrameType) /\ Len(v) = m + f
      /\ \A i \in 1 .. m + f : v[i] = IF i <= m THEN w[i] ELSE first[i - m]
  BY ConcatProperties
<1>4. /\ u \in Seq(FrameType) /\ Len(u) = (m + f) + n
      /\ \A i \in 1 .. (m + f) + n : u[i] = IF i <= m + f THEN v[i] ELSE message[i - (m + f)]
  BY <1>3, ConcatProperties
<1> HIDE DEF v, u, m, f, n
<1>5. \A i \in 1 .. m : u[i] = w[i]
  <2>1. ASSUME NEW i \in 1 .. m PROVE u[i] = w[i]
    <3>1. i \in 1 .. m + f /\ i <= m /\ i \in 1 .. (m + f) + n /\ i <= m + f
      BY <1>1
    <3>2. QED
      BY <1>3, <1>4, <3>1
  <2>2. QED
    BY <2>1
<1>6. f = 1 => u[m + 1] = RoutingFrame
  <2>1. ASSUME f = 1 PROVE u[m + 1] = RoutingFrame
    <3>1. /\ m + 1 \in 1 .. m + f /\ ~ (m + 1 <= m) /\ (m + 1) - m = 1
          /\ m + 1 \in 1 .. (m + f) + n /\ m + 1 <= m + f
      BY <1>1, <2>1
    <3>2. u[m + 1] = first[1]
      BY <1>3, <1>4, <3>1
    <3>3. QED
      BY <1>2, <2>1, <3>2
  <2>2. QED
    BY <2>1
<1>7. \A i \in 1 .. n : u[(m + f) + i] = message[i]
  <2>1. ASSUME NEW i \in 1 .. n PROVE u[(m + f) + i] = message[i]
    <3>1. /\ (m + f) + i \in 1 .. (m + f) + n /\ ~ ((m + f) + i <= m + f)
          /\ ((m + f) + i) - (m + f) = i
      BY <1>1
    <3>2. QED
      BY <1>4, <3>1
  <2>2. QED
    BY <2>1
<1>8. ASSUME NEW i \in 1 .. m, u[i].of # << >>
      PROVE  Intact(u, i) /\ Placed(e, u, i)
  <2>1. w[i].of # << >>
    BY <1>5, <1>8
  <2>2. Intact(w, i) /\ Placed(e, w, i)
    BY <2>1 DEF WireFits, m
  <2>3. Intact(u, i)
    <3>1. 0 \in Int /\ i \in Nat /\ i = i + 0 /\ Len(u) \in Nat /\ m + 0 <= Len(u)
      BY <1>1, <1>4
    <3>2. \A j \in i .. m : u[j + 0] = w[j]
      <4>1. \A j \in i .. m : j \in 1 .. m /\ j + 0 = j
        BY <1>1
      <4>2. QED
        BY <1>5, <4>1
    <3>3. QED
      BY <1>1, <2>2, <3>1, <3>2, IntactMoved DEF m
  <2>4. /\ i # 1 => u[i - 1] = w[i - 1]
        /\ i # 1 /\ i # 2 => u[i - 2] = w[i - 2]
    BY <1>1, <1>5
  <2>5. Placed(e, u, i)
    BY <1>1, <2>2, <2>4 DEF Placed
  <2>6. QED
    BY <2>3, <2>5
<1>9. ASSUME 1 <= n, u[(m + f) + 1].of # << >>
      PROVE  Intact(u, (m + f) + 1) /\ Placed(e, u, (m + f) + 1)
  <2>1. 1 \in 1 .. n
    BY <1>1, <1>9
  <2>2. Intact(message, 1)
    BY <1>7, <1>9, <2>1 DEF n
  <2>3. Intact(u, (m + f) + 1)
    <3>1. /\ m + f \in Int /\ (m + f) + 1 \in Nat /\ (m + f) + 1 = 1 + (m + f)
          /\ Len(u) \in Nat /\ n + (m + f) <= Len(u)
      BY <1>1, <1>4
    <3>2. \A j \in 1 .. n : u[j + (m + f)] = message[j]
      <4>1. \A j \in 1 .. n : j + (m + f) = (m + f) + j
        BY <1>1
      <4>2. QED
        BY <1>7, <4>1
    <3>3. QED
      BY <1>1, <2>1, <2>2, <3>1, <3>2, IntactMoved DEF n
  <2>4. m = 0 \/ ~ u[m].more
    <3>1. m = 0 \/ w # << >>
      BY DEF m
    <3>2. w # << >> => ~ w[m].more
      BY DEF EndsWhole, m
    <3>3. m # 0 => u[m] = w[m]
      BY <1>1, <1>5
    <3>4. QED
      BY <3>1, <3>2, <3>3
  <2>5. CASE e = "client" /\ f = 0
    <3>1. (m + f) + 1 = m + 1 /\ (m + 1) - 1 = m /\ (m = 0 => m + 1 = 1)
      BY <1>1, <2>5
    <3>2. QED
      BY <2>3, <2>4, <2>5, <3>1 DEF Placed
  <2>6. CASE e = "server" /\ f = 1
    <3>1. /\ (m + f) + 1 = m + 2 /\ (m + 2) - 1 = m + 1 /\ (m + 2) - 2 = m
          /\ (m = 0 => m + 2 = 2) /\ m + 2 >= 2
      BY <1>1, <2>6
    <3>2. u[m + 1].more
      BY <1>6, <2>6 DEF RoutingFrame
    <3>3. QED
      BY <2>3, <2>4, <2>6, <3>1, <3>2 DEF Placed
  <2>7. QED
    BY <1>2, <2>5, <2>6
<1>10. ASSUME NEW i \in 1 .. (m + f) + n, u[i].of # << >>
       PROVE  i \in 1 .. m \/ (1 <= n /\ i = (m + f) + 1)
  <2>1. CASE i <= m
    BY <1>1, <2>1
  <2>2. CASE m < i /\ i <= m + f
    <3>1. f = 1 /\ i = m + 1
      BY <1>1, <1>2, <2>2
    <3>2. QED
      BY <1>6, <1>10, <3>1 DEF RoutingFrame
  <2>3. CASE m + f < i
    <3>1. PICK j \in 1 .. n : i = (m + f) + j
      <4>1. i - (m + f) \in 1 .. n /\ i = (m + f) + (i - (m + f))
        BY <1>1, <2>3
      <4>2. QED
        BY <4>1
    <3>2. message[j].of # << >>
      BY <1>7, <1>10, <3>1
    <3>3. j = 1
      BY <3>2 DEF n
    <3>4. QED
      BY <1>1, <3>1, <3>3
  <2>4. QED
    BY <1>1, <2>1, <2>2, <2>3
<1>11. \A i \in 1 .. Len(u) : u[i].of # << >> => Intact(u, i) /\ Placed(e, u, i)
  BY <1>4, <1>8, <1>9, <1>10
<1>12. QED
  BY <1>11 DEF WireFits, u, v

\* Frames are taken from the front: for a ROUTER up to one that no message
\* begins behind.
LEMMA Dropped ==
  ASSUME NEW e \in Ends, NEW w \in Seq(FrameType), EndsWhole(w), WireFits(e, w),
         NEW n \in 0 .. Len(w), e = "server" /\ n < Len(w) => w[n + 1].of = << >>
  PROVE  WireFits(e, SubSeq(w, n + 1, Len(w)))
<1> DEFINE m == Len(w)
           u == SubSeq(w, n + 1, m)
<1>1. m \in Nat /\ n \in Nat /\ n <= m
  OBVIOUS
<1>2. Len(u) = m - n /\ \A j \in 1 .. m - n : u[j] = w[n + j]
  BY DropType
<1> HIDE DEF u, m
<1>3. ASSUME NEW i \in 1 .. m - n, u[i].of # << >>
      PROVE  Intact(u, i) /\ Placed(e, u, i)
  <2>1. n + i \in 1 .. m /\ w[n + i].of # << >>
    BY <1>1, <1>2, <1>3
  <2>2. Intact(w, n + i) /\ Placed(e, w, n + i)
    BY <2>1 DEF WireFits, m
  <2>3. Intact(u, i)
    <3>1. /\ -n \in Int /\ i \in Nat /\ i = (n + i) + (-n) /\ Len(u) \in Nat
          /\ m + (-n) <= Len(u)
      BY <1>1, <1>2
    <3>2. ASSUME NEW j \in (n + i) .. m PROVE u[j + (-n)] = w[j]
      <4>1. j + (-n) \in 1 .. m - n /\ n + (j + (-n)) = j
        BY <1>1
      <4>2. QED
        BY <1>2, <4>1
    <3>3. QED
      BY <1>1, <2>1, <2>2, <3>1, <3>2, IntactMoved DEF m
  <2>4. /\ i # 1 => u[i - 1] = w[(n + i) - 1]
        /\ i # 1 /\ i # 2 => u[i - 2] = w[(n + i) - 2]
    <3>1. ASSUME i # 1 PROVE u[i - 1] = w[(n + i) - 1]
      <4>1. i - 1 \in 1 .. m - n /\ n + (i - 1) = (n + i) - 1
        BY <1>1, <3>1
      <4>2. QED
        BY <1>2, <4>1
    <3>2. ASSUME i # 1, i # 2 PROVE u[i - 2] = w[(n + i) - 2]
      <4>1. i - 2 \in 1 .. m - n /\ n + (i - 2) = (n + i) - 2
        BY <1>1, <3>2
      <4>2. QED
        BY <1>2, <4>1
    <3>3. QED
      BY <3>1, <3>2
  <2>5. CASE e = "client"
    <3>1. i # 1 => ~ u[i - 1].more
      <4>1. i # 1 => n + i # 1
        BY <1>1
      <4>2. QED
        BY <2>2, <2>4, <2>5, <4>1 DEF Placed
    <3>2. QED
      BY <2>3, <2>5, <3>1 DEF Placed
  <2>6. CASE e = "server"
    <3>1. i # 1
      BY <1>1, <1>3, <1>2, <2>6 DEF m
    <3>2. i >= 2 /\ w[(n + i) - 1].more /\ (n + i = 2 \/ ~ w[(n + i) - 2].more)
      BY <2>2, <2>6, <3>1 DEF Placed
    <3>3. u[i - 1].more
      BY <2>4, <3>1, <3>2
    <3>4. i = 2 \/ ~ u[i - 2].more
      <4>1. i # 2 => n + i # 2
        BY <1>1, <3>2
      <4>2. QED
        BY <2>4, <3>1, <3>2, <4>1
    <3>5. QED
      BY <2>3, <2>6, <3>2, <3>3, <3>4 DEF Placed
  <2>7. QED
    BY <2>5, <2>6 DEF Ends
<1>4. QED
  BY <1>2, <1>3 DEF WireFits, u, m

\* What is delivered is what the frames that are sent say.
LEMMA DeliveredIsSaid ==
  ASSUME NEW c, NEW h
  PROVE  Delivered(c, h) = Said(c, PayloadFrames(c, h))
<1> DEFINE fields == [f \in ToSet(PutFields(c.id)) |-> c[f]]
<1>1. Says(c, h) = [id |-> c.id, fields |-> fields,
                    payload |-> IF c.id = RESULT THEN PayloadOf(c, h) ELSE << >>]
  BY DEF Says
<1>2. Said(c, PayloadFrames(c, h)) =
        [id |-> c.id, fields |-> fields,
         payload |-> IF c.id = RESULT THEN <<PayloadFrames(c, h)>> ELSE << >>]
  BY DEF Said
<1> HIDE DEF fields
<1>3. CASE c.id # RESULT
  BY <1>1, <1>2, <1>3 DEF Delivered
<1>4. CASE c.id = RESULT /\ c.payload = 0
  <2>1. Says(c, h) = [id |-> c.id, fields |-> fields, payload |-> << >>]
    BY <1>1, <1>4 DEF PayloadOf
  <2>2. Delivered(c, h) = [id |-> c.id, fields |-> fields, payload |-> << << << >> >> >>]
    BY <1>4, <2>1 DEF Delivered
  <2>3. PayloadFrames(c, h) = << << >> >>
    BY <1>4 DEF PayloadFrames
  <2>4. QED
    BY <1>2, <1>4, <2>2, <2>3
<1>5. CASE c.id = RESULT /\ c.payload # 0
  <2>1. PayloadOf(c, h) = <<h[c.payload]>> /\ PayloadFrames(c, h) = h[c.payload]
    BY <1>5 DEF PayloadOf, PayloadFrames
  <2>2. Delivered(c, h) = Says(c, h)
    BY <1>5 DEF Delivered
  <2>3. QED
    BY <1>1, <1>2, <1>5, <2>1, <2>2
<1>6. QED
  BY <1>3, <1>4, <1>5

\* The message that tpq_codec_send makes is intact.
LEMMA SentIsIntact ==
  ASSUME NEW c \in CodecFits, NEW frames \in Payloads, c.id # RESULT => frames = << >>,
         NEW of, of = IF c.id \in Ids THEN <<Said(c, frames)>> ELSE << >>,
         NEW i \in 1 .. Len(Frames(<<DataFrame(c)>> \o frames, of)),
         Frames(<<DataFrame(c)>> \o frames, of)[i].of # << >>
  PROVE  i = 1 /\ Intact(Frames(<<DataFrame(c)>> \o frames, of), 1)
<1> DEFINE datas == <<DataFrame(c)>> \o frames
           w == Frames(datas, of)
           n == Len(frames)
<1>1. n \in Nat /\ frames \in Seq(Bytes) /\ DataFrame(c) \in Bytes
  BY DataFrameType DEF Payloads
<1>2. <<DataFrame(c)>> \in Seq(Bytes) /\ Len(<<DataFrame(c)>>) = 1
      /\ <<DataFrame(c)>>[1] = DataFrame(c)
  BY <1>1
<1>3. /\ datas \in Seq(Bytes) /\ Len(datas) = 1 + n
      /\ \A j \in 1 .. 1 + n : datas[j] = IF j <= 1 THEN <<DataFrame(c)>>[j] ELSE frames[j - 1]
  BY <1>1, <1>2, ConcatProperties
<1> HIDE DEF datas, n
<1>4. DOMAIN datas = 1 .. 1 + n
  BY <1>3, LenProperties
<1>5. w = [j \in 1 .. 1 + n |-> [data |-> datas[j], more |-> j < 1 + n,
                                 of |-> IF j = 1 THEN of ELSE << >>]]
  BY <1>3, <1>4 DEF Frames
<1>6. Len(w) = 1 + n
  <2>1. 1 + n \in Nat /\ DOMAIN w = 1 .. 1 + n
    BY <1>1, <1>5
  <2> HIDE DEF w
  <2>2. \A s, k : k \in Nat /\ s = [j \in 1 .. k |-> s[j]] => Len(s) = k
    OBVIOUS
  <2>3. w = [j \in 1 .. 1 + n |-> w[j]]
    BY <1>5
  <2>4. QED
    BY <2>1, <2>2, <2>3
<1> HIDE DEF w
<1>7. \A j \in 1 .. 1 + n : /\ w[j].data = datas[j] /\ w[j].more = (j < 1 + n)
                            /\ w[j].of = IF j = 1 THEN of ELSE << >>
  BY <1>5
<1>8. i \in 1 .. 1 + n /\ w[i].of # << >>
  BY <1>6 DEF w, datas
<1>9. i = 1 /\ of # << >>
  BY <1>7, <1>8
<1>10. c.id \in Ids /\ of = <<Said(c, frames)>>
  BY <1>9
<1>11. w[1].data = DataFrame(c) /\ w[1].of = <<Said(c, frames)>>
  <2>1. 1 \in 1 .. 1 + n /\ 1 <= 1
    BY <1>1
  <2>2. datas[1] = DataFrame(c)
    BY <1>2, <1>3, <2>1
  <2>3. QED
    BY <1>7, <1>10, <2>1, <2>2
<1>12. Ended(w, 1, frames)
  <2>1. ASSUME NEW j \in 1 .. n PROVE w[1 + j - 1].more /\ w[1 + j].data = frames[j]
    <3>1. /\ 1 + j - 1 = j /\ j \in 1 .. 1 + n /\ j < 1 + n
          /\ 1 + j \in 1 .. 1 + n /\ ~ (1 + j <= 1) /\ (1 + j) - 1 = j
      BY <1>1
    <3>2. w[j].more /\ w[1 + j].data = datas[1 + j]
      BY <1>7, <3>1
    <3>3. datas[1 + j] = frames[j]
      BY <1>3, <3>1
    <3>4. QED
      BY <3>1, <3>2, <3>3
  <2>2. 1 + n \in 1 .. 1 + n /\ ~ (1 + n < 1 + n)
    BY <1>1
  <2>3. ~ w[1 + n].more
    BY <1>7, <2>2
  <2>4. 1 + n <= Len(w)
    BY <1>1, <1>6
  <2>5. QED
    BY <2>1, <2>3, <2>4 DEF Ended, n
<1>13. Intact(w, 1)
  BY <1>10, <1>11, <1>12 DEF Intact
<1>14. QED
  BY <1>9, <1>13 DEF w, datas

\* The wire stays in order when a message is delivered.
LEMMA DeliverFits ==
  ASSUME Typed, WireInv, NEW e \in Ends, NEW message \in Seq(FrameType),
         \A i \in 1 .. Len(message) :
           message[i].of # << >> => i = 1 /\ Intact(message, 1),
         Deliver(e, message)
  PROVE  WireInv'
<1> DEFINE p == Peer[e]
           first == IF p = "server" THEN <<RoutingFrame>> ELSE << >>
           u == (wire[p] \o first) \o message
<1>1. p \in Ends /\ (p = "server" <=> e = "client")
  BY OwnersFrom DEF Ends
<1>2. first \in Seq(FrameType)
  <2>1. Identity \in Bytes /\ << >> \in Seq(SaidType)
    BY CodecAssumption DEF Bytes
  <2>2. RoutingFrame \in FrameType
    BY <2>1 DEF FrameType, RoutingFrame
  <2>3. QED
    BY <2>2
<1>3. wire \in [Ends -> Seq(FrameType)] /\ \A x \in Ends : EndsWhole(wire[x])
  BY DEF Typed
<1>4. wire' = [wire EXCEPT ![p] = u]
  BY <1>1 DEF Deliver, RoutingFrame
<1> HIDE DEF p
<1>5. WireFits(p, u)
  <2>1. wire[p] \in Seq(FrameType) /\ EndsWhole(wire[p]) /\ WireFits(p, wire[p])
    BY <1>1, <1>3 DEF WireInv
  <2> HIDE DEF first
  <2>2. first = IF p = "server" THEN <<RoutingFrame>> ELSE << >>
    BY DEF first
  <2>3. QED
    BY <1>1, <1>2, <2>1, <2>2, Appended
<1> HIDE DEF u
<1>6. QED
  BY <1>1, <1>3, <1>4, <1>5 DEF WireInv

\* Both ways of sending keep the wire in order.
LEMMA SendFits ==
  ASSUME Typed, OneOwner, WireInv, NEW e \in Ends, tpq_codec_send(e) \/ SendShort(e)
  PROVE  WireInv'
<1> DEFINE c == codec[e]
           frames == PayloadFrames(c, heap)
           of == IF c.id \in Ids THEN <<Delivered(c, heap)>> ELSE << >>
<1>1. /\ c \in CodecFits /\ HeapFits(heap) /\ (c.payload = 0 \/ c.payload \in DOMAIN heap)
  BY OwnedAlive DEF Typed
<1>2. frames \in Payloads /\ (c.id # RESULT => frames = << >>)
  BY <1>1, PayloadFramesType DEF Payloads, PayloadFrames
<1>3. of = (IF c.id \in Ids THEN <<Said(c, frames)>> ELSE << >>) /\ of \in Seq(SaidType)
  <2>1. Delivered(c, heap) = Said(c, frames)
    BY DeliveredIsSaid
  <2>2. Delivered(c, heap) \in SaidType
    BY <1>1, SaysType
  <2>3. QED
    BY <2>1, <2>2
<1>4. CASE tpq_codec_send(e)
  <2> DEFINE datas == <<DataFrame(c)>> \o frames
             message == Frames(datas, of)
  <2>1. Deliver(e, message) \/ UNCHANGED wire
    BY <1>4 DEF tpq_codec_send
  <2>2. DataFrame(c) \in Bytes
    BY <1>1, DataFrameType
  <2>3. datas \in Seq(Bytes) /\ datas # << >>
    BY <1>1, <2>2, MessageType
  <2> HIDE DEF of, frames, c
  <2>4. \A i \in 1 .. Len(message) : message[i].of # << >> => i = 1 /\ Intact(message, 1)
    BY <1>1, <1>2, <1>3, SentIsIntact
  <2> HIDE DEF datas
  <2>5. message \in Seq(FrameType)
    BY <1>3, <2>3, FramesType
  <2> HIDE DEF message
  <2>6. CASE Deliver(e, message)
    BY <2>4, <2>5, <2>6, DeliverFits
  <2>7. CASE UNCHANGED wire
    BY <2>7 DEF WireInv
  <2>8. QED
    BY <2>1, <2>6, <2>7
<1>5. CASE SendShort(e)
  <2>1. PICK n \in {k \in Cuts : k < Len(DataFrame(c))} :
          Deliver(e, Frames(<<SubSeq(DataFrame(c), 1, n)>> \o PayloadFrames(c, heap),
                            << >>))
    BY <1>5 DEF SendShort
  <2>2. DataFrame(c) \in Bytes /\ Len(DataFrame(c)) \in Nat
    BY <1>1, DataFrameType DEF Bytes
  <2>3. n \in Nat /\ n <= Len(DataFrame(c))
    BY <2>1, <2>2, MessagesAssumption
  <2> DEFINE data == SubSeq(DataFrame(c), 1, n)
             datas == <<data>> \o PayloadFrames(c, heap)
             message == Frames(datas, << >>)
  <2>4. data \in Bytes
    BY <2>2, <2>3, RestType
  <2> HIDE DEF data
  <2>5. datas \in Seq(Bytes) /\ datas # << >>
    BY <1>1, <2>4, MessageType
  <2>6. Deliver(e, message)
    BY <2>1 DEF data
  <2> HIDE DEF datas
  <2>7. << >> \in Seq(SaidType)
    OBVIOUS
  <2>8. message \in Seq(FrameType) /\ Len(message) = Len(datas)
    BY <2>5, <2>7, FramesType
  <2>9. DOMAIN datas = 1 .. Len(datas)
    BY <2>5, LenProperties
  <2>10. \A i \in 1 .. Len(message) : message[i].of = << >>
    BY <2>8, <2>9 DEF Frames
  <2> HIDE DEF message
  <2>11. QED
    BY <2>6, <2>8, <2>10, DeliverFits
<1>6. QED
  BY <1>4, <1>5


-----------------------------------------------------------------------------
(***************************************************************************)
(* Receiving.                                                              *)
(***************************************************************************)

\* The frames that a receive takes leave the wire in order.
LEMMA ReceiveDataFits ==
  ASSUME Typed, WireInv, NEW e \in Ends, NEW c, NEW i \in 1 .. Len(wire[e]),
         e = "server" => i = 2 /\ wire[e][1].more, ReceiveData(e, c, i)
  PROVE  WireInv'
<1> DEFINE w == wire[e]
           p == Parse(c, w[i].data)
           whole == p.codec.id = RESULT /\ ~ p.short
           rest == RestOfMessage(w, i + 1)
           tail == IF whole THEN rest ELSE << >>
           n == i + Len(tail)
           left == SubSeq(w, n + 1, Len(w))
<1>1. /\ w \in Seq(FrameType) /\ EndsWhole(w) /\ Len(w) \in Nat /\ WireFits(e, w)
      /\ wire \in [Ends -> Seq(FrameType)]
  BY DEF Typed, WireInv
<1>2. wire' = [wire EXCEPT ![e] = SubSeq(w, i + 1 + Len(tail), Len(w))]
  BY DEF ReceiveData
<1>3. i \in 1 .. Len(w) /\ i \in Nat /\ i + 1 \in 2 .. Len(w) + 1 /\ (i + 1) - 1 = i
  BY <1>1
<1> HIDE DEF w, rest
<1>4. /\ Len(rest) \in 0 .. Len(w) - i
      /\ ~ w[i].more => rest = << >>
      /\ w[i].more => Len(rest) > 0 /\ ~ w[i + Len(rest)].more
  BY <1>1, <1>3, RestOfMessageFacts DEF rest
<1>5. Len(tail) \in 0 .. Len(w) - i
  BY <1>1, <1>4
<1>6. ASSUME e = "server", n < Len(w)
      PROVE  w[n + 1].of = << >>
  <2>1. i = 2 /\ w[1].more
    BY <1>6 DEF w
  <2>2. n + 1 \in 1 .. Len(w) /\ (n + 1) - 1 = n /\ (n + 1) - 2 = n - 1 /\ n >= 2
    BY <1>1, <1>5, <1>6, <2>1
  <2> SUFFICES ASSUME w[n + 1].of # << >>
               PROVE  FALSE
    OBVIOUS
  <2>3. Placed(e, w, n + 1)
    BY <1>1, <2>2 DEF WireFits
  <2>4. w[n].more /\ (n + 1 = 2 \/ ~ w[n - 1].more)
    BY <1>6, <2>2, <2>3 DEF Placed
  <2>5. CASE tail = << >>
    <3>1. n = 2 /\ n - 1 = 1
      BY <2>1, <2>5
    <3>2. QED
      BY <2>1, <2>4, <3>1
  <2>6. CASE tail # << >>
    <3>1. tail = rest
      BY <2>6
    <3>2. w[i].more
      BY <1>4, <2>6, <3>1
    <3>3. ~ w[n].more
      BY <1>4, <3>1, <3>2
    <3>4. QED
      BY <2>4, <3>3
  <2>7. QED
    BY <2>5, <2>6
<1> HIDE DEF tail
<1>7. n \in 0 .. Len(w) /\ i + 1 + Len(tail) = n + 1
  BY <1>1, <1>3, <1>5
<1> HIDE DEF n
<1>8. WireFits(e, left)
  BY <1>1, <1>6, <1>7, Dropped
<1>9. wire' = [wire EXCEPT ![e] = left]
  BY <1>2, <1>7
<1> HIDE DEF left
<1>10. QED
  BY <1>1, <1>8, <1>9 DEF WireInv

\* tpq_codec_recv, with the routing frame a ROUTER begins with.
LEMMA ReceiveFits ==
  ASSUME Typed, WireInv, NEW e \in Ends, tpq_codec_recv(e)
  PROVE  WireInv'
<1> DEFINE named == [codec[e] EXCEPT !.routing_id = <<wire[e][1].data>>]
<1>1. /\ wire \in [Ends -> Seq(FrameType)] /\ wire[e] # << >> /\ EndsWhole(wire[e])
      /\ WireFits(e, wire[e])
  BY DEF Typed, WireInv, tpq_codec_recv
<1>2. Len(wire[e]) \in Nat \ {0}
  BY <1>1, EmptySeq
<1>3. \/ e = "client" /\ ReceiveData(e, codec[e], 1)
      \/ e = "server" /\ wire[e][1].more /\ ReceiveData(e, named, 2)
      \/ e = "server" /\ ~ wire[e][1].more /\ wire' = [wire EXCEPT ![e] = Tail(@)]
  BY DEF tpq_codec_recv, Ends
<1> HIDE DEF named
<1>4. CASE e = "client" /\ ReceiveData(e, codec[e], 1)
  <2>1. 1 \in 1 .. Len(wire[e]) /\ e # "server"
    BY <1>2, <1>4
  <2>2. QED
    BY <1>4, <2>1, ReceiveDataFits
<1>5. CASE e = "server" /\ wire[e][1].more /\ ReceiveData(e, named, 2)
  <2>1. 2 \in 1 .. Len(wire[e])
    BY <1>1, <1>2, <1>5 DEF EndsWhole
  <2>2. QED
    BY <1>5, <2>1, ReceiveDataFits
<1>6. CASE e = "server" /\ ~ wire[e][1].more /\ wire' = [wire EXCEPT ![e] = Tail(@)]
  <2> DEFINE w == wire[e]
             left == SubSeq(w, 1 + 1, Len(w))
  <2>1. Tail(w) = left
    BY <1>1, TailIsSubSeq
  <2>2. ASSUME 1 < Len(w), w[1 + 1].of # << >>
        PROVE  FALSE
    <3>1. 1 + 1 \in 1 .. Len(w) /\ (1 + 1) - 1 = 1
      BY <1>2, <2>2
    <3>2. Placed(e, w, 1 + 1)
      BY <1>1, <2>2, <3>1 DEF WireFits
    <3>3. QED
      BY <1>6, <3>1, <3>2 DEF Placed
  <2>3. 1 \in 0 .. Len(w)
    BY <1>2
  <2>4. WireFits(e, left)
    BY <1>1, <2>2, <2>3, Dropped
  <2>5. wire' = [wire EXCEPT ![e] = left]
    BY <1>6, <2>1
  <2> HIDE DEF left
  <2>6. QED
    BY <1>1, <2>4, <2>5 DEF WireInv
<1>7. QED
  BY <1>3, <1>4, <1>5, <1>6

\* The frames of an intact RESULT are found behind its data frame.
LEMMA PayloadFound ==
  ASSUME NEW w \in Seq(FrameType), EndsWhole(w), NEW i \in 1 .. Len(w),
         NEW frames \in Payloads, Ended(w, i, frames)
  PROVE  LET tail == RestOfMessage(w, i + 1)
         IN  [j \in DOMAIN tail |-> tail[j].data] = frames
<1> DEFINE tail == RestOfMessage(w, i + 1)
           L == Len(tail)
           F == Len(frames)
           datas == [j \in DOMAIN tail |-> tail[j].data]
<1>1. Len(w) \in Nat /\ i \in Nat /\ i + 1 \in 2 .. Len(w) + 1 /\ (i + 1) - 1 = i
  OBVIOUS
<1>2. /\ tail \in Seq(FrameType) /\ L \in Nat
      /\ \A j \in 1 .. L : tail[j] = w[i + j]
      /\ ~ w[i].more => tail = << >>
      /\ w[i].more => /\ L > 0 /\ ~ w[i + L].more
                      /\ \A j \in i + 1 .. (i + L) - 1 : w[j].more
  <2>1. /\ tail \in Seq(FrameType) /\ L \in 0 .. (Len(w) - ((i + 1) - 1))
        /\ \A j \in 1 .. L : tail[j] = w[((i + 1) - 1) + j]
        /\ ~ w[(i + 1) - 1].more => tail = << >>
        /\ w[(i + 1) - 1].more =>
             /\ L > 0 /\ ~ w[((i + 1) - 1) + L].more
             /\ \A j \in i + 1 .. (((i + 1) - 1) + L) - 1 : w[j].more
    BY <1>1, RestOfMessageFacts
  <2> HIDE DEF tail, L
  <2>2. L \in Nat
    BY <2>1
  <2>3. QED
    BY <1>1, <2>1, <2>2
<1>3. /\ F \in Nat /\ ~ w[i + F].more
      /\ \A j \in 1 .. F : w[i + j - 1].more /\ w[i + j].data = frames[j]
  BY DEF Ended, Payloads
<1>4. DOMAIN tail = 1 .. L /\ DOMAIN frames = 1 .. F /\ frames = [j \in 1 .. F |-> frames[j]]
  <2>1. frames \in Seq(Bytes)
    BY DEF Payloads
  <2>2. QED
    BY <1>2, <2>1, LenProperties
<1>5. (L = 0 <=> ~ w[i].more)
  <2>1. Len(<< >>) = 0
    OBVIOUS
  <2>2. QED
    BY <1>2, <2>1
<1> HIDE DEF tail, L, F
<1>6. L = F
  <2>1. CASE F = 0
    <3>1. ~ w[i].more
      BY <1>1, <1>3, <2>1
    <3>2. QED
      BY <1>5, <2>1, <3>1
  <2>2. CASE F > 0
    <3>1. w[i].more
      <4>1. 1 \in 1 .. F /\ i + 1 - 1 = i
        BY <1>1, <1>3, <2>2
      <4>2. QED
        BY <1>3, <4>1
    <3>2. ~ (L < F)
      <4>1. ASSUME L < F PROVE FALSE
        <5>1. L + 1 \in 1 .. F /\ i + (L + 1) - 1 = i + L
          BY <1>1, <1>2, <1>3, <4>1
        <5>2. QED
          BY <1>2, <1>3, <3>1, <5>1
      <4>2. QED
        BY <4>1
    <3>3. ~ (F < L)
      <4>1. ASSUME F < L PROVE FALSE
        <5>1. i + F \in i + 1 .. (i + L) - 1
          BY <1>1, <1>2, <1>3, <2>2, <4>1
        <5>2. QED
          BY <1>2, <1>3, <3>1, <5>1
      <4>2. QED
        BY <4>1
    <3>4. QED
      BY <1>2, <1>3, <3>2, <3>3
  <2>3. QED
    BY <1>3, <2>1, <2>2
<1>7. datas = [j \in 1 .. F |-> frames[j]]
  <2>1. \A j \in 1 .. F : tail[j].data = frames[j]
    BY <1>2, <1>3, <1>6
  <2>2. QED
    BY <1>4, <1>6, <2>1
<1>8. QED
  BY <1>4, <1>7 DEF tail

\* An intact message is accepted, and the object then says what was sent.
LEMMA IntactIsReceived ==
  ASSUME Typed, WireInv, NEW e \in Ends, NEW c0 \in CodecFits, NEW i \in 1 .. Len(wire[e]),
         ReceiveData(e, c0, i), wire[e][i].of # << >>
  PROVE  got'[e].rc = 0 /\ Says(codec'[e], heap') = got'[e].of[1]
<1> DEFINE w == wire[e]
           p == Parse(c0, w[i].data)
           whole == p.codec.id = RESULT /\ ~ p.short
           tail == RestOfMessage(w, i + 1)
           datas == [j \in DOMAIN tail |-> tail[j].data]
           freed == Destroy(heap, c0.payload)
<1>1. /\ w \in Seq(FrameType) /\ EndsWhole(w) /\ WireFits(e, w)
      /\ codec \in [Ends -> CodecFits] /\ got \in [Ends -> AnswerType]
  BY DEF Typed, WireInv
<1>2. /\ got' = [got EXCEPT ![e] = [rc |-> p.rc, of |-> w[i].of]]
      /\ \/ /\ whole /\ FreshIds(freed) # {}
            /\ codec' = [codec EXCEPT ![e] = [p.codec EXCEPT !.payload = Fresh(freed)]]
            /\ heap' = Alloc(freed, datas)
         \/ ~ whole /\ codec' = [codec EXCEPT ![e] = p.codec]
  BY DEF ReceiveData
<1>3. PICK c \in CodecFits, frames \in Payloads :
        /\ c.id \in Ids /\ (c.id # RESULT => frames = << >>)
        /\ w[i].data = DataFrame(c) /\ w[i].of = <<Said(c, frames)>>
        /\ Ended(w, i, frames)
  BY <1>1 DEF WireFits, Intact
<1>4. datas = frames
  BY <1>1, <1>3, PayloadFound
<1>5. p = Parse(c0, DataFrame(c))
  BY <1>3
<1> HIDE DEF p
<1>6. /\ p.rc = 0 /\ p.short = FALSE /\ p.codec.id = c.id
      /\ \A f \in ToSet(PutFields(c.id)) : p.codec[f] = c[f]
  BY <1>3, <1>5, ParseRoundTrip
<1>7. p.codec \in CodecFits
  <2>1. DataFrame(c) \in Bytes
    BY <1>3, DataFrameType
  <2>2. QED
    BY <1>5, <2>1, ParseType
<1>8. got'[e].rc = 0 /\ got'[e].of[1] = Said(c, frames)
  <2>1. got'[e] = [rc |-> p.rc, of |-> w[i].of]
    BY <1>1, <1>2
  <2>2. QED
    BY <1>3, <1>6, <2>1
<1> HIDE DEF w, tail, datas, freed
<1>9. CASE /\ whole /\ FreshIds(freed) # {}
           /\ codec' = [codec EXCEPT ![e] = [p.codec EXCEPT !.payload = Fresh(freed)]]
           /\ heap' = Alloc(freed, datas)
  <2> DEFINE o == Fresh(freed)
             d == [p.codec EXCEPT !.payload = o]
  <2>1. o # 0 /\ heap'[o] = frames
    BY <1>4, <1>9, AllocFacts
  <2>2. codec'[e] = d
    BY <1>1, <1>9
  <2> HIDE DEF o
  <2>3. DOMAIN p.codec = FieldNames /\ p.codec \in CodecType
    BY <1>7, FieldsType
  <2>4. ToSet(PutFields(c.id)) \subseteq FieldNames \ {"payload"}
    <3>1. ToSet(PutFields(c.id)) \subseteq Strings \cup Numbers
      BY FieldsOfMessage DEF ToSet
    <3>2. QED
      BY <3>1 DEF Strings, Numbers, FieldNames
  <2>5. d.id = p.codec.id /\ d.payload = o
        /\ \A f \in ToSet(PutFields(c.id)) : d[f] = p.codec[f]
    BY <2>3, <2>4 DEF FieldNames
  <2> HIDE DEF d
  <2>6. d.id = c.id /\ \A f \in ToSet(PutFields(c.id)) : d[f] = c[f]
    BY <1>6, <2>5
  <2>7. Says(d, heap') = Said(c, frames)
    BY <2>1, <2>5, <2>6, SaysSame
  <2>8. QED
    BY <1>8, <2>2, <2>7
<1>10. CASE ~ whole /\ codec' = [codec EXCEPT ![e] = p.codec]
  <2>1. c.id # RESULT
    BY <1>6, <1>10
  <2>2. codec'[e] = p.codec
    BY <1>1, <1>10
  <2>3. Says(p.codec, heap') = Said(c, frames)
    BY <1>6, <2>1, SaysSame
  <2>4. QED
    BY <1>8, <2>2, <2>3
<1>11. QED
  BY <1>2, <1>9, <1>10 DEF datas, tail, freed


-----------------------------------------------------------------------------
(***************************************************************************)
(* Every call keeps what was received and what was copied.                 *)
(***************************************************************************)

\* What an end received is still there unless the end has changed its object.
LEMMA ReceivedKept ==
  ASSUME ReceivedIsSent, NEW e \in Ends, got'[e] = got[e], codec'[e].id = codec[e].id,
         codec'[e].payload = codec[e].payload,
         \A f \in Strings \cup Numbers : codec'[e][f] = codec[e][f],
         Untouched(codec[e].payload)
  PROVE  got'[e].of # << >> => got'[e].rc = 0 /\ Says(codec'[e], heap') = got'[e].of[1]
<1>1. Says(codec'[e], heap') = Says(codec[e], heap)
  BY SaysKept
<1>2. got[e].of # << >> => got[e].rc = 0 /\ Says(codec[e], heap) = got[e].of[1]
  BY DEF ReceivedIsSent
<1>3. QED
  BY <1>1, <1>2

\* A call that leaves both objects and what they own as they are.
LEMMA NothingReceived ==
  ASSUME ReceivedIsSent, UNCHANGED <<codec, got>>,
         \A e \in Ends : Untouched(codec[e].payload)
  PROVE  ReceivedIsSent'
<1>1. ASSUME NEW e \in Ends
      PROVE  got'[e].of # << >> => got'[e].rc = 0 /\ Says(codec'[e], heap') = got'[e].of[1]
  BY ReceivedKept
<1>2. QED
  BY <1>1 DEF ReceivedIsSent

\* A call of one end: it makes its own answer good, or has none, and leaves
\* what the other end and the copy own.
LEMMA OneEnd ==
  ASSUME ReceivedIsSent, CopyIsFaithful, NEW e \in Ends,
         got'[e].of # << >> => got'[e].rc = 0 /\ Says(codec'[e], heap') = got'[e].of[1],
         got'[Peer[e]] = got[Peer[e]], codec'[Peer[e]] = codec[Peer[e]],
         UNCHANGED copy, Untouched(codec[Peer[e]].payload), Untouched(Copied)
  PROVE  ReceivedIsSent' /\ CopyIsFaithful'
<1>1. Peer[e] \in Ends /\ Ends = {e, Peer[e]}
  BY OwnersFrom
<1>2. got'[Peer[e]].of # << >> =>
        got'[Peer[e]].rc = 0 /\ Says(codec'[Peer[e]], heap') = got'[Peer[e]].of[1]
  BY <1>1, ReceivedKept
<1>3. \A x \in Ends : got'[x].of # << >> =>
        got'[x].rc = 0 /\ Says(codec'[x], heap') = got'[x].of[1]
  BY <1>1, <1>2
<1>4. QED
  BY <1>3, CopyKept DEF ReceivedIsSent

\* A receive.
LEMMA ReceiveSays ==
  ASSUME Typed, OneOwner, WireInv, ReceivedIsSent, CopyIsFaithful, NEW e \in Ends,
         tpq_codec_recv(e)
  PROVE  ReceivedIsSent' /\ CopyIsFaithful'
<1> DEFINE first == wire[e][1].data
           named == [codec[e] EXCEPT !.routing_id = <<first>>]
<1>1. /\ wire \in [Ends -> Seq(FrameType)] /\ wire[e] # << >> /\ EndsWhole(wire[e])
      /\ WireFits(e, wire[e]) /\ codec \in [Ends -> CodecFits] /\ got \in [Ends -> AnswerType]
  BY DEF Typed, WireInv, tpq_codec_recv
<1>2. Len(wire[e]) \in Nat \ {0}
  BY <1>1, EmptySeq
<1>3. first \in Bytes
  <2>1. wire[e][1] \in FrameType
    BY <1>1, <1>2, ElementOfSeq
  <2>2. QED
    BY <2>1 DEF FrameType
<1>4. \/ e = "client" /\ ReceiveData(e, codec[e], 1)
      \/ e = "server" /\ wire[e][1].more /\ ReceiveData(e, named, 2)
      \/ /\ e = "server" /\ ~ wire[e][1].more
         /\ codec' = [codec EXCEPT ![e] = named]
         /\ got' = [got EXCEPT ![e] = [rc |-> -1, of |-> wire[e][1].of]]
         /\ UNCHANGED <<copy, text, held, heap>>
  BY DEF tpq_codec_recv, Ends
<1>5. named \in CodecFits /\ named.payload = codec[e].payload
  BY <1>1, <1>3, RoutingIdSet
<1> HIDE DEF named, first
<1>6. ASSUME NEW c \in CodecFits, c.payload = codec[e].payload,
             NEW i \in 1 .. Len(wire[e]), ReceiveData(e, c, i)
      PROVE  ReceivedIsSent' /\ CopyIsFaithful'
  <2>1. wire[e][i].of # << >> => got'[e].rc = 0 /\ Says(codec'[e], heap') = got'[e].of[1]
    BY <1>6, IntactIsReceived
  <2>2. \E after, answer, frames :
          /\ codec' = [codec EXCEPT ![e] = after] /\ got' = [got EXCEPT ![e] = answer]
          /\ answer.of = wire[e][i].of /\ UNCHANGED copy
          /\ \/ heap' = heap
             \/ /\ FreshIds(Destroy(heap, c.payload)) # {}
                /\ heap' = Alloc(Destroy(heap, c.payload), frames)
    BY <1>6 DEF ReceiveData
  <2>3. PICK after, answer, frames :
          /\ codec' = [codec EXCEPT ![e] = after] /\ got' = [got EXCEPT ![e] = answer]
          /\ answer.of = wire[e][i].of /\ UNCHANGED copy
          /\ \/ heap' = heap
             \/ /\ FreshIds(Destroy(heap, c.payload)) # {}
                /\ heap' = Alloc(Destroy(heap, c.payload), frames)
    BY <2>2
  <2>4. /\ got'[e].of = wire[e][i].of /\ got'[Peer[e]] = got[Peer[e]]
        /\ codec'[Peer[e]] = codec[Peer[e]]
    BY <1>1, <2>3, OwnersFrom
  <2>5. Untouched(codec[Peer[e]].payload) /\ Untouched(Copied)
    BY <1>6, <2>3, OthersUntouched
  <2>6. QED
    BY <2>1, <2>3, <2>4, <2>5, OneEnd
<1>7. CASE e = "client" /\ ReceiveData(e, codec[e], 1)
  <2>1. 1 \in 1 .. Len(wire[e]) /\ codec[e] \in CodecFits
    BY <1>1, <1>2
  <2>2. QED
    BY <1>6, <1>7, <2>1
<1>8. CASE e = "server" /\ wire[e][1].more /\ ReceiveData(e, named, 2)
  <2>1. 2 \in 1 .. Len(wire[e])
    BY <1>1, <1>2, <1>8 DEF EndsWhole
  <2>2. QED
    BY <1>5, <1>6, <1>8, <2>1
<1>9. CASE /\ e = "server" /\ ~ wire[e][1].more
           /\ codec' = [codec EXCEPT ![e] = named]
           /\ got' = [got EXCEPT ![e] = [rc |-> -1, of |-> wire[e][1].of]]
           /\ UNCHANGED <<copy, text, held, heap>>
  <2>1. wire[e][1].of = << >>
    <3>1. 1 \in 1 .. Len(wire[e])
      BY <1>2
    <3>2. ASSUME wire[e][1].of # << >> PROVE FALSE
      <4>1. Placed(e, wire[e], 1)
        BY <1>1, <3>1, <3>2 DEF WireFits
      <4>2. QED
        BY <1>9, <4>1 DEF Placed
    <3>3. QED
      BY <3>2
  <2>2. /\ got'[e].of = << >> /\ got'[Peer[e]] = got[Peer[e]]
        /\ codec'[Peer[e]] = codec[Peer[e]]
    BY <1>1, <1>9, <2>1, OwnersFrom
  <2>3. Untouched(codec[Peer[e]].payload) /\ Untouched(Copied)
    BY <1>9 DEF Untouched
  <2>4. QED
    BY <1>9, <2>2, <2>3, OneEnd
<1>10. QED
  BY <1>4, <1>7, <1>8, <1>9

\* A call that changes the object of one end, which then has no answer to show.
LEMMA ObjectChanged ==
  ASSUME Typed, OneOwner, ReceivedIsSent, CopyIsFaithful, NEW e \in Ends,
         NEW after, NEW answer, answer.of = << >>,
         codec' = [codec EXCEPT ![e] = after], got' = [got EXCEPT ![e] = answer],
         UNCHANGED copy, NEW frames,
         \/ heap' = heap
         \/ heap' = Destroy(heap, codec[e].payload)
         \/ /\ FreshIds(Destroy(heap, codec[e].payload)) # {}
            /\ heap' = Alloc(Destroy(heap, codec[e].payload), frames)
  PROVE  ReceivedIsSent' /\ CopyIsFaithful'
<1>1. codec \in [Ends -> CodecFits] /\ got \in [Ends -> AnswerType]
  BY DEF Typed
<1>2. /\ got'[e].of = << >> /\ got'[Peer[e]] = got[Peer[e]]
      /\ codec'[Peer[e]] = codec[Peer[e]]
  BY <1>1, OwnersFrom
<1>3. Untouched(codec[Peer[e]].payload) /\ Untouched(Copied)
  BY OthersUntouched
<1>4. QED
  BY <1>2, <1>3, OneEnd

\* Setters, an interrupted receive, the payload taken and given.
LEMMA ChangeSays ==
  ASSUME Typed, OneOwner, ReceivedIsSent, CopyIsFaithful, NEW e \in Ends,
         \/ Compose(e) \/ Interrupt(e) \/ tpq_codec_get_payload(e)
         \/ tpq_codec_set_payload(e)
  PROVE  ReceivedIsSent' /\ CopyIsFaithful'
<1>1. codec \in [Ends -> CodecFits] /\ got \in [Ends -> AnswerType]
  BY DEF Typed
<1>2. CASE Compose(e)
  <2>1. PICK m \in Messages[e] :
          LET c == Set([codec[e] EXCEPT !.id = m.id], m.set)
              freed == Destroy(heap, c.payload)
          IN  IF m.payload = << >>
              THEN codec' = [codec EXCEPT ![e] = c] /\ UNCHANGED heap
              ELSE /\ FreshIds(freed) # {}
                   /\ codec' = [codec EXCEPT ![e] = [c EXCEPT !.payload = Fresh(freed)]]
                   /\ heap' = Alloc(freed, m.payload[1])
    BY <1>2 DEF Compose
  <2>2. UNCHANGED copy /\ got' = [got EXCEPT ![e] = [rc |-> 0, of |-> << >>]]
    BY <1>2 DEF Compose
  <2> DEFINE c == Set([codec[e] EXCEPT !.id = m.id], m.set)
  <2>3. c.payload = codec[e].payload
    BY <1>1, SetType
  <2>4. \/ codec' = [codec EXCEPT ![e] = c] /\ heap' = heap
        \/ /\ FreshIds(Destroy(heap, c.payload)) # {}
           /\ codec' = [codec EXCEPT ![e] = [c EXCEPT !.payload =
                                               Fresh(Destroy(heap, c.payload))]]
           /\ heap' = Alloc(Destroy(heap, c.payload), m.payload[1])
    BY <2>1
  <2> HIDE DEF c
  <2>5. [rc |-> 0, of |-> << >>].of = << >>
    OBVIOUS
  <2>6. \E after, frames :
          /\ codec' = [codec EXCEPT ![e] = after]
          /\ \/ heap' = heap
             \/ /\ FreshIds(Destroy(heap, codec[e].payload)) # {}
                /\ heap' = Alloc(Destroy(heap, codec[e].payload), frames)
    BY <2>3, <2>4
  <2>7. QED
    BY <2>2, <2>5, <2>6, ObjectChanged
<1>3. CASE Interrupt(e)
  <2>1. \E after : codec' = [codec EXCEPT ![e] = after]
    <3>1. codec = [codec EXCEPT ![e] = codec[e]]
      BY <1>1
    <3>2. \/ codec' = codec
          \/ codec' = [codec EXCEPT ![e] = [codec[e] EXCEPT !.routing_id = << >>]]
      BY <1>3 DEF Interrupt
    <3>3. QED
      BY <3>1, <3>2
  <2>2. [rc |-> -1, of |-> << >>].of = << >>
    OBVIOUS
  <2>3. UNCHANGED <<copy, heap>> /\ got' = [got EXCEPT ![e] = [rc |-> -1, of |-> << >>]]
    BY <1>3 DEF Interrupt
  <2>4. QED
    BY <2>1, <2>2, <2>3, ObjectChanged
<1>4. ASSUME NEW after, NEW answer, answer = [got[e] EXCEPT !.of = << >>],
             codec' = [codec EXCEPT ![e] = after], got' = [got EXCEPT ![e] = answer],
             UNCHANGED copy, heap' = heap \/ heap' = Destroy(heap, codec[e].payload)
      PROVE  ReceivedIsSent' /\ CopyIsFaithful'
  <2>1. answer.of = << >>
    BY <1>1, <1>4 DEF AnswerType
  <2>2. QED
    BY <1>4, <2>1, ObjectChanged
<1>5. CASE tpq_codec_get_payload(e)
  <2>1. /\ codec' = [codec EXCEPT ![e] = [codec[e] EXCEPT !.payload = 0]]
        /\ got' = [got EXCEPT ![e] = [got[e] EXCEPT !.of = << >>]]
        /\ UNCHANGED copy /\ heap' = heap
    BY <1>5 DEF tpq_codec_get_payload
  <2>2. QED
    BY <1>4, <2>1
<1>6. CASE tpq_codec_set_payload(e)
  <2>1. /\ codec' = [codec EXCEPT ![e] = [codec[e] EXCEPT !.payload = held]]
        /\ got' = [got EXCEPT ![e] = [got[e] EXCEPT !.of = << >>]]
        /\ UNCHANGED copy /\ heap' = Destroy(heap, codec[e].payload)
    BY <1>6 DEF tpq_codec_set_payload
  <2>2. QED
    BY <1>4, <2>1
<1>7. QED
  BY <1>2, <1>3, <1>5, <1>6

\* Calls on copies and texts, and those that send or address an object.
LEMMA OtherSays ==
  ASSUME Typed, OneOwner, TextInv, ReceivedIsSent, CopyIsFaithful,
         \/ \E e \in Ends : \/ tpq_codec_send(e) \/ SendShort(e) \/ tpq_codec_dup(e)
                            \/ tpq_codec_zpl(e)
         \/ tpq_codec_set_routing_id("server") \/ DestroyPayload
         \/ tpq_codec_destroy \/ EditText \/ tpq_codec_new_zpl
  PROVE  ReceivedIsSent' /\ CopyIsFaithful'
<1>1. ASSUME UNCHANGED <<codec, copy, got, heap>>
      PROVE  ReceivedIsSent' /\ CopyIsFaithful'
  <2>1. \A m : Untouched(m)
    BY <1>1 DEF Untouched
  <2>2. QED
    BY <1>1, <2>1, NothingReceived, CopyKept
<1>2. ASSUME NEW e \in Ends, tpq_codec_send(e) \/ SendShort(e) \/ tpq_codec_zpl(e)
      PROVE  ReceivedIsSent' /\ CopyIsFaithful'
  <2>1. UNCHANGED <<codec, copy, got, heap>>
    BY <1>2 DEF tpq_codec_send, SendShort, tpq_codec_zpl
  <2>2. QED
    BY <1>1, <2>1
<1>3. CASE EditText
  <2>1. UNCHANGED <<codec, copy, got, heap>>
    BY <1>3 DEF EditText
  <2>2. QED
    BY <1>1, <2>1
<1>4. CASE tpq_codec_set_routing_id("server")
  <2>1. /\ codec' = [codec EXCEPT !["server"] =
                       [codec["server"] EXCEPT !.routing_id = <<Identity>>]]
        /\ UNCHANGED <<copy, got, heap>>
    BY <1>4 DEF tpq_codec_set_routing_id
  <2>2. codec \in [Ends -> CodecFits]
    BY DEF Typed
  <2>3. \A c \in CodecFits :
          LET d == [c EXCEPT !.routing_id = <<Identity>>]
          IN  /\ d.id = c.id /\ d.payload = c.payload
              /\ \A f \in Strings \cup Numbers : d[f] = c[f]
    BY DEF CodecFits, CodecType, Strings, Numbers
  <2>4. ASSUME NEW e \in Ends
        PROVE  /\ codec'[e].id = codec[e].id /\ codec'[e].payload = codec[e].payload
               /\ \A f \in Strings \cup Numbers : codec'[e][f] = codec[e][f]
    <3>1. "server" \in Ends
      BY DEF Ends
    <3>2. codec'[e] = codec[e] \/ codec'[e] = [codec[e] EXCEPT !.routing_id = <<Identity>>]
      BY <2>1, <2>2, <3>1
    <3>3. QED
      BY <2>2, <2>3, <3>2
  <2>5. \A m : Untouched(m)
    BY <2>1 DEF Untouched
  <2>6. ASSUME NEW e \in Ends
        PROVE  got'[e].of # << >> =>
                 got'[e].rc = 0 /\ Says(codec'[e], heap') = got'[e].of[1]
    BY <2>1, <2>4, <2>5, ReceivedKept
  <2>7. ReceivedIsSent'
    BY <2>6 DEF ReceivedIsSent
  <2>8. QED
    BY <2>1, <2>5, <2>7, CopyKept
<1>5. ASSUME UNCHANGED <<codec, got>>, NEW frames,
             \/ heap' = heap
             \/ heap' = Destroy(heap, Copied) \/ heap' = Destroy(heap, held)
             \/ FreshIds(heap) # {} /\ heap' = Alloc(heap, frames)
      PROVE  ReceivedIsSent'
  <2>1. \A e \in Ends : Untouched(codec[e].payload)
    BY <1>5, EndsUntouched
  <2>2. QED
    BY <1>5, <2>1, NothingReceived
<1>6. CASE DestroyPayload
  <2>1. UNCHANGED <<codec, got, copy>> /\ heap' = Destroy(heap, held)
    BY <1>6 DEF DestroyPayload
  <2>2. ReceivedIsSent'
    BY <1>5, <2>1
  <2>3. Untouched(Copied)
    BY <2>1, EndsUntouched
  <2>4. QED
    BY <2>1, <2>2, <2>3, CopyKept
<1>7. CASE tpq_codec_destroy
  <2>1. UNCHANGED <<codec, got>> /\ heap' = Destroy(heap, Copied) /\ copy' = << >>
    BY <1>7 DEF tpq_codec_destroy, Copied
  <2>2. QED
    BY <1>5, <2>1 DEF CopyIsFaithful
<1>8. ASSUME NEW e \in Ends, tpq_codec_dup(e)
      PROVE  ReceivedIsSent' /\ CopyIsFaithful'
  <2>1. /\ UNCHANGED <<codec, got>>
        /\ \/ heap' = heap
           \/ FreshIds(heap) # {} /\ heap' = Alloc(heap, heap[codec[e].payload])
    BY <1>8 DEF tpq_codec_dup
  <2>2. QED
    BY <1>5, <1>8, <2>1, DupIsFaithful
<1>9. CASE tpq_codec_new_zpl
  <2>1. /\ UNCHANGED <<codec, got>>
        /\ \/ heap' = heap
           \/ /\ FreshIds(heap) # {}
              /\ heap' = Alloc(heap, [i \in DOMAIN text[1].payload |->
                                        BYTES_FROM_STR(text[1].payload[i])])
    BY <1>9 DEF tpq_codec_new_zpl
  <2>2. QED
    BY <1>5, <1>9, <2>1, NewZplIsFaithful
<1>10. QED
  BY <1>2, <1>3, <1>4, <1>6, <1>7, <1>8, <1>9

\* What the frames on the wire and the tree say.
LEMMA CarriersFit ==
  ASSUME Typed, OneOwner, WireInv, TextInv, Call
  PROVE  WireInv' /\ TextInv'
<1>1. ASSUME UNCHANGED wire PROVE WireInv'
  BY <1>1 DEF WireInv
<1>2. ASSUME UNCHANGED text PROVE TextInv'
  BY <1>2 DEF TextInv
<1>3. ASSUME NEW e \in Ends, tpq_codec_send(e) \/ SendShort(e)
      PROVE  WireInv' /\ TextInv'
  <2>1. UNCHANGED text
    BY <1>3 DEF tpq_codec_send, SendShort
  <2>2. QED
    BY <1>2, <1>3, <2>1, SendFits
<1>4. ASSUME NEW e \in Ends, tpq_codec_recv(e)
      PROVE  WireInv' /\ TextInv'
  <2>1. UNCHANGED text
    BY <1>4 DEF tpq_codec_recv, ReceiveData
  <2>2. QED
    BY <1>2, <1>4, <2>1, ReceiveFits
<1>5. ASSUME NEW e \in Ends, tpq_codec_zpl(e)
      PROVE  WireInv' /\ TextInv'
  <2>1. UNCHANGED wire
    BY <1>5 DEF tpq_codec_zpl
  <2>2. QED
    BY <1>1, <1>5, <2>1, ZplSays
<1>6. CASE EditText
  <2>1. UNCHANGED wire
    BY <1>6 DEF EditText
  <2>2. QED
    BY <1>1, <1>6, <2>1, EditSays
<1>7. ASSUME \/ \E e \in Ends : \/ Compose(e) \/ Interrupt(e)
                               \/ tpq_codec_get_payload(e) \/ tpq_codec_set_payload(e)
                               \/ tpq_codec_dup(e)
             \/ tpq_codec_set_routing_id("server") \/ DestroyPayload
             \/ tpq_codec_destroy \/ tpq_codec_new_zpl
      PROVE  WireInv' /\ TextInv'
  <2>1. UNCHANGED <<wire, text>>
    BY <1>7 DEF Compose, Interrupt, tpq_codec_get_payload, tpq_codec_set_payload,
                tpq_codec_dup, tpq_codec_set_routing_id, DestroyPayload,
                tpq_codec_destroy, tpq_codec_new_zpl
  <2>2. QED
    BY <1>1, <1>2, <2>1
<1>8. QED
  BY <1>3, <1>4, <1>5, <1>6, <1>7 DEF Call

\* What is received and copied is faithful because what carries it is: the
\* frames on the wire and the tree say what is claimed of them.
RoundTripInv == CodecInv /\ WireInv /\ TextInv /\ ReceivedIsSent /\ CopyIsFaithful

\* At first nothing is on its way.
LEMMA RoundTripInit == Init => RoundTripInv
<1> SUFFICES ASSUME Init PROVE RoundTripInv
  OBVIOUS
<1>1. CodecInv
  BY CodecInit
<1>2. \A e \in Ends : wire[e] = << >> /\ got[e].of = << >>
  BY DEF Init
<1>3. WireInv
  <2>1. \A e \in Ends : Len(wire[e]) = 0
    BY <1>2
  <2>2. QED
    BY <2>1 DEF WireInv, WireFits
<1>4. TextInv /\ CopyIsFaithful
  BY DEF Init, TextInv, CopyIsFaithful
<1>5. ReceivedIsSent
  BY <1>2 DEF ReceivedIsSent
<1>6. QED
  BY <1>1, <1>3, <1>4, <1>5 DEF RoundTripInv

\* Every call keeps it.
LEMMA RoundTripStep == RoundTripInv /\ [Next]_vars => RoundTripInv'
<1> SUFFICES ASSUME RoundTripInv, [Next]_vars PROVE RoundTripInv'
  OBVIOUS
<1>1. /\ CodecInv /\ Typed /\ OneOwner /\ WireInv /\ TextInv /\ ReceivedIsSent
      /\ CopyIsFaithful
  BY DEF RoundTripInv, CodecInv
<1>2. CodecInv'
  BY <1>1, CodecStep
<1>3. ASSUME Call PROVE ReceivedIsSent' /\ CopyIsFaithful'
  <2>1. \/ \E e \in Ends : tpq_codec_recv(e)
        \/ \E e \in Ends : \/ Compose(e) \/ Interrupt(e) \/ tpq_codec_get_payload(e)
                           \/ tpq_codec_set_payload(e)
        \/ \E e \in Ends : \/ tpq_codec_send(e) \/ SendShort(e) \/ tpq_codec_dup(e)
                           \/ tpq_codec_zpl(e)
        \/ tpq_codec_set_routing_id("server") \/ DestroyPayload
        \/ tpq_codec_destroy \/ EditText \/ tpq_codec_new_zpl
    BY <1>3 DEF Call
  <2>2. ASSUME NEW e \in Ends, tpq_codec_recv(e) PROVE ReceivedIsSent' /\ CopyIsFaithful'
    BY <1>1, <2>2, ReceiveSays
  <2>3. ASSUME NEW e \in Ends,
               \/ Compose(e) \/ Interrupt(e) \/ tpq_codec_get_payload(e)
               \/ tpq_codec_set_payload(e)
        PROVE  ReceivedIsSent' /\ CopyIsFaithful'
    BY <1>1, <2>3, ChangeSays
  <2>4. QED
    BY <1>1, <2>1, <2>2, <2>3, OtherSays
<1>4. CASE Next
  <2>1. Call
    BY <1>4 DEF Next
  <2>2. QED
    BY <1>1, <1>2, <1>3, <2>1, CarriersFit DEF RoundTripInv
<1>5. CASE UNCHANGED vars
  <2>1. UNCHANGED <<codec, copy, text, heap, wire, got>>
    BY <1>5 DEF vars
  <2>2. WireInv' /\ TextInv' /\ ReceivedIsSent' /\ CopyIsFaithful'
    BY <1>1, <2>1 DEF WireInv, TextInv, ReceivedIsSent, CopyIsFaithful
  <2>3. QED
    BY <1>2, <2>2 DEF RoundTripInv
<1>6. QED
  BY <1>4, <1>5

\* What carries a message and a copy says what is claimed of it.
THEOREM RoundTripInvariant == Spec => []RoundTripInv
BY RoundTripInit, RoundTripStep, PTL DEF Spec

\* What tpq_codec_recv leaves in its object is what the object of the sender
\* said, for every message, whatever the receiver held before and whatever
\* short messages came between.
THEOREM ReceivedAsSent == Spec => []ReceivedIsSent
<1>1. RoundTripInv => ReceivedIsSent
  BY DEF RoundTripInv
<1>2. QED
  BY <1>1, RoundTripInvariant, PTL

\* What tpq_codec_dup copies holds what its original held, and what
\* tpq_codec_new_zpl reads from a text says what tpq_codec_zpl was asked to
\* write.
THEOREM CopiesAreFaithful == Spec => []CopyIsFaithful
<1>1. RoundTripInv => CopyIsFaithful
  BY DEF RoundTripInv
<1>2. QED
  BY <1>1, RoundTripInvariant, PTL
=============================================================================
