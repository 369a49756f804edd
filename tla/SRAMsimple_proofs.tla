------------------------- MODULE SRAMsimple_proofs -------------------------
(***************************************************************************)
(* Proofs about SRAMsimple and the bytes of its values, for every number   *)
(* of values of a byte, size of the chip, and calls that DriverConstantsOK *)
(* allows.                                                                 *)
(***************************************************************************)
EXTENDS SRAMsimple, SequenceTheorems, WellFoundedInduction, TLAPS

-----------------------------------------------------------------------------
(***************************************************************************)
(* Arithmetic.                                                             *)
(***************************************************************************)

LEMMA DivModInt ==
  ASSUME NEW n \in Nat \ {0}, NEW a \in Int
  PROVE  a \div n \in Int /\ a % n \in 0 .. n - 1 /\ a = n * (a \div n) + (a % n)
  OBVIOUS

\* The quotient and the remainder are the only ones.
LEMMA DivModUnique ==
  ASSUME NEW n \in Nat \ {0}, NEW q \in Int, NEW r \in 0 .. n - 1, NEW a \in Int,
         a = n * q + r
  PROVE  a \div n = q /\ a % n = r
  <1>. DEFINE d == a \div n
              m == a % n
  <1>1. d \in Int /\ m \in 0 .. n - 1 /\ a = n * d + m BY DivModInt
  <1>. HIDE DEF d, m
  <1>2. n * d \in Int /\ n * q \in Int BY <1>1
  <1>3. \A x, y \in Int : x >= y + 1 => n * x >= n * y + n
    <2>1. SUFFICES ASSUME NEW x \in Int, NEW y \in Int, x >= y + 1
                   PROVE  n * x >= n * y + n
      OBVIOUS
    <2>2. PICK k \in Nat : x = y + 1 + k
      <3>1. x - y - 1 \in Nat /\ x = y + 1 + (x - y - 1) BY <2>1
      <3>. QED BY <3>1
    <2>3. n * (y + 1 + k) = n * y + n + n * k BY <2>1, <2>2
    <2>4. n * k >= 0 /\ n * k \in Int /\ n * y \in Int BY <2>1, <2>2
    <2>. QED BY <2>2, <2>3, <2>4
  <1>4. ~ (d > q) BY <1>1, <1>2, <1>3
  <1>5. ~ (d < q) BY <1>1, <1>2, <1>3
  <1>6. d = q BY <1>1, <1>4, <1>5
  <1>7. m = r BY <1>1, <1>2, <1>6
  <1>. QED BY <1>6, <1>7 DEF d, m

\* A digit more: what a number below m and a digit make is below n * m.
LEMMA DigitBound ==
  ASSUME NEW n \in Nat \ {0}, NEW m \in Nat \ {0}, NEW x \in 0 .. m - 1,
         NEW r \in 0 .. n - 1
  PROVE  n * x + r \in 0 .. n * m - 1
  <1>1. n * (m - 1 - x) >= 0 /\ n * x >= 0 BY SMT
  <1>2. n * (m - 1 - x) = n * m - n - n * x BY SMT
  <1>3. n * x \in Int /\ n * m \in Int BY SMT
  <1>. QED BY <1>1, <1>2, <1>3
-----------------------------------------------------------------------------
(***************************************************************************)
(* The bytes of a value.                                                   *)
(***************************************************************************)

LEMMA BytePositive == BYTE \in Nat \ {0} /\ BYTE * BYTE \in Nat \ {0}
                      /\ BYTE * BYTE * BYTE \in Nat \ {0}
  <1>1. BYTE \in Nat \ {0} BY ByteOK
  <1>2. \A x, y \in Nat \ {0} : x * y \in Nat \ {0} BY SMT
  <1>3. BYTE * BYTE \in Nat \ {0} BY <1>1, <1>2
  <1>. QED BY <1>1, <1>2, <1>3

LEMMA WeightOK ==
  /\ Weight(0) = 1 /\ Weight(1) = BYTE /\ Weight(2) = BYTE * BYTE
  /\ Weight(3) = BYTE * BYTE * BYTE
  /\ Weight(4) = BYTE * BYTE * BYTE * BYTE
  BY ByteOK DEF Weight

\* The digits of a number of two digits, of which the first may be negative.
LEMMA TwoDigits ==
  ASSUME NEW t \in Int, NEW b \in ByteValues, NEW v \in Int, v = t * BYTE + b
  PROVE  v % BYTE = b /\ v \div BYTE = t
  <1>1. b \in 0 .. BYTE - 1 /\ BYTE \in Nat \ {0} BY BytePositive DEF ByteValues
  <1>2. v = BYTE * t + b BY <1>1, SMT
  <1>. QED BY <1>1, <1>2, DivModUnique

\* Of four digits: the quotients by the weights, one digit at a time.
LEMMA FourDigits ==
  ASSUME NEW t \in Int, NEW b \in ByteValues, NEW c \in ByteValues, NEW d \in ByteValues,
         NEW v \in Int, v = ((t * BYTE + b) * BYTE + c) * BYTE + d
  PROVE  /\ v % BYTE = d
         /\ (v \div BYTE) % BYTE = c
         /\ (v \div (BYTE * BYTE)) % BYTE = b
         /\ v \div (BYTE * BYTE * BYTE) = t
  <1>. DEFINE x == t * BYTE + b
              y == x * BYTE + c
  <1>1. /\ b \in 0 .. BYTE - 1 /\ c \in 0 .. BYTE - 1 /\ d \in 0 .. BYTE - 1
        /\ BYTE \in Nat \ {0}
    BY BytePositive DEF ByteValues
  <1>2. x \in Int /\ y \in Int
    <2>1. \A p \in Int : p * BYTE \in Int BY <1>1, SMT
    <2>. QED BY <1>1, <2>1
  <1>3. x % BYTE = b /\ x \div BYTE = t BY <1>2, TwoDigits
  <1>4. v = y * BYTE + d OBVIOUS
  <1>5. y = x * BYTE + c OBVIOUS
  <1>. HIDE DEF x, y
  <1>6. v % BYTE = d /\ v \div BYTE = y BY <1>2, <1>4, TwoDigits
  <1>7. y % BYTE = c BY <1>2, <1>5, TwoDigits
  <1>8. v \div (BYTE * BYTE) = x
    <2>1. BYTE * c + d \in 0 .. BYTE * BYTE - 1 BY <1>1, DigitBound
    <2>2. v = (BYTE * BYTE) * x + (BYTE * c + d)
      <3>1. (x * BYTE + c) * BYTE + d = (BYTE * BYTE) * x + (BYTE * c + d)
        BY <1>1, <1>2, SMT
      <3>. QED BY <1>4, <1>5, <3>1
    <2>. QED BY <1>2, <2>1, <2>2, BytePositive, DivModUnique
  <1>9. v \div (BYTE * BYTE * BYTE) = t
    <2>1. BYTE * c + d \in 0 .. BYTE * BYTE - 1 BY <1>1, DigitBound
    <2>2. (BYTE * BYTE) * b + (BYTE * c + d) \in 0 .. (BYTE * BYTE) * BYTE - 1
      BY <1>1, <2>1, BytePositive, DigitBound
    <2>3. v = (BYTE * BYTE * BYTE) * t + ((BYTE * BYTE) * b + (BYTE * c + d))
      <3>1. (((t * BYTE + b) * BYTE + c) * BYTE + d) =
              (BYTE * BYTE * BYTE) * t + ((BYTE * BYTE) * b + (BYTE * c + d))
        BY <1>1, SMT
      <3>. QED BY <3>1
    <2>. QED BY <2>2, <2>3, BytePositive, DivModUnique
  <1>. QED BY <1>3, <1>6, <1>7, <1>8, <1>9

\* The bytes of a string of one, two or four put together.
LEMMA JoinedBytes ==
  ASSUME NEW w \in {1, 2, 4}, NEW s \in [1 .. w -> ByteValues]
  PROVE  /\ Joined(s) \in 0 .. Weight(w) - 1
         /\ w = 1 => Joined(s) = s[1]
         /\ w = 2 => Joined(s) = s[1] * BYTE + s[2]
         /\ w = 4 => Joined(s) = ((s[1] * BYTE + s[2]) * BYTE + s[3]) * BYTE + s[4]
  <1>1. Len(s) = w OBVIOUS
  <1>2. BYTE \in Nat \ {0} /\ \A k \in 1 .. w : s[k] \in 0 .. BYTE - 1
    BY BytePositive DEF ByteValues
  <1>3. CASE w = 1 BY <1>1, <1>2, <1>3, WeightOK DEF Joined
  <1>4. CASE w = 2
    <2>1. Joined(s) = s[1] * BYTE + s[2] BY <1>1, <1>4, WeightOK DEF Joined
    <2>2. BYTE * s[1] + s[2] \in 0 .. BYTE * BYTE - 1 BY <1>2, <1>4, DigitBound
    <2>3. BYTE * s[1] = s[1] * BYTE BY <1>2, <1>4, SMT
    <2>. QED BY <1>4, <2>1, <2>2, <2>3, WeightOK
  <1>5. CASE w = 4
    <2>1. Joined(s) = s[1] * (BYTE * BYTE * BYTE) + s[2] * (BYTE * BYTE) + s[3] * BYTE + s[4]
      BY <1>1, <1>5, WeightOK DEF Joined
    <2>2. PICK a \in 0 .. BYTE - 1, b \in 0 .. BYTE - 1, c \in 0 .. BYTE - 1, d \in 0 .. BYTE - 1 :
            s[1] = a /\ s[2] = b /\ s[3] = c /\ s[4] = d
      BY <1>2, <1>5
    <2>3. a * (BYTE * BYTE * BYTE) + b * (BYTE * BYTE) + c * BYTE + d =
            ((a * BYTE + b) * BYTE + c) * BYTE + d
      BY <1>2, SMT
    <2>4. BYTE * a + b \in 0 .. BYTE * BYTE - 1 BY <1>2, DigitBound
    <2>5. BYTE * (BYTE * a + b) + c \in 0 .. BYTE * (BYTE * BYTE) - 1
      BY <1>2, <2>4, BytePositive, DigitBound
    <2>6. BYTE * (BYTE * (BYTE * a + b) + c) + d \in 0 .. BYTE * (BYTE * (BYTE * BYTE)) - 1
      <3>1. BYTE * (BYTE * BYTE) \in Nat \ {0}
        <4>1. \A x, y \in Nat \ {0} : x * y \in Nat \ {0} BY SMT
        <4>. QED BY <4>1, BytePositive
      <3>. QED BY <1>2, <2>5, <3>1, DigitBound
    <2>7. BYTE * (BYTE * (BYTE * a + b) + c) + d = ((a * BYTE + b) * BYTE + c) * BYTE + d
      BY <1>2, SMT
    <2>8. BYTE * (BYTE * (BYTE * BYTE)) = BYTE * BYTE * BYTE * BYTE BY <1>2, SMT
    <2>9. Joined(s) = ((a * BYTE + b) * BYTE + c) * BYTE + d BY <2>1, <2>2, <2>3
    <2>. QED BY <1>5, <2>2, <2>6, <2>7, <2>8, <2>9, WeightOK
  <1>. QED BY <1>3, <1>4, <1>5

\* A type has an even number of values.
LEMMA SpanEven ==
  ASSUME NEW ctype \in {"Int", "Long"}
  PROVE  \E h \in Nat \ {0} : Span(ctype) = 2 * h /\ Span(ctype) \div 2 = h
  <1>1. PICK b \in Nat \ {0} : BYTE = 2 * b
    <2>1. BYTE = 2 * (BYTE \div 2) + (BYTE % 2) /\ BYTE \div 2 \in Int
      <3>1. \A x \in Int : x = 2 * (x \div 2) + (x % 2) /\ x \div 2 \in Int BY SMT
      <3>. QED BY <3>1, ByteOK
    <2>2. BYTE = 2 * (BYTE \div 2) /\ BYTE \div 2 \in Nat \ {0} BY <2>1, ByteOK
    <2>. QED BY <2>2
  <1>2. \E h \in Nat \ {0} : Span(ctype) = 2 * h
    <2>1. \A x, y \in Nat \ {0} : x * y \in Nat \ {0} BY SMT
    <2>2. \A x, y \in Nat : (2 * x) * y = 2 * (x * y) BY SMT
    <2>3. b * BYTE \in Nat \ {0} /\ BYTE * BYTE = 2 * (b * BYTE)
      BY <1>1, <2>1, <2>2, BytePositive
    <2>4. CASE ctype = "Int"
      <3>1. Span(ctype) = BYTE * BYTE BY <2>4, WeightOK DEF Span, Width
      <3>. QED BY <2>3, <3>1
    <2>5. CASE ctype = "Long"
      <3>1. Span(ctype) = BYTE * BYTE * BYTE * BYTE BY <2>5, WeightOK DEF Span, Width, Kinds
      <3>2. (b * BYTE) * BYTE \in Nat \ {0} /\ ((b * BYTE) * BYTE) * BYTE \in Nat \ {0}
        BY <2>1, <2>3, BytePositive
      <3>3. BYTE * BYTE * BYTE = 2 * ((b * BYTE) * BYTE) BY <2>2, <2>3, BytePositive
      <3>4. BYTE * BYTE * BYTE * BYTE = 2 * (((b * BYTE) * BYTE) * BYTE)
        BY <2>2, <3>2, <3>3, BytePositive
      <3>. QED BY <3>1, <3>2, <3>4
    <2>. QED BY <2>4, <2>5
  <1>3. PICK h \in Nat \ {0} : Span(ctype) = 2 * h BY <1>2
  <1>4. (2 * h) \div 2 = h BY SMT
  <1>. QED BY <1>3, <1>4

LEMMA WidthOK ==
  ASSUME NEW ctype \in Kinds
  PROVE  Width(ctype) \in {1, 2, 4} /\ Span(ctype) = Weight(Width(ctype))
  BY DEF Kinds, Width, Span

\* What the bytes of an integer are: their number, or that less the span.
LEMMA ValueOfBytes ==
  ASSUME NEW ctype \in Kinds \ {"Float"}, NEW s \in [1 .. Width(ctype) -> ByteValues]
  PROVE  /\ ValueOf(ctype, s) \in Values(ctype)
         /\ ValueOf(ctype, s) \in Int /\ Joined(s) \in Int /\ Span(ctype) \in Int
         /\ \/ ValueOf(ctype, s) = Joined(s)
            \/ /\ ctype \in {"Int", "Long"}
               /\ ValueOf(ctype, s) = Joined(s) - Span(ctype)
  <1>1. Joined(s) \in 0 .. Span(ctype) - 1 BY WidthOK, JoinedBytes
  <1>2. Span(ctype) \in Nat
    <2>1. \A x, y \in Nat : x * y \in Nat BY SMT
    <2>2. BYTE * BYTE \in Nat /\ BYTE * BYTE * BYTE \in Nat
          /\ BYTE * BYTE * BYTE * BYTE \in Nat /\ BYTE \in Nat
      BY <2>1, BytePositive
    <2>. QED BY <2>2, WidthOK, WeightOK
  <1>3. CASE ctype \notin {"Int", "Long"}
    <2>1. ValueOf(ctype, s) = Joined(s) BY <1>3 DEF ValueOf
    <2>2. Values(ctype) = 0 .. Span(ctype) - 1 BY <1>3 DEF Values
    <2>. QED BY <1>1, <1>2, <2>1, <2>2
  <1>4. CASE ctype \in {"Int", "Long"}
    <2>1. PICK h \in Nat \ {0} : Span(ctype) = 2 * h /\ Span(ctype) \div 2 = h
      BY <1>4, SpanEven
    <2>2. ValueOf(ctype, s) = IF Joined(s) >= h THEN Joined(s) - Span(ctype) ELSE Joined(s)
      BY <1>4, <2>1 DEF ValueOf
    <2>3. Values(ctype) = -h .. h - 1 BY <1>4, <2>1 DEF Values
    <2>4. ValueOf(ctype, s) \in -h .. h - 1 BY <1>1, <2>1, <2>2
    <2>. QED BY <1>1, <1>2, <1>4, <2>2, <2>3, <2>4
  <1>. QED BY <1>3, <1>4

\* A span less is a byte less in the first of four digits.
LEMMA BorrowByte ==
  ASSUME NEW m \in Int, NEW p \in Int, NEW q \in Int, NEW r \in Int, NEW u \in Int
  PROVE  (((p * m + q) * m + r) * m + u) - m * m * m * m =
           (((p - m) * m + q) * m + r) * m + u
  OBVIOUS

\* The bytes of the value of some bytes are these bytes.
LEMMA BytesOfValue ==
  ASSUME NEW ctype \in Kinds, NEW s \in [1 .. Width(ctype) -> ByteValues]
  PROVE  ValueOf(ctype, s) \in Values(ctype) /\ BytesOf(ctype, ValueOf(ctype, s)) = s
  <1>1. CASE ctype = "Float"
    <2>1. ValueOf(ctype, s) = s /\ Width(ctype) = 4 BY <1>1 DEF ValueOf, Width
    <2>. QED BY <1>1, <2>1 DEF Values, BytesOf
  <1>2. CASE ctype # "Float"
    <2>. DEFINE v == ValueOf(ctype, s)
                w == Width(ctype)
    <2>1. v \in Values(ctype) /\ v \in Int BY <1>2, ValueOfBytes
    <2>2. \/ v = Joined(s)
          \/ ctype \in {"Int", "Long"} /\ v = Joined(s) - Weight(w)
      BY <1>2, ValueOfBytes, WidthOK
    <2>3. BytesOf(ctype, v) = [k \in 1 .. w |-> (v \div Weight(w - k)) % BYTE]
      BY <1>2 DEF BytesOf
    <2>4. w \in {1, 2, 4} /\ (ctype \in {"Int", "Long"} => w # 1) BY WidthOK DEF Width
    <2>. HIDE DEF v
    <2>5. \A k \in 1 .. w : s[k] \in ByteValues /\ s[k] \in 0 .. BYTE - 1
      BY DEF ByteValues
    <2>6. BYTE \in Nat \ {0} BY BytePositive
    <2>7. \A b \in 0 .. BYTE - 1 : b % BYTE = b /\ (b - BYTE) % BYTE = b
      <3>1. SUFFICES ASSUME NEW b \in 0 .. BYTE - 1
                     PROVE  b % BYTE = b /\ (b - BYTE) % BYTE = b
        OBVIOUS
      <3>2. b = BYTE * 0 + b /\ b - BYTE = BYTE * (-1) + b BY <2>6
      <3>3. b \in Int /\ b - BYTE \in Int /\ 0 \in Int /\ -1 \in Int BY <2>6
      <3>. QED BY <2>6, <3>2, <3>3, DivModUnique
    <2>8. \A k \in 1 .. w : (v \div Weight(w - k)) % BYTE = s[k]
      <3>1. CASE w = 1
        <4>1. v = s[1] BY <2>2, <2>4, <3>1, JoinedBytes
        <4>2. v \div 1 = v BY <2>1
        <4>. QED BY <2>5, <2>7, <3>1, <4>1, <4>2, WeightOK
      <3>2. CASE w = 2
        <4>1. PICK t \in Int : v = t * BYTE + s[2] /\ t % BYTE = s[1]
          <5>1. Joined(s) = s[1] * BYTE + s[2] BY <3>2, JoinedBytes
          <5>2. CASE v = Joined(s) BY <2>5, <2>7, <3>2, <5>1, <5>2
          <5>3. CASE v = Joined(s) - BYTE * BYTE
            <6>1. (s[1] * BYTE + s[2]) - BYTE * BYTE = (s[1] - BYTE) * BYTE + s[2]
              BY <2>5, <2>6, <3>2, SMT
            <6>2. s[1] - BYTE \in Int BY <2>5, <2>6, <3>2
            <6>3. v = (s[1] - BYTE) * BYTE + s[2] BY <5>1, <5>3, <6>1
            <6>4. (s[1] - BYTE) % BYTE = s[1] BY <2>5, <2>7, <3>2
            <6>. QED BY <6>2, <6>3, <6>4
          <5>. QED BY <2>2, <3>2, <5>2, <5>3, WeightOK
        <4>2. v % BYTE = s[2] /\ v \div BYTE = t BY <2>1, <2>5, <3>2, <4>1, TwoDigits
        <4>3. v \div 1 = v BY <2>1
        <4>4. (v \div Weight(2 - 1)) % BYTE = s[1] /\ (v \div Weight(2 - 2)) % BYTE = s[2]
          BY <4>1, <4>2, <4>3, WeightOK
        <4>. QED BY <3>2, <4>4
      <3>3. CASE w = 4
        <4>1. PICK t \in Int : /\ v = ((t * BYTE + s[2]) * BYTE + s[3]) * BYTE + s[4]
                               /\ t % BYTE = s[1]
          <5>1. Joined(s) = ((s[1] * BYTE + s[2]) * BYTE + s[3]) * BYTE + s[4]
            BY <3>3, JoinedBytes
          <5>2. CASE v = Joined(s) BY <2>5, <2>7, <3>3, <5>1, <5>2
          <5>3. CASE v = Joined(s) - BYTE * BYTE * BYTE * BYTE
            <6>2. s[1] - BYTE \in Int /\ s[1] \in Int /\ s[2] \in Int /\ s[3] \in Int
                  /\ s[4] \in Int
              BY <2>5, <2>6, <3>3
            <6>3. PICK a \in Int, b \in Int, c \in Int, d \in Int :
                    s[1] = a /\ s[2] = b /\ s[3] = c /\ s[4] = d
              BY <6>2
            <6>4. (((a * BYTE + b) * BYTE + c) * BYTE + d) - BYTE * BYTE * BYTE * BYTE =
                    (((a - BYTE) * BYTE + b) * BYTE + c) * BYTE + d
              BY <2>6, BorrowByte
            <6>5. v = (((s[1] - BYTE) * BYTE + s[2]) * BYTE + s[3]) * BYTE + s[4]
              BY <5>1, <5>3, <6>3, <6>4, Zenon
            <6>6. (s[1] - BYTE) % BYTE = s[1] BY <2>5, <2>7, <3>3
            <6>. QED BY <6>2, <6>5, <6>6
          <5>. QED BY <2>2, <3>3, <5>2, <5>3, WeightOK
        <4>2. /\ v % BYTE = s[4] /\ (v \div BYTE) % BYTE = s[3]
              /\ (v \div (BYTE * BYTE)) % BYTE = s[2]
              /\ v \div (BYTE * BYTE * BYTE) = t
          BY <2>1, <2>5, <3>3, <4>1, FourDigits
        <4>3. v \div 1 = v BY <2>1
        <4>4. /\ (v \div Weight(4 - 1)) % BYTE = s[1] /\ (v \div Weight(4 - 2)) % BYTE = s[2]
              /\ (v \div Weight(4 - 3)) % BYTE = s[3] /\ (v \div Weight(4 - 4)) % BYTE = s[4]
          BY <4>1, <4>2, <4>3, WeightOK
        <4>. QED BY <3>3, <4>4
      <3>. QED BY <2>4, <3>1, <3>2, <3>3
    <2>9. BytesOf(ctype, v) = s BY <2>3, <2>8
    <2>. QED BY <2>1, <2>9 DEF v
  <1>. QED BY <1>1, <1>2

-----------------------------------------------------------------------------
(***************************************************************************)
(* The bytes of several values.                                            *)
(***************************************************************************)

\* Induction, for sets.
LEMMA NatSetInduction ==
  ASSUME NEW S, 0 \in S, \A n \in Nat : n \in S => n + 1 \in S
  PROVE  Nat \subseteq S
  <1>. DEFINE T == Nat \ S
  <1>. SUFFICES ASSUME T # {} PROVE FALSE OBVIOUS
  <1>1. PICK m \in T : \A y \in T : ~ (<<y, m>> \in OpToRel(<, Nat))
    <2>1. T \subseteq Nat OBVIOUS
    <2>. HIDE DEF T
    <2>. QED BY <2>1, WFMin, NatLessThanWellFounded
  <1>2. \A y \in T : ~ (y < m) BY <1>1 DEF OpToRel
  <1>3. m - 1 \in Nat /\ m - 1 < m /\ m - 1 + 1 = m OBVIOUS
  <1>. QED BY <1>2, <1>3

\* f[i] is the first i strings one after the other.
Joins(f, seqs, n) ==
  /\ FlattenSeq(seqs) = f[n]
  /\ f[1] = seqs[1]
  /\ \A i \in 2 .. n : f[i] = f[i - 1] \o seqs[i]

\* FlattenSeq joins one string after the other.
LEMMA FlattenSteps ==
  ASSUME NEW n \in Nat \ {0}, NEW seqs, Len(seqs) = n
  PROVE  \E f : Joins(f, seqs, n)
  <1>. DEFINE After(g, i) == IF i = 1 THEN seqs[i] ELSE g[i - 1] \o seqs[i]
              Flat(g, m) == g = [i \in 1 .. m |-> After(g, i)]
              c == CHOOSE g : Flat(g, n)
              S == {m \in Nat : \E g : Flat(g, m)}
  <1>1. FlattenSeq(seqs) = c[n] BY DEF FlattenSeq
  <1>2. 0 \in S
    <2>1. Flat([i \in 1 .. 0 |-> 0], 0) OBVIOUS
    <2>. QED BY <2>1
  <1>3. ASSUME NEW m \in Nat, m \in S PROVE m + 1 \in S
    <2>1. PICK g : Flat(g, m) BY <1>3
    <2>. DEFINE h == [i \in 1 .. m + 1 |-> IF i <= m THEN g[i] ELSE After(g, i)]
    <2>2. \A i \in 1 .. m : h[i] = g[i] BY <2>1
    <2>3. \A i \in 1 .. m : g[i] = After(g, i) BY <2>1
    <2>4. \A i \in 1 .. m + 1 : After(h, i) = After(g, i)
      <3>1. SUFFICES ASSUME NEW i \in 1 .. m + 1, i # 1 PROVE h[i - 1] = g[i - 1]
        OBVIOUS
      <3>2. i - 1 \in 1 .. m BY <3>1
      <3>. QED BY <2>2, <3>2
    <2>5. \A i \in 1 .. m + 1 : h[i] = After(h, i)
      <3>1. SUFFICES ASSUME NEW i \in 1 .. m + 1 PROVE h[i] = After(h, i)
        OBVIOUS
      <3>2. CASE i <= m
        <4>1. i \in 1 .. m BY <3>2
        <4>2. h[i] = g[i] /\ g[i] = After(g, i) BY <2>2, <2>3, <4>1
        <4>3. After(h, i) = After(g, i) BY <2>4
        <4>. HIDE DEF h, After
        <4>. QED BY <4>2, <4>3
      <3>3. CASE ~ (i <= m)
        <4>1. h[i] = After(g, i) BY <3>3
        <4>2. After(h, i) = After(g, i) BY <2>4
        <4>. HIDE DEF h, After
        <4>. QED BY <4>1, <4>2
      <3>. QED BY <3>2, <3>3
    <2>6. Flat(h, m + 1)
      <3>1. h = [i \in 1 .. m + 1 |-> h[i]] OBVIOUS
      <3>. HIDE DEF h, After
      <3>. QED BY <2>5, <3>1
    <2>. HIDE DEF Flat, h
    <2>. QED BY <2>6
  <1>4. \E g : Flat(g, n)
    <2>. HIDE DEF Flat
    <2>1. Nat \subseteq S
      <3>. HIDE DEF S
      <3>. QED BY <1>2, <1>3, NatSetInduction
    <2>. QED BY <2>1
  <1>5. Flat(c, n)
    <2>. HIDE DEF Flat
    <2>. QED BY <1>4
  <1>6. \A i \in 1 .. n : c[i] = After(c, i)
    <2>. HIDE DEF c, After
    <2>. QED BY <1>5
  <1>. HIDE DEF c
  <1>7. c[1] = seqs[1]
    <2>1. c[1] = After(c, 1) BY <1>6
    <2>. QED BY <2>1
  <1>8. ASSUME NEW i \in 2 .. n PROVE c[i] = c[i - 1] \o seqs[i]
    <2>1. i \in 1 .. n /\ i # 1 OBVIOUS
    <2>2. c[i] = After(c, i) BY <1>6, <2>1
    <2>. QED BY <2>1, <2>2
  <1>. QED BY <1>1, <1>7, <1>8 DEF Joins

\* The bytes of values of a type: so many, and each of them a byte.
LEMMA FlattenType ==
  ASSUME NEW S, NEW w \in Nat, NEW n \in Nat, NEW seqs \in [1 .. n -> [1 .. w -> S]]
  PROVE  FlattenSeq(seqs) \in Seq(S) /\ Len(FlattenSeq(seqs)) = n * w
  <1>1. Len(seqs) = n OBVIOUS
  <1>2. CASE n = 0
    <2>1. seqs = <<>> BY <1>2
    <2>2. FlattenSeq(seqs) = seqs BY <1>1, <1>2 DEF FlattenSeq
    <2>3. n * w = 0 BY <1>2, SMT
    <2>4. <<>> \in Seq(S) /\ Len(<<>>) = 0 OBVIOUS
    <2>. QED BY <2>1, <2>2, <2>3, <2>4
  <1>3. CASE n # 0
    <2>0. PICK f : Joins(f, seqs, n)
      <3>1. n \in Nat \ {0} BY <1>3
      <3>. QED BY <1>1, <3>1, FlattenSteps
    <2>1. /\ FlattenSeq(seqs) = f[n]
          /\ f[1] = seqs[1]
          /\ \A i \in 2 .. n : f[i] = f[i - 1] \o seqs[i]
      BY <2>0 DEF Joins
    <2>2. \A i \in 1 .. n : seqs[i] \in Seq(S) /\ Len(seqs[i]) = w
      <3>1. SUFFICES ASSUME NEW i \in 1 .. n PROVE seqs[i] \in Seq(S) /\ Len(seqs[i]) = w
        OBVIOUS
      <3>2. seqs[i] \in [1 .. w -> S] OBVIOUS
      <3>. QED BY <3>2
    <2>. DEFINE T == {m \in Nat : m + 1 <= n =>
                        f[m + 1] \in Seq(S) /\ Len(f[m + 1]) = (m + 1) * w}
    <2>3. 0 \in T BY <1>3, <2>1, <2>2
    <2>4. ASSUME NEW m \in Nat, m \in T PROVE m + 1 \in T
      <3>1. SUFFICES ASSUME m + 2 <= n
                     PROVE  f[m + 2] \in Seq(S) /\ Len(f[m + 2]) = (m + 2) * w
        BY <2>4
      <3>2. f[m + 1] \in Seq(S) /\ Len(f[m + 1]) = (m + 1) * w BY <2>4, <3>1
      <3>3. m + 2 \in 2 .. n /\ m + 2 \in 1 .. n /\ (m + 2) - 1 = m + 1 BY <3>1
      <3>4. f[m + 2] = f[m + 1] \o seqs[m + 2] BY <2>1, <3>3
      <3>5. seqs[m + 2] \in Seq(S) /\ Len(seqs[m + 2]) = w BY <2>2, <3>3
      <3>6. f[m + 1] \o seqs[m + 2] \in Seq(S)
            /\ Len(f[m + 1] \o seqs[m + 2]) = (m + 1) * w + w
        <4>1. Len(f[m + 1] \o seqs[m + 2]) = Len(f[m + 1]) + Len(seqs[m + 2])
              /\ f[m + 1] \o seqs[m + 2] \in Seq(S)
          BY <3>2, <3>5, ConcatProperties
        <4>. QED BY <3>2, <3>5, <4>1
      <3>7. (m + 1) * w + w = (m + 2) * w BY SMT
      <3>. QED BY <3>4, <3>6, <3>7
    <2>. HIDE DEF T
    <2>5. Nat \subseteq T BY <2>3, <2>4, NatSetInduction
    <2>6. n - 1 \in T /\ (n - 1) + 1 = n BY <1>3, <2>5
    <2>. QED BY <2>1, <2>6 DEF T
  <1>. QED BY <1>2, <1>3

\* The i-th string is the i-th piece of length w of s.
Pieces(seqs, s, w, n) ==
  \A i \in 1 .. n : seqs[i] = SubSeq(s, (i - 1) * w + 1, i * w)

\* A string cut in pieces of the same length, and these put together again.
LEMMA FlattenPieces ==
  ASSUME NEW S, NEW w \in Nat, NEW n \in Nat, NEW s \in Seq(S), Len(s) = n * w,
         NEW seqs, Len(seqs) = n, n = 0 => seqs = <<>>,
         Pieces(seqs, s, w, n)
  PROVE  FlattenSeq(seqs) = s
  <1>0. \A i \in 1 .. n : seqs[i] = SubSeq(s, (i - 1) * w + 1, i * w) BY DEF Pieces
  <1>1. CASE n = 0
    <2>1. FlattenSeq(seqs) = <<>> BY <1>1 DEF FlattenSeq
    <2>2. n * w = 0 BY <1>1, SMT
    <2>. QED BY <2>1, <2>2
  <1>2. CASE n # 0
    <2>0. PICK f : Joins(f, seqs, n)
      <3>1. n \in Nat \ {0} BY <1>2
      <3>. QED BY <3>1, FlattenSteps
    <2>1. /\ FlattenSeq(seqs) = f[n]
          /\ f[1] = seqs[1]
          /\ \A i \in 2 .. n : f[i] = f[i - 1] \o seqs[i]
      BY <2>0 DEF Joins
    <2>. DEFINE T == {m \in Nat : m + 1 <= n => f[m + 1] = SubSeq(s, 1, (m + 1) * w)}
    <2>2. 0 \in T
      <3>1. seqs[1] = SubSeq(s, (1 - 1) * w + 1, 1 * w) /\ (1 - 1) * w + 1 = 1
        BY <1>0, <1>2, SMT
      <3>. QED BY <2>1, <3>1
    <2>3. ASSUME NEW m \in Nat, m \in T PROVE m + 1 \in T
      <3>1. SUFFICES ASSUME m + 2 <= n PROVE f[m + 2] = SubSeq(s, 1, (m + 2) * w)
        BY <2>3
      <3>2. f[m + 1] = SubSeq(s, 1, (m + 1) * w) BY <2>3, <3>1
      <3>3. m + 2 \in 2 .. n /\ m + 2 \in 1 .. n /\ (m + 2) - 1 = m + 1 BY <3>1
      <3>4. f[m + 2] = f[m + 1] \o seqs[m + 2] BY <2>1, <3>3
      <3>5. seqs[m + 2] = SubSeq(s, (m + 1) * w + 1, (m + 2) * w) BY <1>0, <3>3
      <3>6. PICK a \in Nat, b \in Nat : a = (m + 1) * w /\ b = (m + 2) * w
        <4>1. (m + 1) * w \in Nat /\ (m + 2) * w \in Nat BY SMT
        <4>. QED BY <4>1
      <3>7. a <= b /\ b <= Len(s)
        <4>1. (m + 2) * w = (m + 1) * w + w BY SMT
        <4>2. PICK k \in Nat : n = (m + 2) + k
          <5>1. n - (m + 2) \in Nat /\ n = (m + 2) + (n - (m + 2)) BY <3>1
          <5>. QED BY <5>1
        <4>3. n * w = (m + 2) * w + k * w /\ k * w \in Nat BY <4>2, SMT
        <4>. QED BY <3>6, <4>1, <4>3
      <3>8. SubSeq(s, 1, a) \o SubSeq(s, a + 1, b) = SubSeq(s, 1, b)
        BY <3>7
      <3>. QED BY <3>2, <3>4, <3>5, <3>6, <3>8
    <2>. HIDE DEF T
    <2>4. Nat \subseteq T BY <2>2, <2>3, NatSetInduction
    <2>5. n - 1 \in T /\ (n - 1) + 1 = n BY <1>2, <2>4
    <2>6. f[n] = SubSeq(s, 1, n * w) BY <2>5 DEF T
    <2>7. SubSeq(s, 1, Len(s)) = s OBVIOUS
    <2>. QED BY <2>1, <2>6, <2>7
  <1>. QED BY <1>1, <1>2

LEMMA WeightPositive ==
  ASSUME NEW n \in 0 .. 3
  PROVE  Weight(n) \in Nat \ {0}
  BY WeightOK, BytePositive

LEMMA BytesOfType ==
  ASSUME NEW k \in Kinds, NEW v \in Values(k)
  PROVE  BytesOf(k, v) \in [1 .. Width(k) -> ByteValues]
  <1>1. CASE k = "Float" BY <1>1 DEF Values, BytesOf, Width
  <1>2. CASE k # "Float"
    <2>1. Span(k) \in Int
      <3>1. \A x, y \in Int : x * y \in Int BY SMT
      <3>2. BYTE \in Int /\ BYTE * BYTE \in Int /\ BYTE * BYTE * BYTE \in Int
            /\ BYTE * BYTE * BYTE * BYTE \in Int
        BY <3>1, BytePositive
      <3>. QED BY <3>2, WidthOK, WeightOK
    <2>2. v \in Int
      <3>1. CASE k \in {"Int", "Long"}
        <4>1. PICK h \in Nat : Span(k) \div 2 = h BY <3>1, SpanEven
        <4>. QED BY <3>1, <4>1 DEF Values
      <3>2. CASE k \notin {"Int", "Long"} BY <1>2, <2>1, <3>2 DEF Values
      <3>. QED BY <3>1, <3>2
    <2>3. ASSUME NEW i \in 1 .. Width(k)
          PROVE  (v \div Weight(Width(k) - i)) % BYTE \in ByteValues
      <3>1. Width(k) - i \in 0 .. 3 BY WidthOK
      <3>2. Weight(Width(k) - i) \in Nat \ {0} BY <3>1, WeightPositive
      <3>3. v \div Weight(Width(k) - i) \in Int BY <2>2, <3>2, DivModInt
      <3>. QED BY <3>3, BytePositive, DivModInt DEF ByteValues
    <2>. QED BY <1>2, <2>3 DEF BytesOf
  <1>. QED BY <1>1, <1>2

\* The bytes that an array of values takes.
LEMMA BytesOfAllType ==
  ASSUME NEW k \in Kinds, NEW vals \in Seq(Values(k))
  PROVE  /\ BytesOfAll(k, vals) \in Seq(ByteValues)
         /\ Len(BytesOfAll(k, vals)) = Len(vals) * Width(k)
  <1>. DEFINE seqs == [i \in DOMAIN vals |-> BytesOf(k, vals[i])]
  <1>1. DOMAIN vals = 1 .. Len(vals) /\ Len(vals) \in Nat OBVIOUS
  <1>2. \A i \in DOMAIN vals : vals[i] \in Values(k) OBVIOUS
  <1>3. seqs \in [1 .. Len(vals) -> [1 .. Width(k) -> ByteValues]]
    BY <1>1, <1>2, BytesOfType
  <1>4. Width(k) \in Nat BY WidthOK
  <1>. HIDE DEF seqs
  <1>5. FlattenSeq(seqs) \in Seq(ByteValues) /\ Len(FlattenSeq(seqs)) = Len(vals) * Width(k)
    BY <1>1, <1>3, <1>4, FlattenType
  <1>. QED BY <1>5 DEF BytesOfAll, seqs

\* The values of some bytes have these bytes.
LEMMA ValuesRoundTrip ==
  ASSUME NEW k \in Kinds, NEW s \in Seq(ByteValues), NEW n \in Nat, Len(s) = n * Width(k)
  PROVE  /\ \A i \in DOMAIN ValuesOfAll(k, s) : ValuesOfAll(k, s)[i] \in Values(k)
         /\ BytesOfAll(k, ValuesOfAll(k, s)) = s
  <1>. DEFINE w == Width(k)
              piece(i) == SubSeq(s, (i - 1) * w + 1, i * w)
              vals == ValuesOfAll(k, s)
              seqs == [i \in DOMAIN vals |-> BytesOf(k, vals[i])]
  <1>1. w \in Nat \ {0} BY WidthOK
  <1>2. Len(s) \div w = n
    <2>1. n * w = w * n + 0 /\ n * w \in Int BY <1>1, SMT
    <2>2. n \in Int /\ 0 \in 0 .. w - 1 BY <1>1
    <2>. HIDE DEF w
    <2>3. (n * w) \div w = n BY <1>1, <2>1, <2>2, DivModUnique
    <2>. QED BY <2>3 DEF w
  <1>3. vals = [i \in 1 .. n |-> ValueOf(k, piece(i))] BY <1>2 DEF ValuesOfAll
  <1>4. ASSUME NEW i \in 1 .. n PROVE piece(i) \in [1 .. w -> ByteValues]
    <2>1. PICK j \in Nat, m \in Nat : i = j + 1 /\ n = i + m
      <3>1. i - 1 \in Nat /\ i = (i - 1) + 1 /\ n - i \in Nat /\ n = i + (n - i) OBVIOUS
      <3>. QED BY <3>1
    <2>. HIDE DEF w
    <2>2. PICK a \in Nat : a = (i - 1) * w
      <3>1. (i - 1) * w \in Nat BY <1>1, SMT
      <3>. QED BY <3>1
    <2>3. i * w = a + w
      <3>1. i * w = (i - 1) * w + w BY <1>1, SMT
      <3>. QED BY <2>2, <3>1
    <2>4. a + w <= Len(s)
      <3>1. n * w = i * w + m * w /\ m * w \in Nat BY <1>1, <2>1, SMT
      <3>2. Len(s) = n * w BY DEF w
      <3>. QED BY <1>1, <2>3, <3>1, <3>2
    <2>5. SubSeq(s, a + 1, a + w) \in [1 .. w -> ByteValues]
      <3>1. \A x \in a + 1 .. a + w : s[x] \in ByteValues BY <1>1, <2>4
      <3>2. a + 1 \in Int /\ a + w \in Int BY <1>1
      <3>3. /\ SubSeq(s, a + 1, a + w) \in Seq(ByteValues)
            /\ Len(SubSeq(s, a + 1, a + w))
                 = IF a + 1 <= a + w THEN (a + w) - (a + 1) + 1 ELSE 0
        BY <3>1, <3>2, SubSeqProperties
      <3>4. Len(SubSeq(s, a + 1, a + w)) = w BY <1>1, <3>3
      <3>. QED BY <3>3, <3>4, LenProperties
    <2>. QED BY <2>2, <2>3, <2>5
  <1>. HIDE DEF piece, vals, w
  <1>5. ASSUME NEW i \in 1 .. n PROVE vals[i] \in Values(k) /\ BytesOf(k, vals[i]) = piece(i)
    <2>1. vals[i] = ValueOf(k, piece(i)) BY <1>3
    <2>2. piece(i) \in [1 .. Width(k) -> ByteValues] BY <1>4 DEF w
    <2>. QED BY <2>1, <2>2, BytesOfValue
  <1>6. DOMAIN vals = 1 .. n BY <1>3
  <1>7. Len(seqs) = n /\ (n = 0 => seqs = <<>>) BY <1>6
  <1>8. Pieces(seqs, s, w, n) BY <1>5, <1>6 DEF piece, Pieces
  <1>. HIDE DEF seqs
  <1>9. Len(s) = n * w BY DEF w
  <1>10. FlattenSeq(seqs) = s BY <1>1, <1>7, <1>8, <1>9, FlattenPieces
  <1>11. BytesOfAll(k, vals) = s BY <1>10 DEF BytesOfAll, seqs
  <1>. QED BY <1>5, <1>6, <1>11 DEF vals

-----------------------------------------------------------------------------
(***************************************************************************)
(* The addresses of the chip.                                              *)
(***************************************************************************)

\* A number with one more digit, and a remainder, by names the provers can match.
Shifted(a, m, b) == a * m + b
Residue(a, n) == a % n

\* A multiple of the size more leads to the same cell.
LEMMA ModShift ==
  ASSUME NEW n \in Nat \ {0}, NEW a \in Int, NEW k \in Int
  PROVE  Shifted(k, n, a) \in Int /\ Residue(Shifted(k, n, a), n) = Residue(a, n)
  <1>. DEFINE q == a \div n
              r == a % n
              v == Shifted(k, n, a)
  <1>1. q \in Int /\ r \in 0 .. n - 1 /\ a = n * q + r BY DivModInt
  <1>. HIDE DEF q, r
  <1>2. v \in Int /\ v = n * (k + q) + r
    <2>1. k * n + a \in Int /\ k * n = n * k BY SMT
    <2>2. n * (k + q) = n * k + n * q BY <1>1, SMT
    <2>3. n * k \in Int /\ n * q \in Int BY <1>1, SMT
    <2>. QED BY <1>1, <2>1, <2>2, <2>3 DEF Shifted
  <1>3. k + q \in Int BY <1>1
  <1>. HIDE DEF v
  <1>4. v % n = r BY <1>1, <1>2, <1>3, DivModUnique
  <1>. QED BY <1>2, <1>4 DEF r, v, Residue

\* A digit may be added after the modulus as before it.
LEMMA ModStep ==
  ASSUME NEW n \in Nat \ {0}, NEW a \in Int, NEW m \in Int, NEW b \in Int
  PROVE  Residue(Shifted(Residue(a, n), m, b), n) = Residue(Shifted(a, m, b), n)
  <1>. DEFINE q == a \div n
              r == Residue(a, n)
  <1>1. q \in Int /\ r \in Int /\ a = n * q + r BY DivModInt DEF Residue
  <1>. HIDE DEF q, r
  <1>2. PICK k \in Int, u \in Int : k = q * m /\ u = r * m + b
    <2>1. q * m \in Int /\ r * m + b \in Int BY <1>1, SMT
    <2>. QED BY <2>1
  <1>3. a * m + b = k * n + u
    <2>1. (n * q + r) * m + b = (q * m) * n + (r * m + b) BY <1>1, SMT
    <2>. QED BY <1>1, <1>2, <2>1
  <1>4. Shifted(a, m, b) = Shifted(k, n, u) /\ Shifted(r, m, b) = u BY <1>2, <1>3 DEF Shifted
  <1>5. Residue(Shifted(k, n, u), n) = Residue(u, n) BY <1>2, ModShift
  <1>. QED BY <1>4, <1>5 DEF r

\* Two addresses of one cell are a size apart.
LEMMA ModDistinct ==
  ASSUME NEW n \in Nat \ {0}, NEW a \in Int, NEW b \in Int, a % n = b % n, a - b < n, b - a < n
  PROVE  a = b
  <1>1. PICK p \in Int, q \in Int, r \in Int : a = n * p + r /\ b = n * q + r
    <2>1. /\ a \div n \in Int /\ a % n \in Int /\ a = n * (a \div n) + (a % n)
          /\ b \div n \in Int /\ b = n * (b \div n) + (b % n)
      BY DivModInt
    <2>2. b = n * (b \div n) + (a % n) BY <2>1
    <2>. QED BY <2>1, <2>2, Zenon
  <1>2. n * p \in Int /\ n * q \in Int BY <1>1, SMT
  <1>3. \A x, y \in Int : x > y => n * x >= n * y + n
    <2>1. SUFFICES ASSUME NEW x \in Int, NEW y \in Int, x > y
                   PROVE  n * x >= n * y + n
      OBVIOUS
    <2>2. PICK k \in Nat : x = y + 1 + k
      <3>1. x - y - 1 \in Nat /\ x = y + 1 + (x - y - 1) BY <2>1
      <3>. QED BY <3>1
    <2>3. n * (y + 1 + k) = n * y + n + n * k BY <2>1, <2>2
    <2>4. n * k >= 0 /\ n * k \in Int /\ n * y \in Int BY <2>1, <2>2
    <2>. QED BY <2>2, <2>3, <2>4
  <1>4. ~ (p > q) BY <1>1, <1>2, <1>3
  <1>5. ~ (q > p) BY <1>1, <1>2, <1>3
  <1>. QED BY <1>1, <1>4, <1>5

LEMMA ChipOK == CHIP_SIZE \in Nat \ {0} BY DriverConstantsOK

\* The bytes of an address put together are the address, as the chip takes it.
LEMMA AddressJoined ==
  ASSUME NEW addr \in Nat
  PROVE  LET x == (addr \div (BYTE * BYTE)) % BYTE
             y == (addr \div BYTE) % BYTE
             z == addr % BYTE
         IN  /\ x \in ByteValues /\ y \in ByteValues /\ z \in ByteValues
             /\ ((x * BYTE + y) * BYTE + z) % CHIP_SIZE = addr % CHIP_SIZE
  <1>. DEFINE q1 == addr \div BYTE
              q2 == q1 \div BYTE
              q3 == q2 \div BYTE
              x == q2 % BYTE
              y == q1 % BYTE
              z == addr % BYTE
  <1>0. BYTE \in Nat \ {0} BY BytePositive
  <1>1. q1 \in Int /\ z \in 0 .. BYTE - 1 /\ addr = BYTE * q1 + z BY <1>0, DivModInt
  <1>. HIDE DEF q1, z
  <1>2. q2 \in Int /\ y \in 0 .. BYTE - 1 /\ q1 = BYTE * q2 + y BY <1>0, <1>1, DivModInt
  <1>. HIDE DEF q2, y
  <1>3. q3 \in Int /\ x \in 0 .. BYTE - 1 /\ q2 = BYTE * q3 + x BY <1>0, <1>2, DivModInt
  <1>. HIDE DEF q3, x
  <1>4. addr \div (BYTE * BYTE) = q2
    <2>1. addr = (BYTE * BYTE) * q2 + (BYTE * y + z)
      <3>1. BYTE * (BYTE * q2 + y) + z = (BYTE * BYTE) * q2 + (BYTE * y + z)
        BY <1>0, <1>1, <1>2, SMT
      <3>. QED BY <1>1, <1>2, <3>1
    <2>2. BYTE * y + z \in 0 .. BYTE * BYTE - 1 BY <1>0, <1>1, <1>2, DigitBound
    <2>. QED BY <1>2, <2>1, <2>2, BytePositive, DivModUnique
  <1>5. addr = (BYTE * BYTE * BYTE) * q3 + ((x * BYTE + y) * BYTE + z)
    <2>1. BYTE * (BYTE * (BYTE * q3 + x) + y) + z =
            (BYTE * BYTE * BYTE) * q3 + ((x * BYTE + y) * BYTE + z)
      BY <1>0, <1>1, <1>2, <1>3, SMT
    <2>. QED BY <1>1, <1>2, <1>3, <2>1
  <1>6. PICK k \in Int : BYTE * BYTE * BYTE = CHIP_SIZE * k
    <2>1. (BYTE * BYTE * BYTE) % CHIP_SIZE = 0 BY DriverConstantsOK, WeightOK
    <2>2. BYTE * BYTE * BYTE \in Int BY BytePositive
    <2>3. PICK m \in Int : m = BYTE * BYTE * BYTE BY <2>2
    <2>4. m = CHIP_SIZE * (m \div CHIP_SIZE) + (m % CHIP_SIZE) /\ m \div CHIP_SIZE \in Int
      BY ChipOK, DivModInt
    <2>5. m % CHIP_SIZE = 0 BY <2>1, <2>3
    <2>6. PICK k \in Int : k = m \div CHIP_SIZE BY <2>4
    <2>7. m = CHIP_SIZE * k + 0 BY <2>4, <2>5, <2>6
    <2>8. CHIP_SIZE * k \in Int BY <2>6, ChipOK, SMT
    <2>. QED BY <2>3, <2>7, <2>8
  <1>7. PICK v \in Int : v = (x * BYTE + y) * BYTE + z
    <2>1. (x * BYTE + y) * BYTE + z \in Int BY <1>0, <1>1, <1>2, <1>3, SMT
    <2>. QED BY <2>1
  <1>8. addr = CHIP_SIZE * (k * q3) + v
    <2>1. (CHIP_SIZE * k) * q3 = CHIP_SIZE * (k * q3) BY <1>3, <1>6, ChipOK, SMT
    <2>. QED BY <1>5, <1>6, <1>7, <2>1
  <1>9. PICK m \in Int : m = k * q3
    <2>1. k * q3 \in Int BY <1>3, <1>6, SMT
    <2>. QED BY <2>1
  <1>10. addr % CHIP_SIZE = v % CHIP_SIZE
    <2>1. Residue(Shifted(m, CHIP_SIZE, v), CHIP_SIZE) = Residue(v, CHIP_SIZE)
      BY <1>7, <1>9, ChipOK, ModShift
    <2>2. addr = Shifted(m, CHIP_SIZE, v)
      <3>1. CHIP_SIZE * m = m * CHIP_SIZE BY <1>9, ChipOK, SMT
      <3>. QED BY <1>8, <1>9, <3>1 DEF Shifted
    <2>. QED BY <2>1, <2>2 DEF Residue
  <1>11. x = (addr \div (BYTE * BYTE)) % BYTE BY <1>4 DEF x
  <1>12. y = (addr \div BYTE) % BYTE /\ z = addr % BYTE BY DEF y, z, q1
  <1>. QED BY <1>1, <1>2, <1>3, <1>7, <1>10, <1>11, <1>12 DEF ByteValues

-----------------------------------------------------------------------------
(***************************************************************************)
(* The inductive invariant: where a call of the driver is, by the number   *)
(* of bytes it has sent.                                                   *)
(***************************************************************************)

\* All that a call sends.
Whole(op, addr, s) == <<op>> \o AddressBytes(addr) \o s

Sending == Whole(request.cmd, request.addr, request.bytes)

Size == Len(request.bytes)
Sent == 4 + Size - Len(tx)
Moved == IF Sent < 4 THEN 0 ELSE Sent - 4

\* The cell of the i-th byte of a block at addr.
CellOf(addr, i) == (addr + i - 1) % CHIP_SIZE

\* The address the chip has after n bytes of a call.
PointerAfter(addr, n) ==
  LET b == AddressBytes(addr)
  IN  CASE n <= 1 -> 0
        [] n = 2  -> b[1] % CHIP_SIZE
        [] n = 3  -> (b[1] * BYTE + b[2]) % CHIP_SIZE
        [] OTHER  -> (addr + (n - 4)) % CHIP_SIZE

\* The memory m with the first n bytes of s at addr.
Written(m, addr, s, n) ==
  [a \in Cells |->
     LET is == {i \in 1 .. n : CellOf(addr, i) = a}
     IN  IF is = {} THEN m[a] ELSE s[CHOOSE i \in is : TRUE]]

Loaded(m, addr, n) == [i \in 1 .. n |-> m[CellOf(addr, i)]]

\* The chip's line and counters in a call.
ChipInStep ==
  /\ selected /\ mode = "SEQ_MODE"
  /\ received = IF Sent < 4 THEN Sent ELSE 4
  /\ cmd = IF Sent = 0 THEN "none" ELSE request.cmd
  /\ pointer = PointerAfter(request.addr, Sent)

\* What is left to send is the end of all that is sent.
TailLeft ==
  /\ tx \in Seq({"READ", "WRITE"} \cup ByteValues)
  /\ Len(tx) <= 4 + Size
  /\ \A k \in 1 .. Len(tx) : tx[k] = Sending[Sent + k]

\* What has been moved.
BlockInStep ==
  /\ request.cmd = "WRITE" => /\ mem = Written(before, request.addr, request.bytes, Moved)
                              /\ rx = <<>>
  /\ request.cmd = "READ" => /\ mem = before
                             /\ rx = Loaded(before, request.addr, Moved)

\* The call itself: a whole number of values, no more than the chip holds.
CallOK ==
  /\ request.addr \in Nat /\ request.bytes \in Seq(ByteValues)
  /\ Size <= CHIP_SIZE
  /\ \E n \in 0 .. Size : Size = n * Width(kind)
  /\ before \in [Cells -> ByteValues]
  /\ result = NoResult

InCall == Busy => CallOK /\ TailLeft /\ ChipInStep /\ BlockInStep

\* Between the calls the chip is not selected, and in sequential mode.
Idle == request = NoRequest => ~ selected /\ tx = <<>> /\ mode = "SEQ_MODE"

\* setMode, before everything else.
Beginning ==
  request.cmd = "begin" =>
    /\ request = [NoRequest EXCEPT !.cmd = "begin"] /\ result = NoResult
    /\ \/ ~ selected /\ tx = <<>>
       \/ selected /\ received = 0 /\ cmd = "none" /\ tx = <<"WRMR", "SEQ_MODE">>
       \/ selected /\ received = 1 /\ cmd = "WRMR" /\ tx = <<"SEQ_MODE">>
       \/ selected /\ received = 2 /\ cmd = "WRMR" /\ tx = <<>> /\ mode = "SEQ_MODE"

Shapes ==
  /\ mem \in [Cells -> ByteValues] /\ mode \in {"BYTE_MODE", "SEQ_MODE"}
  /\ kind \in Kinds /\ selected \in BOOLEAN
  /\ request.cmd \in {"begin", "READ", "WRITE"} \/ request = NoRequest

DriverInv == Shapes /\ Beginning /\ Idle /\ InCall /\ TypedResult

\* What a call sends, byte by byte.
LEMMA WholeOK ==
  ASSUME NEW op \in {"READ", "WRITE"}, NEW addr \in Nat, NEW s \in Seq(ByteValues)
  PROVE  /\ Whole(op, addr, s) \in Seq({"READ", "WRITE"} \cup ByteValues)
         /\ Len(Whole(op, addr, s)) = 4 + Len(s)
         /\ Whole(op, addr, s)[1] = op
         /\ \A k \in 1 .. 3 : Whole(op, addr, s)[1 + k] = AddressBytes(addr)[k]
         /\ \A k \in 1 .. Len(s) : Whole(op, addr, s)[4 + k] = s[k]
  <1>. DEFINE T == {"READ", "WRITE"} \cup ByteValues
              a == AddressBytes(addr)
              p == <<op>> \o a
  <1>1. a \in Seq(T) /\ Len(a) = 3
    <2>1. /\ (addr \div (BYTE * BYTE)) % BYTE \in T
          /\ (addr \div BYTE) % BYTE \in T /\ addr % BYTE \in T
      BY AddressJoined
    <2>. HIDE DEF T
    <2>. QED BY <2>1 DEF AddressBytes
  <1>2. <<op>> \in Seq(T) /\ Len(<<op>>) = 1 /\ <<op>>[1] = op OBVIOUS
  <1>3. s \in Seq(T)
    <2>1. \A k \in 1 .. Len(s) : s[k] \in T OBVIOUS
    <2>. HIDE DEF T
    <2>. QED BY <2>1
  <1>. HIDE DEF T, a
  <1>4. /\ p \in Seq(T) /\ Len(p) = 4
        /\ p[1] = op /\ \A k \in 1 .. 3 : p[1 + k] = a[k]
    <2>1. /\ p \in Seq(T) /\ Len(p) = Len(<<op>>) + Len(a)
          /\ \A i \in 1 .. Len(<<op>>) + Len(a) :
               p[i] = IF i <= Len(<<op>>) THEN <<op>>[i] ELSE a[i - Len(<<op>>)]
      BY <1>1, <1>2, ConcatProperties
    <2>. HIDE DEF p
    <2>2. Len(p) = 4 BY <1>1, <1>2, <2>1
    <2>3. \A i \in 1 .. 4 : p[i] = IF i <= 1 THEN <<op>>[i] ELSE a[i - 1]
      BY <1>1, <1>2, <2>1
    <2>4. p[1] = op BY <1>2, <2>3
    <2>5. ASSUME NEW k \in 1 .. 3 PROVE p[1 + k] = a[k]
      <3>1. 1 + k \in 1 .. 4 /\ ~ (1 + k <= 1) /\ (1 + k) - 1 = k OBVIOUS
      <3>. QED BY <2>3, <3>1
    <2>. QED BY <2>1, <2>2, <2>4, <2>5
  <1>. HIDE DEF p
  <1>. DEFINE z == p \o s
  <1>5. /\ z \in Seq(T) /\ Len(z) = Len(p) + Len(s)
        /\ \A i \in 1 .. Len(p) + Len(s) : z[i] = IF i <= Len(p) THEN p[i] ELSE s[i - Len(p)]
    BY <1>3, <1>4, ConcatProperties
  <1>6. z = Whole(op, addr, s) BY DEF Whole, p, a
  <1>. HIDE DEF z
  <1>7. Len(s) \in Nat OBVIOUS
  <1>8. \A i \in 1 .. 4 : z[i] = p[i] BY <1>4, <1>5, <1>7
  <1>9. ASSUME NEW k \in 1 .. Len(s) PROVE z[4 + k] = s[k]
    <2>1. 4 + k \in 1 .. Len(p) + Len(s) /\ ~ (4 + k <= Len(p)) /\ (4 + k) - Len(p) = k
      BY <1>4, <1>7
    <2>. QED BY <1>5, <2>1
  <1>10. z[1] = op /\ \A k \in 1 .. 3 : z[1 + k] = a[k]
    <2>1. z[1] = op BY <1>4, <1>8
    <2>2. ASSUME NEW k \in 1 .. 3 PROVE z[1 + k] = a[k]
      <3>1. 1 + k \in 1 .. 4 OBVIOUS
      <3>. QED BY <1>4, <1>8, <3>1
    <2>. QED BY <2>1, <2>2
  <1>. QED BY <1>4, <1>5, <1>6, <1>9, <1>10 DEF T, a

\* The address grows by a byte, then goes from cell to cell.
LEMMA PointerNext ==
  ASSUME NEW addr \in Nat, NEW n \in Nat
  PROVE  /\ PointerAfter(addr, n) \in Cells
         /\ n = 0 => PointerAfter(addr, n + 1) = PointerAfter(addr, n)
         /\ n \in 1 .. 3 => PointerAfter(addr, n + 1) =
              (PointerAfter(addr, n) * BYTE + AddressBytes(addr)[n]) % CHIP_SIZE
         /\ n >= 4 => /\ PointerAfter(addr, n + 1) = (PointerAfter(addr, n) + 1) % CHIP_SIZE
                      /\ PointerAfter(addr, n) = CellOf(addr, (n - 4) + 1)
  <1>. DEFINE x == (addr \div (BYTE * BYTE)) % BYTE
              y == (addr \div BYTE) % BYTE
              z == addr % BYTE
              P(k) == PointerAfter(addr, k)
  <1>1. /\ x \in 0 .. BYTE - 1 /\ y \in 0 .. BYTE - 1 /\ z \in 0 .. BYTE - 1
        /\ ((x * BYTE + y) * BYTE + z) % CHIP_SIZE = addr % CHIP_SIZE
    BY AddressJoined DEF ByteValues
  <1>2. AddressBytes(addr)[1] = x /\ AddressBytes(addr)[2] = y /\ AddressBytes(addr)[3] = z
    BY DEF AddressBytes
  <1>. HIDE DEF x, y, z
  <1>3. BYTE \in Nat \ {0} /\ CHIP_SIZE \in Nat \ {0} BY BytePositive, ChipOK
  <1>4. x \in Int /\ y \in Int /\ z \in Int /\ BYTE \in Int BY <1>1, <1>3
  <1>5. x * BYTE + y \in Int /\ (x * BYTE + y) * BYTE + z \in Int BY <1>3, <1>4, SMT
  <1>6. /\ P(0) = 0 /\ P(1) = 0 /\ P(2) = x % CHIP_SIZE
        /\ P(3) = (x * BYTE + y) % CHIP_SIZE
    BY <1>2 DEF PointerAfter
  <1>7. \A k \in Nat : k >= 4 => P(k) = (addr + (k - 4)) % CHIP_SIZE
    BY DEF PointerAfter
  <1>. HIDE DEF P
  <1>8. P(4) = addr % CHIP_SIZE
    <2>1. P(4) = (addr + (4 - 4)) % CHIP_SIZE BY <1>7
    <2>2. addr + (4 - 4) = addr OBVIOUS
    <2>. QED BY <2>1, <2>2
  <1>9. P(n) \in 0 .. CHIP_SIZE - 1
    <2>1. \A v \in Int : v % CHIP_SIZE \in 0 .. CHIP_SIZE - 1 BY <1>3, DivModInt
    <2>2. CASE n <= 1
      <3>1. n = 0 \/ n = 1 BY <2>2
      <3>. QED BY <1>3, <1>6, <3>1
    <2>3. CASE n \in {2, 3} BY <1>4, <1>5, <1>6, <2>1, <2>3
    <2>4. CASE n >= 4
      <3>1. addr + (n - 4) \in Int OBVIOUS
      <3>. QED BY <1>7, <2>1, <2>4, <3>1
    <2>. QED BY <2>2, <2>3, <2>4
  <1>10. ASSUME n \in 1 .. 3
         PROVE  P(n + 1) = (P(n) * BYTE + AddressBytes(addr)[n]) % CHIP_SIZE
    <2>1. CASE n = 1
      <3>1. P(n + 1) = x % CHIP_SIZE /\ P(n) = 0 BY <1>6, <2>1
      <3>2. 0 * BYTE + x = x BY <1>3, <1>4
      <3>. QED BY <1>2, <2>1, <3>1, <3>2
    <2>2. CASE n = 2
      <3>1. P(n + 1) = (x * BYTE + y) % CHIP_SIZE /\ P(n) = x % CHIP_SIZE BY <1>6, <2>2
      <3>2. ((x % CHIP_SIZE) * BYTE + y) % CHIP_SIZE = (x * BYTE + y) % CHIP_SIZE
        <4>1. Residue(Shifted(Residue(x, CHIP_SIZE), BYTE, y), CHIP_SIZE)
                = Residue(Shifted(x, BYTE, y), CHIP_SIZE)
          BY <1>3, <1>4, ModStep
        <4>. QED BY <4>1 DEF Residue, Shifted
      <3>. QED BY <1>2, <2>2, <3>1, <3>2
    <2>3. CASE n = 3
      <3>. DEFINE u == x * BYTE + y
      <3>1. P(n + 1) = addr % CHIP_SIZE /\ P(n) = u % CHIP_SIZE BY <1>6, <1>8, <2>3
      <3>2. u \in Int /\ (u * BYTE + z) % CHIP_SIZE = addr % CHIP_SIZE BY <1>1, <1>5
      <3>. HIDE DEF u
      <3>3. ((u % CHIP_SIZE) * BYTE + z) % CHIP_SIZE = (u * BYTE + z) % CHIP_SIZE
        <4>1. Residue(Shifted(Residue(u, CHIP_SIZE), BYTE, z), CHIP_SIZE)
                = Residue(Shifted(u, BYTE, z), CHIP_SIZE)
          BY <1>3, <1>4, <3>2, ModStep
        <4>. QED BY <4>1 DEF Residue, Shifted
      <3>. QED BY <1>2, <2>3, <3>1, <3>2, <3>3
    <2>. QED BY <1>10, <2>1, <2>2, <2>3
  <1>11. ASSUME n >= 4
         PROVE  P(n + 1) = (P(n) + 1) % CHIP_SIZE /\ P(n) = CellOf(addr, (n - 4) + 1)
    <2>1. P(n) = (addr + (n - 4)) % CHIP_SIZE BY <1>7, <1>11
    <2>2. P(n + 1) = (addr + ((n + 1) - 4)) % CHIP_SIZE BY <1>7, <1>11
    <2>3. PICK v \in Int : v = addr + (n - 4) OBVIOUS
    <2>4. Residue(Shifted(Residue(v, CHIP_SIZE), 1, 1), CHIP_SIZE)
            = Residue(Shifted(v, 1, 1), CHIP_SIZE)
      BY <1>3, ModStep
    <2>5. v % CHIP_SIZE \in Int BY <1>3, DivModInt
    <2>6. Shifted(Residue(v, CHIP_SIZE), 1, 1) = (v % CHIP_SIZE) + 1 /\ Shifted(v, 1, 1) = v + 1
      BY <2>5 DEF Shifted, Residue
    <2>7. addr + ((n + 1) - 4) = v + 1 BY <2>3
    <2>8. addr + ((n - 4) + 1) - 1 = v BY <2>3
    <2>9. P(n) = CellOf(addr, (n - 4) + 1) BY <2>1, <2>3, <2>8 DEF CellOf
    <2>10. ((v % CHIP_SIZE) + 1) % CHIP_SIZE = (v + 1) % CHIP_SIZE
      BY <2>4, <2>6 DEF Residue
    <2>. QED BY <2>1, <2>2, <2>3, <2>7, <2>9, <2>10
  <1>12. n = 0 => P(n + 1) = P(n) BY <1>6
  <1>. QED BY <1>9, <1>10, <1>11, <1>12 DEF P, Cells

\* No two bytes of a block are in one cell.
LEMMA CellsDistinct ==
  ASSUME NEW addr \in Nat, NEW n \in Nat, n <= CHIP_SIZE,
         NEW i \in 1 .. n, NEW j \in 1 .. n, CellOf(addr, i) = CellOf(addr, j)
  PROVE  i = j
  <1>1. PICK a \in Int, b \in Int : a = addr + i - 1 /\ b = addr + j - 1 OBVIOUS
  <1>2. a % CHIP_SIZE = b % CHIP_SIZE BY <1>1 DEF CellOf
  <1>3. a - b < CHIP_SIZE /\ b - a < CHIP_SIZE BY <1>1, ChipOK
  <1>4. a = b BY <1>2, <1>3, ChipOK, ModDistinct
  <1>. QED BY <1>1, <1>4

LEMMA CellOK ==
  ASSUME NEW addr \in Nat, NEW i \in Nat
  PROVE  CellOf(addr, i) \in Cells
  <1>1. addr + i - 1 \in Int OBVIOUS
  <1>. QED BY <1>1, ChipOK, DivModInt DEF CellOf, Cells

\* One more byte is written.
LEMMA WrittenNext ==
  ASSUME NEW m \in [Cells -> ByteValues], NEW addr \in Nat, NEW s \in Seq(ByteValues),
         NEW n \in Nat, n < Len(s), Len(s) <= CHIP_SIZE
  PROVE  Written(m, addr, s, n + 1) =
           [Written(m, addr, s, n) EXCEPT ![CellOf(addr, n + 1)] = s[n + 1]]
  <1>. DEFINE c == CellOf(addr, n + 1)
              is(a, k) == {i \in 1 .. k : CellOf(addr, i) = a}
  <1>1. c \in Cells BY CellOK
  <1>2. ASSUME NEW a \in Cells, a # c PROVE is(a, n + 1) = is(a, n)
    <2>1. \A i \in 1 .. n + 1 : i \in 1 .. n \/ i = n + 1 OBVIOUS
    <2>2. \A i \in 1 .. n : i \in 1 .. n + 1 OBVIOUS
    <2>. QED BY <1>2, <2>1, <2>2
  <1>3. is(c, n + 1) = {n + 1}
    <2>1. n + 1 \in 1 .. n + 1 OBVIOUS
    <2>2. ASSUME NEW i \in 1 .. n + 1, CellOf(addr, i) = c PROVE i = n + 1
      <3>1. n + 1 \in Nat /\ n + 1 <= CHIP_SIZE BY ChipOK
      <3>. QED BY <2>1, <2>2, <3>1, CellsDistinct
    <2>. HIDE DEF c
    <2>3. c = CellOf(addr, n + 1) BY DEF c
    <2>. QED BY <2>1, <2>2, <2>3
  <1>4. Written(m, addr, s, n + 1) =
          [a \in Cells |-> IF is(a, n + 1) = {} THEN m[a] ELSE s[CHOOSE i \in is(a, n + 1) : TRUE]]
    BY DEF Written
  <1>5. Written(m, addr, s, n) =
          [a \in Cells |-> IF is(a, n) = {} THEN m[a] ELSE s[CHOOSE i \in is(a, n) : TRUE]]
    BY DEF Written
  <1>6. (CHOOSE i \in {n + 1} : TRUE) = n + 1 OBVIOUS
  <1>. DEFINE some(S) == CHOOSE i \in S : TRUE
              At(a, k) == IF is(a, k) = {} THEN m[a] ELSE s[some(is(a, k))]
  <1>7. At(c, n + 1) = s[n + 1]
    <2>1. some({n + 1}) = n + 1 BY <1>6
    <2>. HIDE DEF is, c, some
    <2>. QED BY <1>3, <2>1
  <1>8. ASSUME NEW a \in Cells, a # c PROVE At(a, n + 1) = At(a, n)
    <2>1. is(a, n + 1) = is(a, n) BY <1>2, <1>8
    <2>. HIDE DEF is, c, some
    <2>. QED BY <2>1
  <1>9. /\ Written(m, addr, s, n + 1) = [a \in Cells |-> At(a, n + 1)]
        /\ Written(m, addr, s, n) = [a \in Cells |-> At(a, n)]
    BY <1>4, <1>5
  <1>. HIDE DEF At, c
  <1>10. Written(m, addr, s, n + 1) = [Written(m, addr, s, n) EXCEPT ![c] = s[n + 1]]
    BY <1>1, <1>7, <1>8, <1>9
  <1>. QED BY <1>10 DEF c

LEMMA WrittenType ==
  ASSUME NEW m \in [Cells -> ByteValues], NEW addr \in Nat, NEW s \in Seq(ByteValues),
         NEW n \in Nat, n <= Len(s)
  PROVE  Written(m, addr, s, n) \in [Cells -> ByteValues]
  <1>1. \A i \in 1 .. n : s[i] \in ByteValues OBVIOUS
  <1>2. ASSUME NEW a \in Cells
        PROVE  LET is == {i \in 1 .. n : CellOf(addr, i) = a}
               IN  (IF is = {} THEN m[a] ELSE s[CHOOSE i \in is : TRUE]) \in ByteValues
    <2>. DEFINE is == {i \in 1 .. n : CellOf(addr, i) = a}
    <2>1. CASE is = {} BY <2>1
    <2>2. CASE is # {}
      <3>1. (CHOOSE i \in is : TRUE) \in is BY <2>2
      <3>2. (CHOOSE i \in is : TRUE) \in 1 .. n BY <3>1
      <3>. HIDE DEF is
      <3>. QED BY <1>1, <2>2, <3>2
    <2>. QED BY <2>1, <2>2
  <1>. QED BY <1>2 DEF Written

LEMMA WrittenNone ==
  ASSUME NEW m \in [Cells -> ByteValues], NEW addr, NEW s
  PROVE  Written(m, addr, s, 0) = m
  <1>1. \A a \in Cells : {i \in 1 .. 0 : CellOf(addr, i) = a} = {} OBVIOUS
  <1>2. Written(m, addr, s, 0) = [a \in Cells |-> m[a]] BY <1>1 DEF Written
  <1>. QED BY <1>2

LEMMA LoadedOK ==
  ASSUME NEW m \in [Cells -> ByteValues], NEW addr \in Nat, NEW n \in Nat
  PROVE  /\ Loaded(m, addr, n) \in Seq(ByteValues) /\ Len(Loaded(m, addr, n)) = n
         /\ Loaded(m, addr, 0) = <<>>
         /\ Append(Loaded(m, addr, n), m[CellOf(addr, n + 1)]) = Loaded(m, addr, n + 1)
  <1>1. \A k \in Nat : Loaded(m, addr, k) \in [1 .. k -> ByteValues]
    BY CellOK DEF Loaded
  <1>2. \A k \in Nat : Loaded(m, addr, k) \in Seq(ByteValues) /\ Len(Loaded(m, addr, k)) = k
    BY <1>1
  <1>3. Loaded(m, addr, 0) = <<>> BY <1>2
  <1>4. m[CellOf(addr, n + 1)] \in ByteValues BY CellOK
  <1>5. \A k \in Nat : \A i \in 1 .. k : Loaded(m, addr, k)[i] = m[CellOf(addr, i)]
    BY DEF Loaded
  <1>6. Append(Loaded(m, addr, n), m[CellOf(addr, n + 1)]) = Loaded(m, addr, n + 1)
    <2>. DEFINE l == Loaded(m, addr, n)
                r == Loaded(m, addr, n + 1)
                e == m[CellOf(addr, n + 1)]
    <2>1. l \in Seq(ByteValues) /\ Len(l) = n /\ r \in Seq(ByteValues) /\ Len(r) = n + 1
      BY <1>2
    <2>2. e \in ByteValues BY <1>4
    <2>3. (\A i \in 1 .. n : l[i] = r[i]) /\ r[n + 1] = e BY <1>5
    <2>. HIDE DEF l, r, e
    <2>4. /\ Append(l, e) \in Seq(ByteValues) /\ Len(Append(l, e)) = n + 1
          /\ \A i \in 1 .. n + 1 : Append(l, e)[i] = IF i = n + 1 THEN e ELSE l[i]
      BY <2>1, <2>2
    <2>5. \A i \in 1 .. n + 1 : Append(l, e)[i] = r[i]
      BY <2>3, <2>4
    <2>6. Append(l, e) = r BY <2>1, <2>4, <2>5, SeqEqual
    <2>. QED BY <2>6 DEF l, r, e
  <1>. QED BY <1>2, <1>3, <1>6

-----------------------------------------------------------------------------
(***************************************************************************)
(* Every step keeps the invariant.                                         *)
(***************************************************************************)

\* The values of no bytes are none, and theirs are none.
LEMMA BytesOfNone == BytesOfAll("Byte", <<>>) = <<>>
  <1>1. <<>> \in Seq(Values("Byte")) /\ Len(<<>>) = 0 OBVIOUS
  <1>2. "Byte" \in Kinds /\ Width("Byte") = 1 BY DEF Kinds, Width
  <1>3. BytesOfAll("Byte", <<>>) \in Seq(ByteValues) /\ Len(BytesOfAll("Byte", <<>>)) = 0
    <2>1. /\ BytesOfAll("Byte", <<>>) \in Seq(ByteValues)
          /\ Len(BytesOfAll("Byte", <<>>)) = Len(<<>>) * Width("Byte")
      BY <1>1, <1>2, BytesOfAllType
    <2>. QED BY <1>1, <1>2, <2>1
  <1>. QED BY <1>3

LEMMA NoResultTyped ==
  /\ result = NoResult => TypedResult
  /\ result' = NoResult => TypedResult'
  <1>1. DOMAIN <<>> = {} OBVIOUS
  <1>. QED BY <1>1, BytesOfNone DEF NoResult, TypedResult

LEMMA InitDriverInv == DriverInit => DriverInv
  <1>. SUFFICES ASSUME DriverInit PROVE DriverInv OBVIOUS
  <1>1. /\ request = [cmd |-> "begin", addr |-> 0, bytes |-> <<>>]
        /\ result = NoResult /\ ~ selected /\ tx = <<>>
    BY DEF DriverInit, NoRequest
  <1>2. Shapes
    <2>1. 0 \in ByteValues BY BytePositive DEF ByteValues
    <2>. QED BY <1>1, <2>1 DEF DriverInit, Shapes, Kinds
  <1>3. Beginning BY <1>1 DEF Beginning, NoRequest
  <1>4. Idle /\ InCall BY <1>1 DEF Idle, InCall, Busy, NoRequest
  <1>5. TypedResult BY <1>1, NoResultTyped
  <1>. QED BY <1>2, <1>3, <1>4, <1>5 DEF DriverInv

LEMMA beginKeeps ==
  ASSUME DriverInv, begin
  PROVE  DriverInv'
  <1>1. request.cmd = "begin" /\ ~ selected /\ Select(TRUE)
        /\ tx' = <<"WRMR", "SEQ_MODE">>
        /\ UNCHANGED <<mem, mode, request, kind, rx, result, before>>
    BY DEF begin
  <1>2. selected' /\ received' = 0 /\ cmd' = "none" /\ selected' \in BOOLEAN
    BY <1>1 DEF Select, DriverInv, Shapes
  <1>3. Shapes' BY <1>1, <1>2 DEF DriverInv, Shapes
  <1>4. Beginning' BY <1>1, <1>2 DEF DriverInv, Beginning
  <1>5. Idle' /\ InCall' BY <1>1 DEF Idle, InCall, Busy, NoRequest
  <1>6. TypedResult' BY <1>1 DEF DriverInv, TypedResult
  <1>. QED BY <1>3, <1>4, <1>5, <1>6 DEF DriverInv

LEMMA CallKeeps ==
  ASSUME DriverInv, NEW op \in {"READ", "WRITE"}, NEW addr \in Nat, NEW k \in Kinds,
         NEW s \in Seq(ByteValues), Len(s) <= CHIP_SIZE,
         NEW n \in Nat, Len(s) = n * Width(k),
         Call(op, addr, k, s)
  PROVE  DriverInv'
  <1>1. /\ request = NoRequest /\ Select(TRUE)
        /\ request' = [cmd |-> op, addr |-> addr, bytes |-> s]
        /\ kind' = k /\ tx' = Whole(op, addr, s) /\ rx' = <<>>
        /\ before' = mem /\ result' = NoResult /\ mem' = mem /\ mode' = mode
    BY DEF Call, Whole
  <1>2. ~ selected /\ mode = "SEQ_MODE" /\ mem \in [Cells -> ByteValues]
    BY <1>1 DEF DriverInv, Idle, Shapes
  <1>3. selected' /\ selected' \in BOOLEAN /\ cmd' = "none" /\ received' = 0 /\ pointer' = 0
    BY <1>1, <1>2 DEF Select, DriverInv, Shapes
  <1>4. request'.cmd = op /\ request'.addr = addr /\ request'.bytes = s BY <1>1
  <1>5. Size' = Len(s) /\ Sending' = Whole(op, addr, s) BY <1>4 DEF Size, Sending
  <1>6. /\ tx' \in Seq({"READ", "WRITE"} \cup ByteValues) /\ Len(tx') = 4 + Len(s)
        /\ Len(s) \in Nat
    <2>1. /\ Whole(op, addr, s) \in Seq({"READ", "WRITE"} \cup ByteValues)
          /\ Len(Whole(op, addr, s)) = 4 + Len(s)
      BY WholeOK
    <2>2. Len(s) \in Nat OBVIOUS
    <2>. QED BY <1>1, <2>1, <2>2
  <1>7. Sent' = 0 /\ Moved' = 0
    <2>1. Sent' = 4 + Size' - Len(tx') BY DEF Sent
    <2>2. Sent' = 0 BY <1>5, <1>6, <2>1
    <2>3. Moved' = IF Sent' < 4 THEN 0 ELSE Sent' - 4 BY DEF Moved
    <2>. QED BY <2>2, <2>3
  <1>8. CallOK'
    <2>1. \E m \in 0 .. Len(s) : Len(s) = m * Width(k)
      <3>1. PICK w \in {1, 2, 4} : Width(k) = w BY WidthOK
      <3>2. n \in 0 .. Len(s) BY <3>1, <1>6
      <3>. QED BY <3>2
    <2>. QED BY <1>1, <1>2, <1>4, <1>5, <2>1 DEF CallOK
  <1>9. TailLeft'
    <2>1. \A j \in 1 .. Len(tx') : 0 + j = j OBVIOUS
    <2>2. \A j \in 1 .. Len(tx') : tx'[j] = Sending'[Sent' + j]
      BY <1>1, <1>5, <1>7, <2>1
    <2>. QED BY <1>5, <1>6, <2>2 DEF TailLeft
  <1>10. ChipInStep'
    <2>1. PointerAfter(addr, 0) = 0 BY DEF PointerAfter
    <2>. QED BY <1>1, <1>2, <1>3, <1>4, <1>7, <2>1 DEF ChipInStep
  <1>11. BlockInStep'
    <2>1. Written(mem, addr, s, 0) = mem BY <1>2, WrittenNone
    <2>2. Loaded(mem, addr, 0) = <<>> BY <1>2, LoadedOK
    <2>. QED BY <1>1, <1>4, <1>7, <2>1, <2>2 DEF BlockInStep
  <1>12. InCall' BY <1>8, <1>9, <1>10, <1>11 DEF InCall
  <1>13. request'.cmd # "begin" /\ request' # NoRequest BY <1>4 DEF NoRequest
  <1>14. Shapes' BY <1>1, <1>2, <1>3, <1>4 DEF DriverInv, Shapes
  <1>15. Beginning' /\ Idle' BY <1>13 DEF Beginning, Idle
  <1>16. TypedResult'
    <2>1. result' = NoResult BY <1>1
    <2>. QED BY <2>1, NoResultTyped
  <1>. QED BY <1>12, <1>14, <1>15, <1>16 DEF DriverInv

-----------------------------------------------------------------------------
(***************************************************************************)
(* A transfer.                                                             *)
(***************************************************************************)

\* What is left to send gets shorter by its head.
LEMMA TransferTail ==
  ASSUME DriverInv, Busy, Transfer
  PROVE  /\ request.cmd \in {"READ", "WRITE"}
         /\ request' = request /\ kind' = kind /\ result' = result /\ before' = before
         /\ selected /\ selected' = selected /\ Receive(Head(tx))
         /\ Size \in Nat /\ Size' = Size /\ Sent \in 0 .. 3 + Size /\ Sent' = Sent + 1
         /\ Head(tx) = Sending[Sent + 1]
         /\ TailLeft'
  <1>1. /\ request.cmd \in {"READ", "WRITE"} /\ CallOK /\ TailLeft BY DEF DriverInv, InCall, Busy
  <1>2. /\ request' = request /\ kind' = kind /\ result' = result /\ before' = before
        /\ selected /\ selected' = selected /\ Receive(Head(tx))
        /\ tx # <<>> /\ tx' = Tail(tx)
    BY DEF Transfer, Receive
  <1>3. Size \in Nat /\ Size' = Size /\ Sending' = Sending
    BY <1>1, <1>2 DEF CallOK, Size, Sending
  <1>. DEFINE T == {"READ", "WRITE"} \cup ByteValues
  <1>4. tx \in Seq(T) /\ Len(tx) <= 4 + Size BY <1>1 DEF TailLeft
  <1>. HIDE DEF T
  <1>5. /\ Len(tx) \in Nat \ {0} /\ Head(tx) = tx[1]
        /\ tx' \in Seq(T) /\ Len(tx') = Len(tx) - 1
        /\ \A k \in 1 .. Len(tx') : tx'[k] = tx[k + 1]
    BY <1>2, <1>4, HeadTailProperties
  <1>6. Sent \in 0 .. 3 + Size /\ Sent' = Sent + 1
    <2>1. Sent = 4 + Size - Len(tx) /\ Sent' = 4 + Size' - Len(tx') BY DEF Sent
    <2>. QED BY <1>3, <1>4, <1>5, <2>1
  <1>7. \A k \in 1 .. Len(tx) : tx[k] = Sending[Sent + k] BY <1>1 DEF TailLeft
  <1>8. Head(tx) = Sending[Sent + 1] BY <1>5, <1>7
  <1>9. ASSUME NEW k \in 1 .. Len(tx') PROVE tx'[k] = Sending'[Sent' + k]
    <2>1. k + 1 \in 1 .. Len(tx) BY <1>5
    <2>2. tx'[k] = Sending[Sent + (k + 1)] BY <1>5, <1>7, <2>1
    <2>3. Sent' + k = Sent + (k + 1) BY <1>6
    <2>. QED BY <1>3, <2>2, <2>3
  <1>10. TailLeft'
    <2>1. Len(tx') <= 4 + Size' BY <1>3, <1>4, <1>5
    <2>. QED BY <1>5, <1>9, <2>1 DEF TailLeft, T
  <1>. QED BY <1>1, <1>2, <1>3, <1>6, <1>8, <1>10

\* The chip takes the command, the address and the block.
LEMMA TransferChip ==
  ASSUME DriverInv, Busy, Transfer
  PROVE  ChipInStep'
  <1>1. /\ request.cmd \in {"READ", "WRITE"} /\ request' = request
        /\ selected /\ selected' = selected /\ Receive(Head(tx))
        /\ Size \in Nat /\ Sent \in 0 .. 3 + Size /\ Sent' = Sent + 1
        /\ Head(tx) = Sending[Sent + 1]
    BY TransferTail
  <1>2. ChipInStep /\ CallOK BY DEF DriverInv, InCall
  <1>3. request.addr \in Nat /\ request.bytes \in Seq(ByteValues) BY <1>2 DEF CallOK
  <1>4. /\ Sending[1] = request.cmd
        /\ \A k \in 1 .. 3 : Sending[1 + k] = AddressBytes(request.addr)[k]
    BY <1>1, <1>3, WholeOK DEF Sending
  <1>. DEFINE b == Head(tx)
              n == Sent
              P(k) == PointerAfter(request.addr, k)
  <1>5. /\ selected /\ mode = "SEQ_MODE" /\ received = (IF n < 4 THEN n ELSE 4)
        /\ cmd = (IF n = 0 THEN "none" ELSE request.cmd) /\ pointer = P(n)
    BY <1>2 DEF ChipInStep
  <1>6. /\ received' = IF received < 4 THEN received + 1 ELSE received
        /\ cmd' = IF received = 0 THEN b ELSE cmd
        /\ mode' = IF received = 1 /\ cmd = "WRMR" THEN b ELSE mode
        /\ pointer' =
             CASE received \in 1 .. 3 /\ cmd # "WRMR" -> (pointer * BYTE + b) % CHIP_SIZE
               [] received = 4                        -> NextCell
               [] OTHER                               -> pointer
    BY <1>1 DEF Receive
  <1>7. n \in Nat /\ n' = n + 1 BY <1>1
  <1>8. /\ n = 0 => P(n + 1) = P(n)
        /\ n \in 1 .. 3 => P(n + 1) = (P(n) * BYTE + AddressBytes(request.addr)[n]) % CHIP_SIZE
        /\ n >= 4 => P(n + 1) = (P(n) + 1) % CHIP_SIZE
    BY <1>3, <1>7, PointerNext
  <1>9. /\ n = 0 => b = request.cmd
        /\ n \in 1 .. 3 => b = AddressBytes(request.addr)[n]
    <2>1. CASE n = 0 BY <1>1, <1>4, <2>1
    <2>2. CASE n \in 1 .. 3
      <3>1. n + 1 = 1 + n BY <1>7
      <3>. QED BY <1>1, <1>4, <2>2, <3>1
    <2>3. CASE n >= 4 BY <2>3
    <2>. QED BY <1>7, <2>1, <2>2, <2>3
  <1>. HIDE DEF b, n, P
  <1>10. received' = (IF n + 1 < 4 THEN n + 1 ELSE 4) BY <1>5, <1>6, <1>7
  <1>11. cmd' = request.cmd BY <1>5, <1>6, <1>7, <1>9
  <1>12. mode' = "SEQ_MODE" BY <1>1, <1>5, <1>6, <1>7
  <1>13. pointer' = P(n + 1)
    <2>1. CASE n = 0
      <3>1. received = 0 BY <1>5, <2>1
      <3>. QED BY <1>5, <1>6, <1>8, <2>1, <3>1
    <2>2. CASE n \in 1 .. 3
      <3>1. received = n /\ cmd # "WRMR" BY <1>1, <1>5, <2>2
      <3>. QED BY <1>5, <1>6, <1>8, <1>9, <2>2, <3>1
    <2>3. CASE n >= 4
      <3>1. received = 4 BY <1>5, <1>7, <2>3
      <3>2. pointer' = NextCell BY <1>6, <3>1
      <3>. QED BY <1>5, <1>8, <2>3, <3>2 DEF NextCell
    <2>. QED BY <1>7, <2>1, <2>2, <2>3
  <1>14. n' = n + 1 /\ n' = Sent' BY <1>7 DEF n
  <1>15. PointerAfter(request.addr, Sent') = pointer' BY <1>13, <1>14 DEF P
  <1>16. Sent' # 0 BY <1>7, <1>14
  <1>. QED BY <1>1, <1>10, <1>11, <1>12, <1>14, <1>15, <1>16 DEF ChipInStep

\* A byte more of the block is moved.
LEMMA TransferBlock ==
  ASSUME DriverInv, Busy, Transfer
  PROVE  BlockInStep' /\ mem' \in [Cells -> ByteValues]
  <1>1. /\ request.cmd \in {"READ", "WRITE"} /\ request' = request /\ before' = before
        /\ Receive(Head(tx))
        /\ Size \in Nat /\ Sent \in 0 .. 3 + Size /\ Sent' = Sent + 1
        /\ Head(tx) = Sending[Sent + 1]
    BY TransferTail
  <1>2. ChipInStep /\ CallOK /\ BlockInStep /\ mem \in [Cells -> ByteValues]
    BY DEF DriverInv, InCall, Shapes
  <1>3. PICK addr \in Nat, s \in Seq(ByteValues) : addr = request.addr /\ s = request.bytes
    BY <1>2 DEF CallOK
  <1>4. Size = Len(s) /\ Len(s) \in Nat /\ Len(s) <= CHIP_SIZE
        /\ before \in [Cells -> ByteValues]
    BY <1>2, <1>3 DEF CallOK, Size
  <1>5. \A k \in 1 .. Len(s) : Sending[4 + k] = s[k]
    <2>1. PICK op \in {"READ", "WRITE"} : op = request.cmd BY <1>1
    <2>2. \A k \in 1 .. Len(s) : Whole(op, addr, s)[4 + k] = s[k] BY WholeOK
    <2>3. Sending = Whole(op, addr, s) BY <1>3, <2>1 DEF Sending
    <2>. QED BY <2>2, <2>3
  <1>6. /\ received = (IF Sent < 4 THEN Sent ELSE 4)
        /\ cmd = (IF Sent = 0 THEN "none" ELSE request.cmd)
        /\ pointer = PointerAfter(addr, Sent)
    BY <1>2, <1>3 DEF ChipInStep
  <1>7. /\ mem' = IF received = 4 /\ cmd = "WRITE" THEN [mem EXCEPT ![pointer] = Head(tx)]
                  ELSE mem
        /\ rx' = IF request.cmd = "READ" /\ received = 4 THEN Append(rx, Answer) ELSE rx
    BY <1>1 DEF Receive, Transfer
  <1>8. /\ request.cmd = "WRITE" => mem = Written(before, addr, s, Moved) /\ rx = <<>>
        /\ request.cmd = "READ" => mem = before /\ rx = Loaded(before, addr, Moved)
    BY <1>2, <1>3 DEF BlockInStep
  <1>9. CASE Sent < 4
    <2>1. received # 4 BY <1>1, <1>6, <1>9
    <2>2. mem' = mem /\ rx' = rx BY <1>7, <2>1
    <2>3. Moved = 0 /\ Moved' = 0
      <3>1. Moved' = IF Sent' < 4 THEN 0 ELSE Sent' - 4 BY DEF Moved
      <3>. QED BY <1>1, <1>9, <3>1 DEF Moved
    <2>. QED BY <1>1, <1>2, <2>2, <2>3 DEF BlockInStep
  <1>10. CASE Sent >= 4
    <2>. DEFINE n == Moved
    <2>1. /\ n \in Nat /\ n = Sent - 4 /\ n < Len(s) /\ Moved' = n + 1
      <3>1. Moved' = IF Sent' < 4 THEN 0 ELSE Sent' - 4 BY DEF Moved
      <3>. QED BY <1>1, <1>4, <1>10, <3>1 DEF Moved
    <2>2. received = 4 /\ cmd = request.cmd BY <1>1, <1>6, <1>10
    <2>3. pointer = CellOf(addr, n + 1)
      <3>1. PointerAfter(addr, Sent) = CellOf(addr, (Sent - 4) + 1)
        BY <1>1, <1>10, PointerNext
      <3>. QED BY <1>6, <2>1, <3>1
    <2>4. Head(tx) = s[n + 1]
      <3>1. n + 1 \in 1 .. Len(s) /\ Sent + 1 = 4 + (n + 1) BY <1>1, <1>4, <2>1
      <3>. QED BY <1>1, <1>5, <3>1
    <2>. HIDE DEF n
    <2>5. CASE request.cmd = "WRITE"
      <3>1. mem' = [mem EXCEPT ![CellOf(addr, n + 1)] = s[n + 1]] /\ rx' = <<>>
        BY <1>7, <1>8, <2>2, <2>3, <2>4, <2>5
      <3>2. mem = Written(before, addr, s, n) BY <1>8, <2>5 DEF n
      <3>3. mem' = Written(before, addr, s, n + 1)
        <4>1. Written(before, addr, s, n + 1) =
                [Written(before, addr, s, n) EXCEPT ![CellOf(addr, n + 1)] = s[n + 1]]
          BY <1>4, <2>1, WrittenNext
        <4>. QED BY <3>1, <3>2, <4>1
      <3>4. Written(before, addr, s, n + 1) \in [Cells -> ByteValues]
        BY <1>4, <2>1, WrittenType
      <3>. QED BY <1>1, <1>3, <2>1, <2>5, <3>1, <3>3, <3>4 DEF BlockInStep
    <2>6. CASE request.cmd = "READ"
      <3>1. mem' = mem /\ mem = before BY <1>7, <1>8, <2>2, <2>6
      <3>2. rx = Loaded(before, addr, n) BY <1>8, <2>6 DEF n
      <3>3. Answer = before[CellOf(addr, n + 1)]
        BY <2>2, <2>3, <2>6, <3>1 DEF Answer
      <3>4. rx' = Append(rx, before[CellOf(addr, n + 1)])
        BY <1>7, <2>2, <2>6, <3>3
      <3>5. rx' = Loaded(before, addr, n + 1)
        BY <1>4, <2>1, <3>2, <3>4, LoadedOK
      <3>. QED BY <1>1, <1>2, <1>3, <2>1, <2>6, <3>1, <3>5 DEF BlockInStep
    <2>. QED BY <1>1, <2>5, <2>6
  <1>. QED BY <1>1, <1>9, <1>10

\* setMode sends its command, then the mode.
LEMMA TransferBegins ==
  ASSUME DriverInv, request.cmd = "begin", Transfer
  PROVE  DriverInv'
  <1>1. /\ request = [NoRequest EXCEPT !.cmd = "begin"] /\ result = NoResult /\ selected
        /\ tx # <<>> /\ Shapes
    BY DEF DriverInv, Beginning, Transfer
  <1>2. /\ request' = request /\ kind' = kind /\ result' = result /\ selected' = selected
        /\ rx' = rx /\ tx' = Tail(tx) /\ Receive(Head(tx))
    BY DEF Transfer, Receive
  <1>3. cmd # "WRITE"
    BY <1>1 DEF DriverInv, Beginning
  <1>4. mem' = mem BY <1>2, <1>3 DEF Receive
  <1>5. CASE received = 0 /\ cmd = "none" /\ tx = <<"WRMR", "SEQ_MODE">>
    <2>1. Head(tx) = "WRMR" /\ Tail(tx) = <<"SEQ_MODE">> BY <1>5
    <2>2. received' = 1 /\ cmd' = "WRMR" /\ mode' = mode BY <1>2, <1>5, <2>1 DEF Receive
    <2>. QED BY <1>1, <1>2, <1>4, <2>1, <2>2 DEF DriverInv, Beginning, Shapes, Idle, InCall, Busy,
             TypedResult, NoRequest
  <1>6. CASE received = 1 /\ cmd = "WRMR" /\ tx = <<"SEQ_MODE">>
    <2>1. Head(tx) = "SEQ_MODE" /\ Tail(tx) = <<>> BY <1>6
    <2>2. received' = 2 /\ cmd' = "WRMR" /\ mode' = "SEQ_MODE" BY <1>2, <1>6, <2>1 DEF Receive
    <2>. QED BY <1>1, <1>2, <1>4, <2>1, <2>2 DEF DriverInv, Beginning, Shapes, Idle, InCall, Busy,
             TypedResult, NoRequest
  <1>. QED BY <1>1, <1>5, <1>6 DEF DriverInv, Beginning

LEMMA TransferKeeps ==
  ASSUME DriverInv, Transfer
  PROVE  DriverInv'
  <1>1. CASE request.cmd = "begin" BY <1>1, TransferBegins
  <1>2. CASE Busy
    <2>1. /\ request' = request /\ kind' = kind /\ result' = result /\ before' = before
          /\ selected' = selected /\ Size' = Size /\ TailLeft'
          /\ request.cmd \in {"READ", "WRITE"}
      BY <1>2, TransferTail
    <2>2. ChipInStep' BY <1>2, TransferChip
    <2>3. BlockInStep' /\ mem' \in [Cells -> ByteValues] BY <1>2, TransferBlock
    <2>4. CallOK' BY <1>2, <2>1 DEF DriverInv, InCall, CallOK
    <2>5. InCall' BY <2>1, <2>2, <2>3, <2>4 DEF InCall
    <2>6. mode' = "SEQ_MODE" BY <2>2 DEF ChipInStep
    <2>7. Shapes' BY <2>1, <2>3, <2>6 DEF DriverInv, Shapes
    <2>8. Beginning' /\ Idle' BY <2>1 DEF Beginning, Idle, NoRequest
    <2>9. TypedResult' BY <2>1 DEF DriverInv, TypedResult
    <2>. QED BY <2>5, <2>7, <2>8, <2>9 DEF DriverInv
  <1>3. CASE request = NoRequest
    BY <1>3 DEF DriverInv, Idle, Transfer
  <1>. QED BY <1>1, <1>2, <1>3 DEF DriverInv, Shapes, Busy

-----------------------------------------------------------------------------
(***************************************************************************)
(* The end of a call.                                                      *)
(***************************************************************************)

\* At the end of a call the whole block has been moved.
LEMMA DeselectMoves ==
  ASSUME DriverInv, Busy, Deselect
  PROVE  /\ request.cmd \in {"READ", "WRITE"} /\ result = NoResult
         /\ request.addr \in Nat /\ request.bytes \in Seq(ByteValues)
         /\ Size \in Nat /\ Moved = Size /\ before \in [Cells -> ByteValues]
         /\ request.cmd = "WRITE" => mem = Written(before, request.addr, request.bytes, Size)
         /\ request.cmd = "READ" => mem = before /\ rx = Loaded(before, request.addr, Size)
         /\ mode = "SEQ_MODE"
         /\ \E n \in Nat : Size = n * Width(kind)
  <1>1. /\ request.cmd \in {"READ", "WRITE"} /\ CallOK /\ BlockInStep /\ ChipInStep
    BY DEF DriverInv, InCall, Busy
  <1>2. /\ request.addr \in Nat /\ request.bytes \in Seq(ByteValues) /\ Size \in Nat
    BY <1>1 DEF CallOK, Size
  <1>3. tx = <<>> BY DEF Deselect
  <1>4. Moved = Size
    <2>1. Sent = 4 + Size BY <1>2, <1>3 DEF Sent
    <2>. QED BY <1>2, <2>1 DEF Moved
  <1>5. \E n \in Nat : Size = n * Width(kind)
    <2>1. PICK n \in 0 .. Size : Size = n * Width(kind) BY <1>1 DEF CallOK
    <2>2. n \in Nat BY <1>2
    <2>. QED BY <2>1, <2>2
  <1>. QED BY <1>1, <1>2, <1>4, <1>5 DEF CallOK, BlockInStep, ChipInStep

LEMMA DeselectKeeps ==
  ASSUME DriverInv, Deselect
  PROVE  DriverInv'
  <1>1. /\ selected /\ tx = <<>> /\ Select(FALSE)
        /\ request' = NoRequest /\ kind' = "Byte" /\ rx' = <<>>
        /\ result' = IF request.cmd # "READ" THEN NoResult
                     ELSE [kind |-> kind, bytes |-> rx, vals |-> ValuesOfAll(kind, rx)]
        /\ before' = mem /\ mem' = mem /\ mode' = mode /\ tx' = tx
    BY DEF Deselect
  <1>2. selected' = FALSE BY <1>1 DEF Select
  <1>3. Shapes' BY <1>1, <1>2 DEF DriverInv, Shapes, Kinds
  <1>4. mode = "SEQ_MODE"
    <2>1. CASE request.cmd = "begin" BY <1>1, <2>1 DEF DriverInv, Beginning
    <2>2. CASE Busy BY <2>2, DeselectMoves
    <2>3. CASE request = NoRequest BY <2>3 DEF DriverInv, Idle
    <2>. QED BY <2>1, <2>2, <2>3 DEF DriverInv, Shapes, Busy
  <1>5. Idle' BY <1>1, <1>2, <1>4 DEF Idle
  <1>6. Beginning' /\ InCall' BY <1>1 DEF Beginning, InCall, Busy, NoRequest
  <1>7. TypedResult'
    <2>1. CASE request.cmd # "READ"
      <3>1. result' = NoResult BY <1>1, <2>1
      <3>. QED BY <3>1, NoResultTyped
    <2>2. CASE request.cmd = "READ"
      <3>1. Busy BY <2>2 DEF Busy
      <3>2. PICK n \in Nat : Size = n * Width(kind) BY <3>1, DeselectMoves
      <3>3. rx \in Seq(ByteValues) /\ Len(rx) = Size
        <4>1. /\ rx = Loaded(before, request.addr, Size) /\ Size \in Nat
              /\ request.addr \in Nat /\ before \in [Cells -> ByteValues]
          BY <2>2, <3>1, DeselectMoves
        <4>. QED BY <4>1, LoadedOK
      <3>4. kind \in Kinds BY DEF DriverInv, Shapes
      <3>5. /\ \A i \in DOMAIN ValuesOfAll(kind, rx) : ValuesOfAll(kind, rx)[i] \in Values(kind)
            /\ BytesOfAll(kind, ValuesOfAll(kind, rx)) = rx
        BY <3>2, <3>3, <3>4, ValuesRoundTrip
      <3>6. result'.kind = kind /\ result'.bytes = rx /\ result'.vals = ValuesOfAll(kind, rx)
        BY <1>1, <2>2
      <3>. QED BY <3>5, <3>6 DEF TypedResult
    <2>. QED BY <2>1, <2>2
  <1>. QED BY <1>3, <1>5, <1>6, <1>7 DEF DriverInv

-----------------------------------------------------------------------------
(***************************************************************************)
(* The invariant always holds.                                             *)
(***************************************************************************)

\* What the callers pass is what a call can be begun with.
LEMMA CallsOK ==
  ASSUME NEW addr \in CallAddrs, NEW c \in Calls,
         write(addr, c.kind, c.vals) \/ read(addr, c.kind, Len(c.vals))
  PROVE  \E op \in {"READ", "WRITE"}, a \in Nat, k \in Kinds, s \in Seq(ByteValues), n \in Nat :
           Len(s) <= CHIP_SIZE /\ Len(s) = n * Width(k) /\ Call(op, a, k, s)
  <1>1. /\ addr \in Nat /\ c.kind \in Kinds /\ c.vals \in Seq(Values(c.kind))
        /\ Len(c.vals) * Width(c.kind) <= CHIP_SIZE
    BY DriverConstantsOK
  <1>2. PICK a \in Nat, k \in Kinds : a = addr /\ k = c.kind BY <1>1
  <1>3. PICK v \in Seq(Values(k)) : v = c.vals BY <1>1, <1>2
  <1>4. PICK n \in Nat : n = Len(v) BY <1>3
  <1>5. PICK w \in {1, 2, 4} : w = Width(k) BY WidthOK
  <1>6. PICK l \in Nat : l = n * w
    <2>1. n * w \in Nat BY <1>5
    <2>. QED BY <2>1
  <1>7. l <= CHIP_SIZE BY <1>1, <1>2, <1>4, <1>5, <1>6, <1>3
  <1>8. CASE write(addr, c.kind, c.vals)
    <2>1. PICK s \in Seq(ByteValues) : s = BytesOfAll(k, v) /\ Len(s) = Len(v) * Width(k)
      BY <1>3, BytesOfAllType
    <2>2. Len(s) = l BY <1>4, <1>5, <1>6, <2>1
    <2>3. Call("WRITE", a, k, s) BY <1>2, <1>8, <1>3, <2>1 DEF write
    <2>4. Len(s) <= CHIP_SIZE /\ Len(s) = n * Width(k) BY <1>5, <1>6, <1>7, <2>2
    <2>. QED BY <2>3, <2>4
  <1>9. CASE read(addr, c.kind, Len(c.vals))
    <2>1. 0 \in ByteValues BY BytePositive DEF ByteValues
    <2>2. PICK s \in Seq(ByteValues) : s = [i \in 1 .. l |-> 0] /\ Len(s) = l
      <3>1. [i \in 1 .. l |-> 0] \in [1 .. l -> ByteValues] BY <2>1
      <3>2. [i \in 1 .. l |-> 0] \in Seq(ByteValues) BY <3>1
      <3>3. Len([i \in 1 .. l |-> 0]) = l OBVIOUS
      <3>. QED BY <3>2, <3>3
    <2>3. Call("READ", a, k, s) BY <1>2, <1>4, <1>5, <1>6, <1>9, <1>3, <2>2 DEF read
    <2>4. Len(s) <= CHIP_SIZE /\ Len(s) = n * Width(k) BY <1>5, <1>6, <1>7, <2>2
    <2>. QED BY <2>3, <2>4
  <1>. QED BY <1>8, <1>9

LEMMA DriverInductive == DriverInv /\ [DriverNext]_driverVars => DriverInv'
  <1>. SUFFICES ASSUME DriverInv, [DriverNext]_driverVars PROVE DriverInv'
    OBVIOUS
  <1>1. CASE begin BY <1>1, beginKeeps
  <1>2. ASSUME NEW addr \in CallAddrs, NEW c \in Calls,
               write(addr, c.kind, c.vals) \/ read(addr, c.kind, Len(c.vals))
        PROVE  DriverInv'
    <2>1. PICK op \in {"READ", "WRITE"}, a \in Nat, k \in Kinds, s \in Seq(ByteValues), n \in Nat :
            Len(s) <= CHIP_SIZE /\ Len(s) = n * Width(k) /\ Call(op, a, k, s)
      BY <1>2, CallsOK
    <2>. QED BY <2>1, CallKeeps
  <1>3. CASE Transfer BY <1>3, TransferKeeps
  <1>4. CASE Deselect BY <1>4, DeselectKeeps
  <1>5. CASE UNCHANGED driverVars
    BY <1>5 DEF driverVars, chip, DriverInv, Shapes, Beginning, Idle, InCall, Busy, CallOK,
      TailLeft, ChipInStep, BlockInStep, Sending, Size, Sent, Moved, TypedResult
  <1>. QED BY <1>1, <1>2, <1>3, <1>4, <1>5 DEF DriverNext

LEMMA DriverInvAlways == DriverSpec => []DriverInv
  BY InitDriverInv, DriverInductive, PTL DEF DriverSpec

\* What a read returns is always values of its type, and those whose bytes, as
\* the write of that type sends them, it got from the chip: the shifts of the
\* reads undo those of the writes, for every width and the sign (TypedResult).
THEOREM TypedResultAlways == DriverSpec => []TypedResult
  <1>1. DriverInv => TypedResult BY DEF DriverInv
  <1>. QED BY <1>1, DriverInvAlways, PTL

-----------------------------------------------------------------------------
(***************************************************************************)
(* The refinement of ByteStore.                                            *)
(***************************************************************************)

StoreOf   == IF Busy THEN before ELSE mem
RequestOf == IF Busy THEN request ELSE NoRequest
StoreStep == [Store!Ask \/ Store!Write \/ Store!Read]_<<StoreOf, RequestOf, result.bytes>>

LEMMA SameNoRequest == Store!NoRequest = NoRequest
  BY DEF Store!NoRequest, NoRequest

\* A call asks.
LEMMA CallAsks ==
  ASSUME DriverInv, NEW op \in {"READ", "WRITE"}, NEW addr, NEW k, NEW s, Call(op, addr, k, s)
  PROVE  StoreStep
  <1>1. /\ request = NoRequest /\ request' = [cmd |-> op, addr |-> addr, bytes |-> s]
        /\ before' = mem /\ result' = NoResult
    BY DEF Call
  <1>2. ~ Busy /\ Busy' BY <1>1 DEF Busy, NoRequest
  <1>3. StoreOf = mem /\ StoreOf' = mem /\ RequestOf = NoRequest /\ RequestOf' = request'
    BY <1>1, <1>2 DEF StoreOf, RequestOf
  <1>4. result'.bytes = <<>> BY <1>1 DEF NoResult
  <1>5. request'.cmd \in {"READ", "WRITE"} BY <1>1
  <1>6. Store!Ask
    BY <1>3, <1>4, <1>5, SameNoRequest DEF Store!Ask, StoreOf, RequestOf
  <1>. QED BY <1>6 DEF StoreStep

\* Until it deselects the chip nothing is seen of it.
LEMMA TransferStutters ==
  ASSUME DriverInv, Transfer
  PROVE  StoreStep
  <1>1. request' = request /\ result' = result /\ before' = before BY DEF Transfer
  <1>2. ~ Busy => mem' = mem
    <2>1. SUFFICES ASSUME ~ Busy PROVE mem' = mem OBVIOUS
    <2>2. request.cmd = "begin" BY <2>1 DEF DriverInv, Shapes, Busy, Idle, Transfer
    <2>3. cmd # "WRITE" /\ Receive(Head(tx))
      BY <2>2 DEF DriverInv, Beginning, Transfer
    <2>. QED BY <2>3 DEF Receive
  <1>3. StoreOf' = StoreOf /\ RequestOf' = RequestOf BY <1>1, <1>2 DEF StoreOf, RequestOf, Busy
  <1>. QED BY <1>1, <1>3 DEF StoreStep

\* Then the whole block is written or read.
LEMMA DeselectAnswers ==
  ASSUME DriverInv, Deselect
  PROVE  StoreStep
  <1>1. /\ request' = NoRequest /\ before' = mem /\ mem' = mem
        /\ result' = IF request.cmd # "READ" THEN NoResult
                     ELSE [kind |-> kind, bytes |-> rx, vals |-> ValuesOfAll(kind, rx)]
    BY DEF Deselect
  <1>2. ~ Busy' BY <1>1 DEF Busy, NoRequest
  <1>3. StoreOf' = mem /\ RequestOf' = NoRequest BY <1>1, <1>2 DEF StoreOf, RequestOf
  <1>4. CASE ~ Busy
    <2>1. StoreOf' = StoreOf /\ RequestOf' = RequestOf BY <1>3, <1>4 DEF StoreOf, RequestOf
    <2>2. request.cmd = "begin" BY <1>4 DEF DriverInv, Shapes, Busy, Idle, Deselect
    <2>3. result' = result BY <1>1, <2>2 DEF DriverInv, Beginning
    <2>. QED BY <2>1, <2>3 DEF StoreStep
  <1>5. CASE Busy
    <2>1. /\ request.cmd \in {"READ", "WRITE"} /\ result = NoResult
          /\ request.addr \in Nat /\ request.bytes \in Seq(ByteValues)
          /\ Size \in Nat /\ before \in [Cells -> ByteValues]
          /\ request.cmd = "WRITE" => mem = Written(before, request.addr, request.bytes, Size)
          /\ request.cmd = "READ" => mem = before /\ rx = Loaded(before, request.addr, Size)
      BY <1>5, DeselectMoves
    <2>2. StoreOf = before /\ RequestOf = request BY <1>5 DEF StoreOf, RequestOf
    <2>3. DOMAIN request.bytes = 1 .. Size /\ DOMAIN before = Cells BY <2>1 DEF Size
    <2>4. \A i : Store!Cell(request.addr, i) = CellOf(request.addr, i)
      BY DEF Store!Cell, CellOf
    <2>5. CASE request.cmd = "WRITE"
      <3>1. result' = NoResult BY <1>1, <2>5
      <3>2. result'.bytes = result.bytes BY <2>1, <3>1
      <3>3. mem = [a \in DOMAIN before |->
              LET is == {i \in DOMAIN request.bytes : Store!Cell(request.addr, i) = a}
              IN  IF is = {} THEN before[a] ELSE request.bytes[CHOOSE i \in is : TRUE]]
        BY <2>1, <2>3, <2>4, <2>5 DEF Written
      <3>4. StoreOf' = [a \in DOMAIN StoreOf |->
              LET is == {i \in DOMAIN RequestOf.bytes : Store!Cell(RequestOf.addr, i) = a}
              IN  IF is = {} THEN StoreOf[a] ELSE RequestOf.bytes[CHOOSE i \in is : TRUE]]
        BY <1>3, <2>2, <3>3
      <3>5. RequestOf.cmd = "WRITE" /\ RequestOf' = NoRequest BY <1>3, <2>2, <2>5
      <3>6. Store!Write
        BY <3>2, <3>4, <3>5, SameNoRequest DEF Store!Write, StoreOf, RequestOf
      <3>. QED BY <3>6 DEF StoreStep
    <2>6. CASE request.cmd = "READ"
      <3>1. result'.bytes = rx BY <1>1, <2>6
      <3>2. rx = [i \in DOMAIN request.bytes |-> before[Store!Cell(request.addr, i)]]
        BY <2>1, <2>3, <2>4, <2>6 DEF Loaded
      <3>3. result'.bytes =
              [i \in DOMAIN RequestOf.bytes |-> StoreOf[Store!Cell(RequestOf.addr, i)]]
        BY <2>2, <3>1, <3>2
      <3>4. StoreOf' = StoreOf BY <1>3, <2>1, <2>2, <2>6
      <3>5. RequestOf.cmd = "READ" /\ RequestOf' = NoRequest BY <1>3, <2>2, <2>6
      <3>6. Store!Read
        BY <3>3, <3>4, <3>5, SameNoRequest DEF Store!Read, StoreOf, RequestOf
      <3>. QED BY <3>6 DEF StoreStep
    <2>. QED BY <2>1, <2>5, <2>6
  <1>. QED BY <1>4, <1>5

LEMMA DriverRefines == DriverInv /\ [DriverNext]_driverVars => StoreStep
  <1>. SUFFICES ASSUME DriverInv, [DriverNext]_driverVars PROVE StoreStep
    OBVIOUS
  <1>1. CASE begin
    <2>1. UNCHANGED <<mem, request, before, result>> BY <1>1 DEF begin
    <2>. QED BY <2>1 DEF StoreStep, StoreOf, RequestOf, Busy
  <1>2. ASSUME NEW addr \in CallAddrs, NEW c \in Calls,
               write(addr, c.kind, c.vals) \/ read(addr, c.kind, Len(c.vals))
        PROVE  StoreStep
    <2>1. PICK op \in {"READ", "WRITE"}, a \in Nat, k \in Kinds, s \in Seq(ByteValues), n \in Nat :
            Len(s) <= CHIP_SIZE /\ Len(s) = n * Width(k) /\ Call(op, a, k, s)
      BY <1>2, CallsOK
    <2>. QED BY <2>1, CallAsks
  <1>3. CASE Transfer BY <1>3, TransferStutters
  <1>4. CASE Deselect BY <1>4, DeselectAnswers
  <1>5. CASE UNCHANGED driverVars
    BY <1>5 DEF driverVars, chip, StoreStep, StoreOf, RequestOf, Busy
  <1>. QED BY <1>1, <1>2, <1>3, <1>4, <1>5 DEF DriverNext

\* Every function of the driver, sent byte by byte over the bus, writes or reads
\* its block as a whole, from the address given and round at the end of the
\* chip, and touches no other byte: SRAMsimple implements ByteStore, for every
\* size of the chip, every address and every array (BlocksAtOnce).
THEOREM BlocksAtOnceHolds == DriverSpec => BlocksAtOnce
  <1>1. DriverInit => RequestOf = Store!NoRequest
    BY SameNoRequest DEF DriverInit, RequestOf, Busy, NoRequest
  <1>2. DriverInv /\ [DriverNext]_driverVars => StoreStep BY DriverRefines
  <1>. QED BY <1>1, <1>2, DriverInvAlways, PTL
        DEF DriverSpec, BlocksAtOnce, Store!Spec, StoreStep, StoreOf, RequestOf

-----------------------------------------------------------------------------
(***************************************************************************)
(* The types.                                                              *)
(***************************************************************************)

\* What is left of the chip and of the answer when no call goes on.
Resting ==
  ~ Busy => /\ rx = <<>> /\ pointer \in Cells
            /\ cmd \in {"none", "WRMR"} /\ received \in {0, 1, 2}

LEMMA RestingKeeps == DriverInv /\ Resting /\ [DriverNext]_driverVars => Resting'
  <1>. SUFFICES ASSUME DriverInv, Resting, [DriverNext]_driverVars PROVE Resting'
    OBVIOUS
  <1>. 0 \in Cells BY ChipOK DEF Cells
  <1>1. CASE begin BY <1>1 DEF begin, Select, Resting, Busy
  <1>2. ASSUME NEW addr \in CallAddrs, NEW c \in Calls,
               write(addr, c.kind, c.vals) \/ read(addr, c.kind, Len(c.vals))
        PROVE  Resting'
    <2>1. PICK op \in {"READ", "WRITE"}, a \in Nat, k \in Kinds, s \in Seq(ByteValues), n \in Nat :
            Len(s) <= CHIP_SIZE /\ Len(s) = n * Width(k) /\ Call(op, a, k, s)
      BY <1>2, CallsOK
    <2>2. request'.cmd \in {"READ", "WRITE"} BY <2>1 DEF Call
    <2>. QED BY <2>2 DEF Resting, Busy
  <1>3. CASE Transfer
    <2>1. request' = request BY <1>3 DEF Transfer
    <2>2. CASE Busy BY <2>1, <2>2 DEF Resting, Busy
    <2>3. CASE ~ Busy
      <3>1. request.cmd = "begin" BY <1>3, <2>3 DEF DriverInv, Shapes, Busy, Idle, Transfer
      <3>2. /\ Receive(Head(tx)) /\ rx' = rx BY <1>3, <3>1 DEF Transfer
      <3>3. CASE received = 0 /\ cmd = "none" /\ tx = <<"WRMR", "SEQ_MODE">>
        <4>1. Head(tx) = "WRMR" BY <3>3
        <4>2. received' = 1 /\ cmd' = "WRMR" /\ pointer' = pointer
          BY <3>2, <3>3, <4>1 DEF Receive
        <4>. QED BY <2>3, <3>2, <4>2 DEF Resting
      <3>4. CASE received = 1 /\ cmd = "WRMR" /\ tx = <<"SEQ_MODE">>
        <4>1. received' = 2 /\ cmd' = "WRMR" /\ pointer' = pointer
          BY <3>2, <3>4 DEF Receive
        <4>. QED BY <2>3, <3>2, <4>1 DEF Resting
      <3>. QED BY <1>3, <3>1, <3>3, <3>4 DEF DriverInv, Beginning, Transfer
    <2>. QED BY <2>2, <2>3
  <1>4. CASE Deselect
    <2>1. selected /\ Select(FALSE) /\ rx' = <<>> BY <1>4 DEF Deselect
    <2>2. cmd' = "none" /\ received' = 0 /\ pointer' = 0 BY <2>1 DEF Select
    <2>. QED BY <2>1, <2>2 DEF Resting
  <1>5. CASE UNCHANGED driverVars BY <1>5 DEF driverVars, chip, Resting, Busy
  <1>. QED BY <1>1, <1>2, <1>3, <1>4, <1>5 DEF DriverNext

\* The driver keeps its types: it never gets more bytes than it asked for, and
\* the chip's address and count of bytes stay in their ranges (DriverTypeOK).
THEOREM DriverTypeCorrect == DriverSpec => []DriverTypeOK
  <1>1. DriverInit => Resting
    <2>1. 0 \in Cells BY ChipOK DEF Cells
    <2>. QED BY <2>1 DEF DriverInit, Resting
  <1>2. DriverInv /\ Resting => DriverTypeOK
    <2>. SUFFICES ASSUME DriverInv, Resting PROVE DriverTypeOK OBVIOUS
    <2>1. CASE Busy
      <3>1. /\ request.cmd \in {"READ", "WRITE"} /\ CallOK /\ TailLeft /\ ChipInStep
            /\ BlockInStep
        BY <2>1 DEF DriverInv, InCall, Busy
      <3>2. Size \in Nat /\ Len(tx) \in Nat /\ Len(tx) <= 4 + Size
        BY <3>1 DEF CallOK, TailLeft, Size
      <3>3. Sent \in 0 .. 4 + Size /\ Moved \in 0 .. Size BY <3>2 DEF Sent, Moved
      <3>4. received \in 0 .. 4 /\ cmd \in {"none", "READ", "WRITE", "WRMR"} /\ selected
        BY <3>1, <3>3 DEF ChipInStep
      <3>5. pointer \in Cells
        <4>1. Sent \in Nat /\ request.addr \in Nat BY <3>1, <3>3 DEF CallOK
        <4>2. PointerAfter(request.addr, Sent) \in Cells BY <4>1, PointerNext
        <4>. QED BY <3>1, <4>2 DEF ChipInStep
      <3>6. Len(rx) <= Size
        <4>1. CASE request.cmd = "WRITE" BY <3>1, <3>2, <4>1 DEF BlockInStep
        <4>2. CASE request.cmd = "READ"
          <5>1. /\ Moved \in Nat /\ request.addr \in Nat /\ before \in [Cells -> ByteValues]
                /\ rx = Loaded(before, request.addr, Moved)
            BY <3>1, <3>3, <4>2 DEF CallOK, BlockInStep
          <5>2. Len(rx) = Moved BY <5>1, LoadedOK
          <5>. QED BY <3>2, <3>3, <5>2
        <4>. QED BY <3>1, <4>1, <4>2
      <3>. QED BY <3>4, <3>5, <3>6 DEF DriverTypeOK, DriverInv, Shapes, Size
    <2>2. CASE ~ Busy
      <3>1. Len(rx) <= Len(request.bytes) /\ (~ selected => tx = <<>>)
        <4>1. rx = <<>> BY <2>2 DEF Resting
        <4>2. request = NoRequest \/ request.cmd = "begin" BY <2>2 DEF DriverInv, Shapes, Busy
        <4>3. request.bytes = <<>> BY <4>2 DEF DriverInv, Beginning, NoRequest
        <4>. QED BY <4>1, <4>2, <4>3 DEF DriverInv, Beginning, Idle
      <3>. QED BY <2>2, <3>1 DEF DriverTypeOK, DriverInv, Shapes, Resting
    <2>. QED BY <2>1, <2>2
  <1>3. DriverInv /\ Resting /\ [DriverNext]_driverVars => Resting' BY RestingKeeps
  <1>. QED BY <1>1, <1>2, <1>3, DriverInvAlways, PTL DEF DriverSpec
=============================================================================
