----------------------------- MODULE TypedBytes -----------------------------
(***************************************************************************)
(* How the values of a C type are laid out in bytes by SRAMsimple and by   *)
(* the typed accessors of PageCacheManager, which agree: integers begin    *)
(* with their highest byte, a float is its bytes in memory.  A byte has    *)
(* BYTE values, so an int is BYTE * BYTE of them, as on the AVR.           *)
(***************************************************************************)
EXTENDS Integers, SequencesExt

CONSTANT BYTE \* 256

ASSUME ByteOK == BYTE \in Nat /\ BYTE >= 2 /\ BYTE % 2 = 0

ByteValues == 0 .. BYTE - 1

Kinds == {"Byte", "Int", "UInt", "Long", "ULong", "Float"}

Width(kind) ==
  CASE kind = "Byte" -> 1 [] kind \in {"Int", "UInt"} -> 2 [] OTHER -> 4

\* What a byte with n bytes below it counts: a shift by 8 * n.
Weight(n) ==
  <<1, BYTE, BYTE * BYTE, BYTE * BYTE * BYTE, BYTE * BYTE * BYTE * BYTE>>[n + 1]

\* How many values a kind has.
Span(kind) == Weight(Width(kind))

\* A float is told from another by its bytes.
Values(kind) ==
  CASE kind = "Float"           -> [1 .. 4 -> ByteValues]
    [] kind \in {"Int", "Long"} -> -(Span(kind) \div 2) .. Span(kind) \div 2 - 1
    [] OTHER                    -> 0 .. Span(kind) - 1

\* The bytes of a value: (byte)(data >> 24), ..., (byte)data.
BytesOf(kind, v) ==
  IF kind = "Float" THEN v
  ELSE [k \in 1 .. Width(kind) |-> (v \div Weight(Width(kind) - k)) % BYTE]

\* The bytes of an integer put together: (t[0] << 24) | ... | t[3], h << 8 | l.
Joined(s) ==
  CASE Len(s) = 1 -> s[1]
    [] Len(s) = 2 -> s[1] * Weight(1) + s[2]
    [] OTHER      -> s[1] * Weight(3) + s[2] * Weight(2) + s[3] * Weight(1) + s[4]

\* Mutant of ValueOf: the sign of an int is lost.
ValueOfUnsigned(kind, s) ==
  LET u == Joined(s)
  IN  IF kind = "Float" THEN s
      ELSE IF kind = "Long" /\ u >= Span(kind) \div 2 THEN u - Span(kind) ELSE u

\* The value of the bytes, as a signed or an unsigned type.
ValueOf(kind, s) ==
  LET u == Joined(s)
  IN  IF kind = "Float" THEN s
      ELSE IF kind \in {"Int", "Long"} /\ u >= Span(kind) \div 2 THEN u - Span(kind)
      ELSE u

\* An array is its elements one after the other.
BytesOfAll(kind, vals) == FlattenSeq([i \in DOMAIN vals |-> BytesOf(kind, vals[i])])

ValuesOfAll(kind, s) ==
  LET w == Width(kind)
  IN  [i \in 1 .. Len(s) \div w |-> ValueOf(kind, SubSeq(s, (i - 1) * w + 1, i * w))]
=============================================================================
