-------------------------- MODULE UuidLayoutProofs --------------------------
(***************************************************************************)
(* Proofs about the layout and its text, for every width of a byte and     *)
(* every set of contexts: the bytes compare as the fields do, the two ways *)
(* of writing the text agree, and the text compares as the bytes do.       *)
(*                                                                         *)
(* A number is compared digit by digit from its most significant byte by   *)
(* dividing by Byte once per byte (DigitOrder); BytesPrecede unfolds into  *)
(* the same comparisons one byte at a time (Unfold).  A text is read one   *)
(* place at a time: At says where the digits of a byte stand, and          *)
(* SpellsText that they stand there.                                       *)
(***************************************************************************)
EXTENDS TextForm, SequenceTheorems, TLAPS

-----------------------------------------------------------------------------

(***************************************************************************)
(* Numbers and their digits.                                               *)
(***************************************************************************)

LEMMA Division ==
  ASSUME NEW b \in Nat \ {0}, NEW x \in Nat
  PROVE  /\ x \div b \in Nat
         /\ x % b \in 0 .. b-1
         /\ x = b * (x \div b) + (x % b)
  OBVIOUS

LEMMA DigitOrder ==
  ASSUME NEW b \in Nat \ {0}, NEW x \in Nat, NEW y \in Nat
  PROVE  /\ x < y <=> \/ x \div b < y \div b
                      \/ x \div b = y \div b /\ x % b < y % b
         /\ x = y <=> x \div b = y \div b /\ x % b = y % b
<1>1. x \div b < y \div b => x < y
  OBVIOUS
<1>2. y \div b < x \div b => y < x
  OBVIOUS
<1>3. ASSUME x \div b = y \div b
      PROVE  x - y = (x % b) - (y % b)
  <2> DEFINE p == b * (x \div b)
  <2>1. p \in Nat /\ x % b \in Nat /\ y % b \in Nat
    BY Division
  <2>2. x = p + (x % b) /\ y = p + (y % b)
    BY <1>3, Division
  <2> HIDE DEF p
  <2> QED
    BY <2>1, <2>2
<1> QED
  BY <1>1, <1>2, <1>3, Division

\* A number of n digits loses one when it is divided by the base.
LEMMA DigitCount ==
  ASSUME NEW b \in Nat \ {0}, NEW k \in Nat, NEW x \in Nat, x < b * k
  PROVE  x \div b < k
  OBVIOUS

LEMMA LastDigit ==
  ASSUME NEW b \in Nat \ {0}, NEW x \in Nat, x < b
  PROVE  x % b = x
  OBVIOUS

\* A number shifted right by one to six bytes.
S1(x) == x \div Byte
S2(x) == S1(x) \div Byte
S3(x) == S2(x) \div Byte
S4(x) == S3(x) \div Byte
S5(x) == S4(x) \div Byte
S6(x) == S5(x) \div Byte

LEMMA ShiftsAreNumbers ==
  ASSUME NEW x \in Nat
  PROVE  /\ S1(x) \in Nat /\ S2(x) \in Nat /\ S3(x) \in Nat
         /\ S4(x) \in Nat /\ S5(x) \in Nat /\ S6(x) \in Nat
<1>1. S1(x) \in Nat
  BY Division, LayoutAssumption DEF S1
<1>2. S2(x) \in Nat
  BY <1>1, Division, LayoutAssumption DEF S2
<1>3. S3(x) \in Nat
  BY <1>2, Division, LayoutAssumption DEF S3
<1>4. S4(x) \in Nat
  BY <1>3, Division, LayoutAssumption DEF S4
<1>5. S5(x) \in Nat
  BY <1>4, Division, LayoutAssumption DEF S5
<1>6. S6(x) \in Nat
  BY <1>5, Division, LayoutAssumption DEF S6
<1> QED
  BY <1>1, <1>2, <1>3, <1>4, <1>5, <1>6

\* Six bytes hold a timestamp.
LEMMA SixDigits ==
  ASSUME NEW x \in Nat, x < TsLimit
  PROVE  S5(x) % Byte = S5(x)
<1> DEFINE k2 == Byte * Byte
           k3 == Byte * k2
           k4 == Byte * k3
           k5 == Byte * k4
<1>1. Byte \in Nat \ {0} /\ x < Byte * k5
  BY LayoutAssumption
<1>2. k2 \in Nat /\ k3 \in Nat /\ k4 \in Nat /\ k5 \in Nat
  BY <1>1
<1>3. S1(x) < Byte * k4
  <2> HIDE DEF k4
  <2> QED
    BY <1>1, <1>2, DigitCount DEF S1
<1>4. S2(x) < Byte * k3
  <2> HIDE DEF k3
  <2> QED
    BY <1>1, <1>2, <1>3, DigitCount, ShiftsAreNumbers DEF S2
<1>5. S3(x) < Byte * k2
  <2> HIDE DEF k2
  <2> QED
    BY <1>1, <1>2, <1>4, DigitCount, ShiftsAreNumbers DEF S3
<1>6. S4(x) < Byte * Byte
  BY <1>1, <1>2, <1>5, DigitCount, ShiftsAreNumbers DEF S4
<1>7. S5(x) < Byte
  BY <1>1, <1>6, DigitCount, ShiftsAreNumbers DEF S5
<1> QED
  BY <1>1, <1>7, LastDigit, ShiftsAreNumbers

\* Seven bytes hold counter_low.
LEMMA SevenDigits ==
  ASSUME NEW x \in Nat, x < LowLimit
  PROVE  S6(x) % Byte = S6(x)
<1>1. Byte \in Nat \ {0} /\ TsLimit \in Nat /\ x < Byte * TsLimit
  BY LayoutAssumption, ContextAssumption
<1>2. S1(x) \in Nat /\ S1(x) < TsLimit
  BY <1>1, DigitCount, ShiftsAreNumbers DEF S1
<1>3. S6(x) = S5(S1(x))
  BY DEF S1, S2, S3, S4, S5, S6
<1> QED
  BY <1>2, <1>3, SixDigits

\* Numbers with the same upper digits compare by the next one.
LEMMA ShiftOrder ==
  ASSUME NEW x \in Nat, NEW y \in Nat
  PROVE  /\ x < y <=> \/ S1(x) < S1(y)
                      \/ S1(x) = S1(y) /\ x % Byte < y % Byte
         /\ x = y <=> S1(x) = S1(y) /\ x % Byte = y % Byte
  BY DigitOrder, LayoutAssumption DEF S1

-----------------------------------------------------------------------------

(***************************************************************************)
(* Bytes.                                                                  *)
(***************************************************************************)

\* memcmp from byte k on.
PrecedeFrom(u, v, k) ==
  \E i \in k..16 :
    /\ u[i] < v[i]
    /\ \A j \in k .. i-1 : u[j] = v[j]

\* Compare x with y and, when they are equal, the bytes from k on.
LessThen(x, y, u, v, k) ==
  x < y \/ (x = y /\ PrecedeFrom(u, v, k))

LEMMA Unfold ==
  ASSUME NEW u, NEW v, NEW k \in 1..16
  PROVE  PrecedeFrom(u, v, k) <=> LessThen(u[k], v[k], u, v, k+1)
<1>1. ASSUME PrecedeFrom(u, v, k), ~(u[k] < v[k])
      PROVE  u[k] = v[k] /\ PrecedeFrom(u, v, k+1)
  <2>1. PICK i \in k..16 : u[i] < v[i] /\ \A j \in k .. i-1 : u[j] = v[j]
    BY <1>1 DEF PrecedeFrom
  <2>2. i \in k+1 .. 16 /\ k \in k .. i-1
    BY <1>1, <2>1
  <2> QED
    BY <2>1, <2>2 DEF PrecedeFrom
<1>2. ASSUME u[k] < v[k]
      PROVE  PrecedeFrom(u, v, k)
  BY <1>2 DEF PrecedeFrom
<1>3. ASSUME u[k] = v[k], PrecedeFrom(u, v, k+1)
      PROVE  PrecedeFrom(u, v, k)
  <2>1. PICK i \in k+1 .. 16 :
          u[i] < v[i] /\ \A j \in k+1 .. i-1 : u[j] = v[j]
    BY <1>3 DEF PrecedeFrom
  <2>2. \A j \in k .. i-1 : u[j] = v[j]
    BY <1>3, <2>1
  <2> QED
    BY <2>1, <2>2 DEF PrecedeFrom
<1> QED
  BY <1>1, <1>2, <1>3 DEF LessThen

LEMMA NothingAfterTheEnd ==
  ASSUME NEW u, NEW v
  PROVE  ~PrecedeFrom(u, v, 17)
  BY DEF PrecedeFrom

\* The sixteen bytes of a context, one by one.
LEMMA TheBytes ==
  ASSUME NEW c, NEW t, NEW l, NEW u,
         t = c.last_timestamp_ms, l = c.counter_low, u = Written(c)
  PROVE  /\ u[1] = S5(t) % Byte /\ u[2] = S4(t) % Byte
         /\ u[3] = S3(t) % Byte /\ u[4] = S2(t) % Byte
         /\ u[5] = S1(t) % Byte /\ u[6] = t % Byte
         /\ u[7] = (Version * RandALimit) + c.rand_a_high
         /\ u[8] = (c.counter_high \div SixBits) % Byte
         /\ u[9] = (Variant * SixBits) + (c.counter_high % SixBits)
         /\ u[10] = S6(l) % Byte /\ u[11] = S5(l) % Byte
         /\ u[12] = S4(l) % Byte /\ u[13] = S3(l) % Byte
         /\ u[14] = S2(l) % Byte /\ u[15] = S1(l) % Byte
         /\ u[16] = l % Byte
<1>1. write_be48(t) = <<S5(t) % Byte, S4(t) % Byte, S3(t) % Byte,
                        S2(t) % Byte, S1(t) % Byte, t % Byte>>
  BY DEF write_be48, S1, S2, S3, S4, S5
<1>2. write_be56(l) = <<S6(l) % Byte, S5(l) % Byte, S4(l) % Byte,
                        S3(l) % Byte, S2(l) % Byte, S1(l) % Byte, l % Byte>>
  BY DEF write_be56, S1, S2, S3, S4, S5, S6
<1>3. u = write_be48(t) \o middle(c) \o write_be56(l)
  BY DEF Written
<1> QED
  BY <1>1, <1>2, <1>3 DEF middle

-----------------------------------------------------------------------------

(***************************************************************************)
(* The order of the bytes, from the last field to the first.               *)
(***************************************************************************)

\* The next byte of a number is its next digit.
LEMMA NextDigit ==
  ASSUME NEW x \in Nat, NEW y \in Nat, NEW u, NEW v, NEW k \in 1..16,
         u[k] = x % Byte, v[k] = y % Byte
  PROVE  LessThen(S1(x), S1(y), u, v, k) <=> LessThen(x, y, u, v, k+1)
<1>1. PrecedeFrom(u, v, k) <=> LessThen(u[k], v[k], u, v, k+1)
  BY Unfold
<1> QED
  BY <1>1, ShiftOrder DEF LessThen

\* Bytes 9 to 15 compare as counter_low does.
LEMMA LowBytes ==
  ASSUME NEW c \in Contexts, NEW d \in Contexts, NEW u, NEW v,
         u = Written(c), v = Written(d)
  PROVE  PrecedeFrom(u, v, 10) <=> c.counter_low < d.counter_low
<1> DEFINE x == c.counter_low
           y == d.counter_low
<1>1. x \in Nat /\ y \in Nat /\ x < LowLimit /\ y < LowLimit
  BY ContextsAssumption, ContextAssumption DEF Context
<1>2. /\ u[10] = S6(x) /\ u[11] = S5(x) % Byte /\ u[12] = S4(x) % Byte
      /\ u[13] = S3(x) % Byte /\ u[14] = S2(x) % Byte
      /\ u[15] = S1(x) % Byte /\ u[16] = x % Byte
  BY <1>1, TheBytes, SevenDigits
<1>3. /\ v[10] = S6(y) /\ v[11] = S5(y) % Byte /\ v[12] = S4(y) % Byte
      /\ v[13] = S3(y) % Byte /\ v[14] = S2(y) % Byte
      /\ v[15] = S1(y) % Byte /\ v[16] = y % Byte
  BY <1>1, TheBytes, SevenDigits
<1> HIDE DEF x, y
<1>4. /\ S1(x) \in Nat /\ S2(x) \in Nat /\ S3(x) \in Nat
      /\ S4(x) \in Nat /\ S5(x) \in Nat /\ S6(x) \in Nat
      /\ S1(y) \in Nat /\ S2(y) \in Nat /\ S3(y) \in Nat
      /\ S4(y) \in Nat /\ S5(y) \in Nat /\ S6(y) \in Nat
  BY <1>1, ShiftsAreNumbers
<1>5. PrecedeFrom(u, v, 10) <=> LessThen(S6(x), S6(y), u, v, 11)
  BY <1>2, <1>3, Unfold
<1>6. LessThen(S6(x), S6(y), u, v, 11) <=> LessThen(S5(x), S5(y), u, v, 12)
  BY <1>2, <1>3, <1>4, NextDigit DEF S6, S1
<1>7. LessThen(S5(x), S5(y), u, v, 12) <=> LessThen(S4(x), S4(y), u, v, 13)
  BY <1>2, <1>3, <1>4, NextDigit DEF S5, S1
<1>8. LessThen(S4(x), S4(y), u, v, 13) <=> LessThen(S3(x), S3(y), u, v, 14)
  BY <1>2, <1>3, <1>4, NextDigit DEF S4, S1
<1>9. LessThen(S3(x), S3(y), u, v, 14) <=> LessThen(S2(x), S2(y), u, v, 15)
  BY <1>2, <1>3, <1>4, NextDigit DEF S3, S1
<1>10. LessThen(S2(x), S2(y), u, v, 15) <=> LessThen(S1(x), S1(y), u, v, 16)
  BY <1>2, <1>3, <1>4, NextDigit DEF S2, S1
<1>11. LessThen(S1(x), S1(y), u, v, 16) <=> LessThen(x, y, u, v, 17)
  BY <1>1, <1>2, <1>3, NextDigit
<1>12. LessThen(x, y, u, v, 17) <=> x < y
  BY NothingAfterTheEnd DEF LessThen
<1> QED
  BY <1>5, <1>6, <1>7, <1>8, <1>9, <1>10, <1>11, <1>12 DEF x, y

\* Bytes 0 to 5 compare as the timestamp does, and leave the rest to decide.
LEMMA TimestampBytes ==
  ASSUME NEW c \in Contexts, NEW d \in Contexts, NEW u, NEW v,
         u = Written(c), v = Written(d)
  PROVE  PrecedeFrom(u, v, 1) <=>
           LessThen(c.last_timestamp_ms, d.last_timestamp_ms, u, v, 7)
<1> DEFINE x == c.last_timestamp_ms
           y == d.last_timestamp_ms
<1>1. x \in Nat /\ y \in Nat /\ x < TsLimit /\ y < TsLimit
  BY ContextsAssumption, ContextAssumption DEF Context
<1>2. /\ u[1] = S5(x) /\ u[2] = S4(x) % Byte /\ u[3] = S3(x) % Byte
      /\ u[4] = S2(x) % Byte /\ u[5] = S1(x) % Byte /\ u[6] = x % Byte
  BY <1>1, TheBytes, SixDigits
<1>3. /\ v[1] = S5(y) /\ v[2] = S4(y) % Byte /\ v[3] = S3(y) % Byte
      /\ v[4] = S2(y) % Byte /\ v[5] = S1(y) % Byte /\ v[6] = y % Byte
  BY <1>1, TheBytes, SixDigits
<1> HIDE DEF x, y
<1>4. /\ S1(x) \in Nat /\ S2(x) \in Nat /\ S3(x) \in Nat
      /\ S4(x) \in Nat /\ S5(x) \in Nat
      /\ S1(y) \in Nat /\ S2(y) \in Nat /\ S3(y) \in Nat
      /\ S4(y) \in Nat /\ S5(y) \in Nat
  BY <1>1, ShiftsAreNumbers
<1>5. PrecedeFrom(u, v, 1) <=> LessThen(S5(x), S5(y), u, v, 2)
  BY <1>2, <1>3, Unfold
<1>6. LessThen(S5(x), S5(y), u, v, 2) <=> LessThen(S4(x), S4(y), u, v, 3)
  BY <1>2, <1>3, <1>4, NextDigit DEF S5, S1
<1>7. LessThen(S4(x), S4(y), u, v, 3) <=> LessThen(S3(x), S3(y), u, v, 4)
  BY <1>2, <1>3, <1>4, NextDigit DEF S4, S1
<1>8. LessThen(S3(x), S3(y), u, v, 4) <=> LessThen(S2(x), S2(y), u, v, 5)
  BY <1>2, <1>3, <1>4, NextDigit DEF S3, S1
<1>9. LessThen(S2(x), S2(y), u, v, 5) <=> LessThen(S1(x), S1(y), u, v, 6)
  BY <1>2, <1>3, <1>4, NextDigit DEF S2, S1
<1>10. LessThen(S1(x), S1(y), u, v, 6) <=> LessThen(x, y, u, v, 7)
  BY <1>1, <1>2, <1>3, NextDigit
<1> QED
  BY <1>5, <1>6, <1>7, <1>8, <1>9, <1>10 DEF x, y

\* Bytes 6 to 8 hold rand_a and counter_high beside constant bits.
LEMMA MiddleBytes ==
  ASSUME NEW c \in Contexts, NEW u, u = Written(c)
  PROVE  /\ c.rand_a_high \in 0 .. RandALimit-1
         /\ c.counter_high \in Nat /\ c.counter_high \div SixBits \in Nat
         /\ c.counter_high \div SixBits < Byte
         /\ c.counter_high % SixBits \in 0 .. SixBits-1
         /\ u[7] = (Version * RandALimit) + c.rand_a_high
         /\ u[8] = c.counter_high \div SixBits
         /\ u[9] = (Variant * SixBits) + (c.counter_high % SixBits)
<1>1. /\ c.rand_a_high \in 0 .. RandALimit-1
      /\ c.counter_high \in Nat /\ c.counter_high < SixBits * Byte
      /\ SixBits \in Nat \ {0} /\ Byte \in Nat \ {0}
  BY ContextsAssumption, ContextAssumption, LayoutAssumption DEF Context
<1>2. /\ c.counter_high \div SixBits \in Nat
      /\ c.counter_high \div SixBits < Byte
      /\ c.counter_high % SixBits \in 0 .. SixBits-1
  BY <1>1, Division, DigitCount
<1> HIDE DEF Variant
<1> QED
  BY <1>1, <1>2, TheBytes, LastDigit

\* memcmp on the bytes of two contexts is the order of their fields.
LEMMA SameOrder ==
  ASSUME NEW c \in Contexts, NEW d \in Contexts
  PROVE  BytesPrecede(Written(c), Written(d)) <=>
           Precedes(Serialised(c), Serialised(d))
<1> DEFINE u == Written(c)
           v == Written(d)
           h == c.counter_high
           g == d.counter_high
<1>1. /\ c \in Context /\ c.last_timestamp_ms \in Nat
      /\ c.last_timestamp_ms < TsLimit /\ h \in Nat /\ h < HighLimit
      /\ d \in Context /\ d.last_timestamp_ms \in Nat
      /\ d.last_timestamp_ms < TsLimit /\ g \in Nat /\ g < HighLimit
      /\ TsLimit \in Nat \ {0} /\ HighLimit \in Nat \ {0}
  BY ContextsAssumption, ContextAssumption DEF Context
<1>2. BytesPrecede(u, v) <=>
        LessThen(c.last_timestamp_ms, d.last_timestamp_ms, u, v, 7)
  <2>1. BytesPrecede(u, v) <=> PrecedeFrom(u, v, 1)
    BY DEF BytesPrecede, PrecedeFrom
  <2> QED
    BY <2>1, TimestampBytes
<1>3. PrecedeFrom(u, v, 7) <=> LessThen(c.rand_a_high, d.rand_a_high, u, v, 8)
  <2>1. PrecedeFrom(u, v, 7) <=> LessThen(u[7], v[7], u, v, 8)
    BY Unfold
  <2>2. Version * RandALimit \in Nat
    BY LayoutAssumption, ContextAssumption
  <2> HIDE DEF u, v
  <2>3. /\ u[7] < v[7] <=> c.rand_a_high < d.rand_a_high
        /\ u[7] = v[7] <=> c.rand_a_high = d.rand_a_high
    <3> DEFINE w == Version * RandALimit
    <3>1. u[7] = w + c.rand_a_high /\ v[7] = w + d.rand_a_high
      BY MiddleBytes DEF u, v
    <3>2. /\ c.rand_a_high \in Int /\ d.rand_a_high \in Int
      BY MiddleBytes, ContextAssumption
    <3> HIDE DEF w
    <3> QED
      BY <2>2, <3>1, <3>2 DEF w
  <2> QED
    BY <2>1, <2>3 DEF LessThen
<1>4. PrecedeFrom(u, v, 8) <=> LessThen(h, g, u, v, 10)
  <2>1. PrecedeFrom(u, v, 8) <=> LessThen(u[8], v[8], u, v, 9)
    BY Unfold
  <2>2. PrecedeFrom(u, v, 9) <=> LessThen(u[9], v[9], u, v, 10)
    BY Unfold
  <2>3. SixBits \in Nat \ {0} /\ Variant * SixBits \in Nat
    BY LayoutAssumption DEF Variant
  <2>4. u[8] = h \div SixBits /\ v[8] = g \div SixBits
    BY MiddleBytes
  <2>5. /\ u[9] < v[9] <=> h % SixBits < g % SixBits
        /\ u[9] = v[9] <=> h % SixBits = g % SixBits
    <3> DEFINE w == Variant * SixBits
               p == h % SixBits
               q == g % SixBits
    <3>1. u[9] = w + p /\ v[9] = w + q /\ p \in Nat /\ q \in Nat
      BY MiddleBytes, <2>3
    <3> HIDE DEF w, p, q
    <3>2. w \in Nat
      BY <2>3 DEF w
    <3>3. (u[9] < v[9] <=> p < q) /\ (u[9] = v[9] <=> p = q)
      BY <3>1, <3>2
    <3> QED
      BY <3>3 DEF p, q
  <2>6. /\ h < g <=> \/ h \div SixBits < g \div SixBits
                     \/ /\ h \div SixBits = g \div SixBits
                        /\ h % SixBits < g % SixBits
        /\ h = g <=> h \div SixBits = g \div SixBits /\ h % SixBits = g % SixBits
    BY <1>1, <2>3, DigitOrder
  <2> HIDE DEF u, v, h, g
  <2> QED
    BY <2>1, <2>2, <2>4, <2>5, <2>6 DEF LessThen
<1>5. PrecedeFrom(u, v, 10) <=> c.counter_low < d.counter_low
  BY LowBytes
<1>6. /\ Serialised(c).unix_ts_ms = c.last_timestamp_ms
      /\ Serialised(c).rand_high = h
      /\ Serialised(c).rand_a = c.rand_a_high
      /\ Serialised(c).rand_low = c.counter_low
  BY <1>1, LastDigit DEF Serialised
<1>7. /\ Serialised(d).unix_ts_ms = d.last_timestamp_ms
      /\ Serialised(d).rand_high = g
      /\ Serialised(d).rand_a = d.rand_a_high
      /\ Serialised(d).rand_low = d.counter_low
  BY <1>1, LastDigit DEF Serialised
<1> HIDE DEF u, v, h, g
<1>8. BytesPrecede(u, v) <=> Precedes(Serialised(c), Serialised(d))
  BY <1>2, <1>3, <1>4, <1>5, <1>6, <1>7 DEF LessThen, Precedes
<1> QED
  BY <1>8 DEF u, v

-----------------------------------------------------------------------------

(***************************************************************************)
(* The specification.                                                      *)
(***************************************************************************)

LayoutInv == ctx \in Contexts /\ buf = Written(ctx)

LEMMA LayoutStep == LayoutInv /\ [Write]_<<ctx, buf>> => LayoutInv'
  BY DEF LayoutInv, Write, Written, write_be48, write_be56, middle

LEMMA LayoutInvariance == Spec => []LayoutInv
<1>1. Init => LayoutInv
  BY DEF Init, LayoutInv
<1> QED
  BY <1>1, LayoutStep, PTL DEF Spec

LEMMA SixInSeq ==
  ASSUME NEW S, NEW a \in S, NEW b \in S, NEW c \in S,
         NEW d \in S, NEW e \in S, NEW f \in S
  PROVE  /\ <<a, b, c, d, e, f>> \in Seq(S)
         /\ Len(<<a, b, c, d, e, f>>) = 6
  OBVIOUS

LEMMA SevenInSeq ==
  ASSUME NEW S, NEW a \in S, NEW b \in S, NEW c \in S,
         NEW d \in S, NEW e \in S, NEW f \in S, NEW g \in S
  PROVE  /\ <<a, b, c, d, e, f, g>> \in Seq(S)
         /\ Len(<<a, b, c, d, e, f, g>>) = 7
  OBVIOUS

LEMMA Concatenated ==
  ASSUME NEW S, NEW s \in Seq(S), NEW t \in Seq(S)
  PROVE  s \o t \in Seq(S) /\ Len(s \o t) = Len(s) + Len(t)
  OBVIOUS

LEMMA SeqIsFunction ==
  ASSUME NEW S, NEW n \in Nat, NEW s \in Seq(S), Len(s) = n
  PROVE  s \in [1..n -> S]
  OBVIOUS

\* Runs of six, three and seven bytes make sixteen.
LEMMA EndToEnd ==
  ASSUME NEW S, NEW s \in Seq(S), NEW t \in Seq(S), NEW r \in Seq(S),
         Len(s) = 6, Len(t) = 3, Len(r) = 7
  PROVE  s \o t \o r \in [1..16 -> S]
<1>1. s \o t \in Seq(S) /\ Len(s \o t) = Len(s) + Len(t)
  BY Concatenated, Zenon
<1>2. /\ s \o t \o r \in Seq(S)
      /\ Len(s \o t \o r) = Len(s \o t) + Len(r)
  BY <1>1, Concatenated, Zenon
<1>3. (Len(s) + Len(t)) + Len(r) = 16
  OBVIOUS
<1>4. Len(s \o t \o r) = 16
  BY <1>1, <1>2, <1>3, Zenon
<1>5. 16 \in Nat
  OBVIOUS
<1> QED
  BY <1>2, <1>4, <1>5, SeqIsFunction, Zenon

\* A context is written as sixteen bytes.
LEMMA SixteenBytes ==
  ASSUME NEW c \in Contexts
  PROVE  Written(c) \in [1..16 -> 0 .. Byte-1]
<1> DEFINE B == 0 .. Byte-1
           a == write_be48(c.last_timestamp_ms)
           m == middle(c)
           z == write_be56(c.counter_low)
<1>1. /\ c.last_timestamp_ms \in Nat /\ c.counter_low \in Nat
      /\ Byte \in Nat \ {0} /\ RandALimit \in Nat \ {0}
      /\ SixBits \in Nat \ {0}
  BY ContextsAssumption, ContextAssumption, LayoutAssumption DEF Context
<1>2. \A x \in Nat : x % Byte \in B
  BY <1>1, Division
<1>3. a \in Seq(B) /\ Len(a) = 6
  <2>1. a = <<S5(c.last_timestamp_ms) % Byte, S4(c.last_timestamp_ms) % Byte,
              S3(c.last_timestamp_ms) % Byte, S2(c.last_timestamp_ms) % Byte,
              S1(c.last_timestamp_ms) % Byte, c.last_timestamp_ms % Byte>>
    BY DEF write_be48, S1, S2, S3, S4, S5
  <2> DEFINE t == c.last_timestamp_ms
  <2>2. /\ S5(t) % Byte \in B /\ S4(t) % Byte \in B /\ S3(t) % Byte \in B
        /\ S2(t) % Byte \in B /\ S1(t) % Byte \in B /\ t % Byte \in B
    BY <1>1, <1>2, ShiftsAreNumbers
  <2> HIDE DEF B, a, t
  <2> QED
    BY <2>1, <2>2, SixInSeq, Zenon DEF t
<1>4. z \in Seq(B) /\ Len(z) = 7
  <2>1. z = <<S6(c.counter_low) % Byte, S5(c.counter_low) % Byte,
              S4(c.counter_low) % Byte, S3(c.counter_low) % Byte,
              S2(c.counter_low) % Byte, S1(c.counter_low) % Byte,
              c.counter_low % Byte>>
    BY DEF write_be56, S1, S2, S3, S4, S5, S6
  <2> DEFINE l == c.counter_low
  <2>2. /\ S6(l) % Byte \in B
        /\ S5(l) % Byte \in B /\ S4(l) % Byte \in B /\ S3(l) % Byte \in B
        /\ S2(l) % Byte \in B /\ S1(l) % Byte \in B /\ l % Byte \in B
    BY <1>1, <1>2, ShiftsAreNumbers
  <2> HIDE DEF B, z, l
  <2> QED
    BY <2>1, <2>2, SevenInSeq, Zenon DEF l
<1>5. m \in Seq(B) /\ Len(m) = 3
  <2> DEFINE b6 == (Version * RandALimit) + c.rand_a_high
             b7 == (c.counter_high \div SixBits) % Byte
             b8 == (Variant * SixBits) + (c.counter_high % SixBits)
  <2>1. b6 \in B
    <3>1. Version \in Nat /\ Version + 1 <= Versions /\ Versions \in Nat
          /\ Byte = Versions * RandALimit
      BY LayoutAssumption
    <3>2. (Version + 1) * RandALimit <= Byte
      BY <1>1, <3>1
    <3>3. (Version + 1) * RandALimit = (Version * RandALimit) + RandALimit
          /\ Version * RandALimit \in Nat
      BY <1>1, <3>1
    <3>4. c.rand_a_high \in 0 .. RandALimit-1
      BY MiddleBytes
    <3> DEFINE w == Version * RandALimit
    <3>5. w \in Nat /\ w + RandALimit <= Byte
      BY <3>2, <3>3
    <3> HIDE DEF w
    <3>6. w + c.rand_a_high \in B
      BY <1>1, <3>4, <3>5
    <3> QED
      BY <3>6 DEF w
  <2>2. b7 \in B
    BY <1>2, MiddleBytes
  <2>3. b8 \in B
    BY <1>1, MiddleBytes, LayoutAssumption DEF Variant
  <2>4. m = <<b6, b7, b8>>
    BY DEF middle
  <2> HIDE DEF B, b6, b7, b8, m
  <2> QED
    BY <2>1, <2>2, <2>3, <2>4
<1> HIDE DEF B, a, m, z
<1>6. a \o m \o z \in [1..16 -> B]
  BY <1>3, <1>4, <1>5, EndToEnd, Zenon
<1> QED
  BY <1>6, Zenon DEF Written, a, m, z, B

\* Every identifier is sixteen bytes with version and variant in place.
THEOREM AlwaysWellFormed == Spec => []WellFormed
<1>1. LayoutInv => WellFormed
  <2> SUFFICES ASSUME LayoutInv PROVE WellFormed
    OBVIOUS
  <2>1. ctx \in Contexts /\ buf = Written(ctx)
    BY DEF LayoutInv
  <2>2. RandALimit \in Nat \ {0} /\ SixBits \in Nat \ {0} /\ Version \in Nat
    BY ContextAssumption, LayoutAssumption
  <2>3. version(buf) = Version
    BY <2>1, <2>2, MiddleBytes DEF version
  <2>4. variant(buf) = Variant
    BY <2>1, <2>2, MiddleBytes DEF variant, Variant
  <2> QED
    BY <2>1, <2>3, <2>4, SixteenBytes DEF WellFormed
<1> QED
  BY <1>1, LayoutInvariance, PTL

\* memcmp puts on identifiers the order of their fields.
THEOREM BytesOrder == Spec => BytesInFieldOrder
<1>1. LayoutInv /\ [Write]_<<ctx, buf>> =>
        [BytesPrecede(buf, buf') <=>
           Precedes(Serialised(ctx), Serialised(ctx'))]_<<ctx, buf>>
  BY SameOrder DEF LayoutInv, Write
<1> QED
  BY <1>1, LayoutInvariance, PTL DEF Spec, BytesInFieldOrder

-----------------------------------------------------------------------------

(***************************************************************************)
(* Sixteen pieces in a row.  FlattenSeq is a recursive function, hence a   *)
(* CHOOSE: it can be unfolded once some function is known to satisfy its   *)
(* equation, and for sixteen pieces sixteen steps construct one.           *)
(***************************************************************************)

\* What holds of one and is handed on holds of sixteen.
LEMMA Sixteen ==
  ASSUME NEW S, 1 \in S, \A k \in 1..15 : k \in S => k+1 \in S
  PROVE  16 \in S
<1>1. 2 \in S /\ 3 \in S /\ 4 \in S
  OBVIOUS
<1>2. 5 \in S /\ 6 \in S /\ 7 \in S
  BY <1>1
<1>3. 8 \in S /\ 9 \in S /\ 10 \in S
  BY <1>2
<1>4. 11 \in S /\ 12 \in S /\ 13 \in S
  BY <1>3
<1>5. 14 \in S /\ 15 \in S
  BY <1>4
<1> QED
  BY <1>5

\* f[i] is what the first i pieces of s make.
Joins(f, s, n) ==
  f = [i \in 1..n |-> IF i = 1 THEN s[i] ELSE f[i-1] \o s[i]]

LEMMA SixteenJoin ==
  ASSUME NEW s
  PROVE  \E f : Joins(f, s, 16)
<1> DEFINE K == {k \in 1..16 : \E f : Joins(f, s, k)}
<1>1. 1 \in K
  <2>1. Joins([i \in 1..1 |-> s[i]], s, 1)
    BY DEF Joins
  <2> QED
    BY <2>1
<1>2. ASSUME NEW k \in 1..15, k \in K
      PROVE  k+1 \in K
  <2>1. PICK f : Joins(f, s, k)
    BY <1>2
  <2> DEFINE g == [i \in 1..k+1 |-> IF i = k+1 THEN f[k] \o s[k+1] ELSE f[i]]
  <2>2. Joins(g, s, k+1)
    <3> DEFINE h == [i \in 1..k+1 |-> IF i = 1 THEN s[i] ELSE g[i-1] \o s[i]]
    <3>1. ASSUME NEW i \in 1..k+1
          PROVE  g[i] = h[i]
      <4>1. /\ g[k+1] = f[k] \o s[k+1] /\ g[k] = f[k]
            /\ i # k+1 => g[i] = f[i]
            /\ i # k+1 /\ i # 1 => g[i-1] = f[i-1]
        <5>1. \A j \in 1..k+1 :
                g[j] = IF j = k+1 THEN f[k] \o s[k+1] ELSE f[j]
          BY Zenon
        <5>2. /\ k+1 \in 1..k+1 /\ k \in 1..k+1 /\ k # k+1
              /\ i # 1 => i-1 \in 1..k+1 /\ i-1 # k+1
          OBVIOUS
        <5> HIDE DEF g
        <5> QED
          BY <5>1, <5>2, Zenon
      <4>2. h[i] = IF i = 1 THEN s[i] ELSE g[i-1] \o s[i]
        BY Zenon
      <4>3. i # k+1 => f[i] = IF i = 1 THEN s[i] ELSE f[i-1] \o s[i]
        <5>1. i # k+1 => i \in 1..k
          OBVIOUS
        <5> QED
          BY <5>1, <2>1, Zenon DEF Joins
      <4>4. k+1 # 1 /\ (k+1)-1 = k
        OBVIOUS
      <4> HIDE DEF g, h
      <4> QED
        BY <4>1, <4>2, <4>3, <4>4
    <3> HIDE DEF h
    <3>2. g = h
      <4>1. DOMAIN h = 1..k+1 /\ h = [i \in 1..k+1 |-> h[i]]
        BY DEF h
      <4>2. g = [i \in 1..k+1 |-> g[i]]
        OBVIOUS
      <4> HIDE DEF g
      <4> QED
        BY <3>1, <4>1, <4>2
    <3> QED
      BY <3>2 DEF Joins, h
  <2> HIDE DEF g
  <2> QED
    BY <2>2
<1>3. 16 \in K
  <2> HIDE DEF K
  <2> QED
    BY <1>1, <1>2, Sixteen
<1> QED
  BY <1>3

LEMMA Joined ==
  ASSUME NEW s, NEW f, Joins(f, s, 16)
  PROVE  f[1] = s[1] /\ \A k \in 1..15 : f[k+1] = f[k] \o s[k+1]
<1>1. \A i \in 1..16 : f[i] = IF i = 1 THEN s[i] ELSE f[i-1] \o s[i]
  BY Zenon DEF Joins
<1>2. f[1] = s[1]
  BY <1>1
<1>3. ASSUME NEW k \in 1..15
      PROVE  f[k+1] = f[k] \o s[k+1]
  <2>1. k+1 \in 1..16 /\ k+1 # 1 /\ (k+1)-1 = k
    OBVIOUS
  <2> QED
    BY <1>1, <2>1, Zenon
<1> QED
  BY <1>2, <1>3

LEMMA FlattenSixteen ==
  ASSUME NEW s, DOMAIN s = 1..16, Len(s) = 16
  PROVE  \E f : Joins(f, s, 16) /\ FlattenSeq(s) = f[16]
<1>1. Joins(CHOOSE f : Joins(f, s, 16), s, 16)
  BY SixteenJoin
<1>2. FlattenSeq(s) = (CHOOSE f : Joins(f, s, 16))[16]
  BY DEF FlattenSeq, Joins
<1> QED
  BY <1>1, <1>2

-----------------------------------------------------------------------------

(***************************************************************************)
(* Text.                                                                   *)
(***************************************************************************)

\* r is s, of n characters, followed by t, of m.
Appends(r, s, n, t, m) ==
  /\ r \in Seq(Int) /\ Len(r) = n + m
  /\ \A i \in 1..n : r[i] = s[i]
  /\ \A i \in 1..m : r[n+i] = t[i]

LEMMA Appended ==
  ASSUME NEW s \in Seq(Int), NEW t \in Seq(Int),
         NEW n, NEW m, n = Len(s), m = Len(t)
  PROVE  Appends(s \o t, s, n, t, m)
<1>1. s \o t \in Seq(Int) /\ Len(s \o t) = n + m
  OBVIOUS
<1>2. \A i \in 1..n : (s \o t)[i] = s[i]
  OBVIOUS
<1>3. \A i \in 1..m : (s \o t)[n+i] = t[i]
  OBVIOUS
<1> QED
  BY <1>1, <1>2, <1>3, Zenon DEF Appends

LEMMA OneCharacter ==
  ASSUME NEW a \in Int
  PROVE  <<a>> \in Seq(Int) /\ Len(<<a>>) = 1 /\ <<a>>[1] = a
  OBVIOUS

LEMMA TwoCharacters ==
  ASSUME NEW a \in Int, NEW b \in Int
  PROVE  /\ <<a, b>> \in Seq(Int) /\ Len(<<a, b>>) = 2
         /\ <<a, b>>[1] = a /\ <<a, b>>[2] = b
  OBVIOUS

LEMMA ThreeCharacters ==
  ASSUME NEW a \in Int, NEW b \in Int, NEW c \in Int
  PROVE  /\ <<a>> \o <<b, c>> \in Seq(Int) /\ Len(<<a>> \o <<b, c>>) = 3
         /\ (<<a>> \o <<b, c>>)[1] = a
         /\ (<<a>> \o <<b, c>>)[2] = b
         /\ (<<a>> \o <<b, c>>)[3] = c
  OBVIOUS

\* A byte is written as two digits, the small ones padded.
LEMMA Padded ==
  ASSUME NEW b \in 0 .. Byte-1
  PROVE  /\ padStart(toString(b)) \in Seq(Int)
         /\ Len(padStart(toString(b))) = 2
         /\ padStart(toString(b))[1] = b \div Nibble
         /\ padStart(toString(b))[2] = b % Nibble
         /\ b \div Nibble \in Nat /\ b % Nibble \in Nat
<1>1. b \in Nat /\ Nibble \in Nat \ {0}
  BY LayoutAssumption, NibbleAssumption
<1>2. b \div Nibble \in Nat /\ b % Nibble \in Nat
  <2>1. b \div Nibble \in Nat /\ b % Nibble \in 0 .. Nibble-1
    BY <1>1, Division, Zenon
  <2> QED
    BY <1>1, <2>1
<1>3. CASE b < Nibble
  <2>1. b % Nibble = b /\ b \div Nibble = 0
    BY <1>1, <1>3
  <2>2. toString(b) = <<b>>
    BY <1>3 DEF toString
  <2>3. padStart(<<b>>) = <<0>> \o <<b>>
    <3>1. Len(<<b>>) < 2
      OBVIOUS
    <3> QED
      BY <3>1, Zenon DEF padStart
  <2>4. PICK r : r = <<0>> \o <<b>>
    OBVIOUS
  <2>5. r \in Seq(Int) /\ Len(r) = 2 /\ r[1] = 0 /\ r[2] = b
    BY <1>1, <2>4
  <2>6. padStart(toString(b)) = r
    BY <2>2, <2>3, <2>4, Zenon
  <2> QED
    BY <1>2, <2>1, <2>5, <2>6, Zenon
<1>4. CASE ~(b < Nibble)
  <2>1. toString(b) = <<b \div Nibble, b % Nibble>>
    BY <1>4, Zenon DEF toString
  <2>2. PICK t : t = <<b \div Nibble, b % Nibble>>
    OBVIOUS
  <2>3. /\ t \in Seq(Int) /\ Len(t) = 2
        /\ t[1] = b \div Nibble /\ t[2] = b % Nibble
    BY <1>2, <2>2, TwoCharacters
  <2>4. padStart(t) = t
    <3>1. ~(Len(t) < 2)
      BY <2>3
    <3> QED
      BY <3>1, Zenon DEF padStart
  <2> QED
    BY <1>2, <2>1, <2>2, <2>3, <2>4, Zenon
<1> QED
  BY <1>3, <1>4

\* Thirty-two digits: byte i is digits 2i-1 and 2i.
SpellsHex(w, u, k) ==
  /\ w \in Seq(Int) /\ Len(w) = 2 * k
  /\ \A i \in 1..k : /\ w[2*i - 1] = u[i] \div Nibble
                     /\ w[2*i] = u[i] % Nibble

LEMMA HexDigits ==
  ASSUME NEW u \in [1..16 -> 0 .. Byte-1]
  PROVE  SpellsHex(generateHex(u), u, 16)
<1> DEFINE s == [i \in 1..16 |-> padStart(toString(u[i]))]
<1>1. DOMAIN s = 1..16 /\ Len(s) = 16
  OBVIOUS
<1>2. \A i \in 1..16 : /\ s[i] \in Seq(Int) /\ Len(s[i]) = 2
                       /\ s[i][1] = u[i] \div Nibble
                       /\ s[i][2] = u[i] % Nibble
  <2>1. ASSUME NEW i \in 1..16
        PROVE  /\ s[i] \in Seq(Int) /\ Len(s[i]) = 2
               /\ s[i][1] = u[i] \div Nibble
               /\ s[i][2] = u[i] % Nibble
    <3>1. u[i] \in 0 .. Byte-1
      OBVIOUS
    <3>2. s[i] = padStart(toString(u[i]))
      BY Zenon
    <3> HIDE DEF s
    <3> QED
      BY <3>1, <3>2, Padded, Zenon
  <2> HIDE DEF s
  <2> QED
    BY <2>1
<1>3. generateHex(u) = FlattenSeq(s)
  BY DEF generateHex
<1> HIDE DEF s
<1>4. PICK f : Joins(f, s, 16) /\ FlattenSeq(s) = f[16]
  BY <1>1, FlattenSixteen
<1>5. f[1] = s[1] /\ \A k \in 1..15 : f[k+1] = f[k] \o s[k+1]
  BY <1>4, Joined
<1> DEFINE K == {k \in 1..16 : SpellsHex(f[k], u, k)}
<1>6. 1 \in K
  <2>1. PICK w : w = f[1] /\ w = s[1]
    BY <1>5
  <2>2. /\ w \in Seq(Int) /\ Len(w) = 2
        /\ w[1] = u[1] \div Nibble /\ w[2] = u[1] % Nibble
    <3>1. 1 \in 1..16
      OBVIOUS
    <3> QED
      BY <1>2, <2>1, <3>1, Zenon
  <2>3. SpellsHex(w, u, 1)
    BY <2>2 DEF SpellsHex
  <2>4. SpellsHex(f[1], u, 1)
    BY <2>1, <2>3, Zenon
  <2> QED
    BY <2>4
<1>7. ASSUME NEW k \in 1..15, k \in K
      PROVE  k+1 \in K
  <2>1. f[k] \in Seq(Int) /\ Len(f[k]) = 2 * k
    BY <1>7 DEF SpellsHex
  <2>2. PICK t : t = s[k+1]
    OBVIOUS
  <2>3. /\ t \in Seq(Int) /\ Len(t) = 2
        /\ t[1] = u[k+1] \div Nibble /\ t[2] = u[k+1] % Nibble
    <3>1. k+1 \in 1..16
      OBVIOUS
    <3> QED
      BY <1>2, <2>2, <3>1, Zenon
  <2>4. f[k+1] = f[k] \o t
    BY <1>5, <2>2, Zenon
  <2>5. PICK v, w : v = f[k] /\ w = f[k+1]
    OBVIOUS
  <2>6. /\ w \in Seq(Int) /\ Len(w) = 2 * k + 2
        /\ \A i \in 1 .. 2 * k : w[i] = v[i]
        /\ w[2 * k + 1] = t[1] /\ w[2 * k + 2] = t[2]
    <3>1. PICK n : n = 2 * k
      OBVIOUS
    <3>2. v \in Seq(Int) /\ Len(v) = n /\ n \in Nat /\ w = v \o t
      BY <2>1, <2>4, <2>5, <3>1
    <3>3. Appends(w, v, n, t, 2)
      BY <2>3, <3>2, Appended
    <3>4. /\ w \in Seq(Int) /\ Len(w) = n + 2
          /\ \A i \in 1..n : w[i] = v[i]
          /\ w[n+1] = t[1] /\ w[n+2] = t[2]
      <4>1. 1 \in 1..2 /\ 2 \in 1..2
        OBVIOUS
      <4> QED
        BY <3>3, <4>1, Zenon DEF Appends
    <3> QED
      BY <3>1, <3>4, Zenon
  <2>7. \A i \in 1..k : /\ v[2*i - 1] = u[i] \div Nibble
                        /\ v[2*i] = u[i] % Nibble
    BY <1>7, <2>5 DEF SpellsHex
  <2>8. SpellsHex(w, u, k+1)
    <3>1. ASSUME NEW i \in 1 .. k+1
          PROVE  w[2*i - 1] = u[i] \div Nibble /\ w[2*i] = u[i] % Nibble
      <4>1. CASE i = k+1
        <5>1. 2*i - 1 = 2 * k + 1 /\ 2*i = 2 * k + 2
          BY <4>1
        <5> QED
          BY <2>3, <2>6, <4>1, <5>1, Zenon
      <4>2. CASE i # k+1
        <5>1. i \in 1..k /\ 2*i - 1 \in 1 .. 2 * k /\ 2*i \in 1 .. 2 * k
          BY <4>2
        <5> QED
          BY <2>6, <2>7, <5>1, Zenon
      <4> QED
        BY <4>1, <4>2
    <3>2. 2 * (k+1) = 2 * k + 2
      OBVIOUS
    <3> QED
      BY <2>6, <3>1, <3>2, Zenon DEF SpellsHex
  <2> QED
    BY <2>5, <2>8
<1>8. 16 \in K
  <2> HIDE DEF K
  <2> QED
    BY <1>6, <1>7, Sixteen
<1> QED
  BY <1>3, <1>4, <1>8

\* Where the first digit of byte k stands in the text.
At(k) ==
  2 * k - 1 + (IF k <= 4 THEN 0 ELSE IF k <= 6 THEN 1 ELSE
               IF k <= 8 THEN 2 ELSE IF k <= 10 THEN 3 ELSE 4)

Hyphens == {9, 14, 19, 24}

\* w is the text of the first k bytes of u.
SpellsText(w, u, k) ==
  /\ w \in Seq(Int) /\ Len(w) = At(k) + 1
  /\ \A i \in 1..k : /\ w[At(i)] = u[i] \div Nibble
                     /\ w[At(i) + 1] = u[i] % Nibble
  /\ \A p \in Hyphens : p <= Len(w) => w[p] = Hyphen

\* The two digits of every byte but the last end before those of the next.
LEMMA Positions ==
  ASSUME NEW k \in 1..16
  PROVE  /\ At(k) \in 1..35 /\ At(k) \notin Hyphens /\ At(k) + 1 \notin Hyphens
         /\ \A i \in 1 .. k-1 : At(i) + 1 < At(k)
  BY DEF At, Hyphens

\* Every place in the text is a hyphen or a digit of some byte.
LEMMA Places ==
  ASSUME NEW p \in 1..36
  PROVE  p \in Hyphens \/ \E k \in 1..16 : p = At(k) \/ p = At(k) + 1
<1>1. /\ At(1) = 1 /\ At(2) = 3 /\ At(3) = 5 /\ At(4) = 7
      /\ At(5) = 10 /\ At(6) = 12 /\ At(7) = 15 /\ At(8) = 17
      /\ At(9) = 20 /\ At(10) = 22 /\ At(11) = 25 /\ At(12) = 27
      /\ At(13) = 29 /\ At(14) = 31 /\ At(15) = 33 /\ At(16) = 35
  BY DEF At
<1>2. CASE p \in 1..13
  BY <1>1, <1>2 DEF Hyphens
<1>3. CASE p \in 14..24
  BY <1>1, <1>3 DEF Hyphens
<1>4. CASE p \in 25..36
  BY <1>1, <1>4 DEF Hyphens
<1> QED
  BY <1>2, <1>3, <1>4

\* slice() inside a text of 32 digits.
LEMMA Cut ==
  ASSUME NEW h \in Seq(Int), Len(h) = 32, NEW m \in 0..31, NEW n \in m+1 .. 32
  PROVE  /\ cut(h, m, n) \in Seq(Int) /\ Len(cut(h, m, n)) = n - m
         /\ \A i \in 1 .. n-m : cut(h, m, n)[i] = h[m+i]
<1>1. cut(h, m, n) = SubSeq(h, m+1, n)
  <2>1. (IF n < Len(h) THEN n ELSE Len(h)) = n
    OBVIOUS
  <2> QED
    BY <2>1, Zenon DEF cut
<1>2. PICK k : k = m + 1
  OBVIOUS
<1>3. k \in Int /\ n \in Int /\ k <= n /\ \A i \in k..n : i \in 1 .. Len(h)
  BY <1>2
<1>4. \A i \in k..n : h[i] \in Int
  BY <1>3, ElementOfSeq, Zenon
<1>5. /\ SubSeq(h, k, n) \in Seq(Int)
      /\ Len(SubSeq(h, k, n)) = IF k <= n THEN n-k+1 ELSE 0
      /\ \A i \in 1 .. n-k+1 : SubSeq(h, k, n)[i] = h[k+i-1]
  BY <1>3, <1>4, SubSeqProperties
<1>6. PICK c : c = SubSeq(h, k, n)
  OBVIOUS
<1>7. n-k+1 = n-m /\ \A i \in 1 .. n-m : k+i-1 = m+i
  BY <1>2
<1>8. /\ c \in Seq(Int) /\ Len(c) = n-m
      /\ \A i \in 1 .. n-m : c[i] = h[m+i]
  BY <1>3, <1>5, <1>6, <1>7, Zenon
<1> QED
  BY <1>1, <1>2, <1>6, <1>8, Zenon

\* r is w, of l characters, then a hyphen and digits m+1 to n of h.
Hyphenates(r, w, l, h, m, n) ==
  /\ r \in Seq(Int) /\ Len(r) = l + 1 + (n - m)
  /\ \A i \in 1..l : r[i] = w[i]
  /\ r[l+1] = Hyphen
  /\ \A i \in m+1 .. n : r[l+1-m+i] = h[i]

LEMMA Piece ==
  ASSUME NEW h \in Seq(Int), Len(h) = 32, NEW m \in 0..31, NEW n \in m+1 .. 32,
         NEW w \in Seq(Int), NEW l \in Nat, l = Len(w)
  PROVE  Hyphenates(w \o <<Hyphen>> \o cut(h, m, n), w, l, h, m, n)
<1>1. PICK t : t = <<Hyphen>>
  OBVIOUS
<1>2. t \in Seq(Int) /\ Len(t) = 1 /\ t[1] = Hyphen
  <2>1. Hyphen \in Int
    BY DEF Hyphen
  <2> QED
    BY <1>1, <2>1, OneCharacter, Zenon
<1>3. PICK c, k : c = cut(h, m, n) /\ k = n - m
  OBVIOUS
<1>4. /\ c \in Seq(Int) /\ Len(c) = k /\ k \in Nat
      /\ \A i \in 1..k : c[i] = h[m+i]
  <2>1. /\ cut(h, m, n) \in Seq(Int) /\ Len(cut(h, m, n)) = n - m
        /\ \A i \in 1 .. n-m : cut(h, m, n)[i] = h[m+i]
    BY Cut, Zenon
  <2>2. n - m \in Nat
    OBVIOUS
  <2> QED
    BY <1>3, <2>1, <2>2, Zenon
<1>5. PICK x, r : x = w \o t /\ r = x \o c
  OBVIOUS
<1>6. Appends(x, w, l, t, 1)
  BY <1>2, <1>5, Appended
<1>7. /\ x \in Seq(Int) /\ Len(x) = l + 1
      /\ \A i \in 1..l : x[i] = w[i]
      /\ x[l+1] = Hyphen
  BY <1>2, <1>6 DEF Appends
<1>8. PICK p : p = l + 1
  OBVIOUS
<1>9. Appends(r, x, p, c, k)
  BY <1>4, <1>5, <1>7, <1>8, Appended
<1>10. /\ r \in Seq(Int) /\ Len(r) = l + 1 + k
       /\ \A i \in 1 .. l+1 : r[i] = x[i]
       /\ \A i \in 1..k : r[l+1+i] = c[i]
  BY <1>8, <1>9, Zenon DEF Appends
<1>11. \A i \in 1..l : r[i] = w[i]
  BY <1>7, <1>10
<1>12. r[l+1] = Hyphen
  <2>1. l+1 \in 1 .. l+1
    OBVIOUS
  <2> QED
    BY <1>7, <1>10, <2>1, Zenon
<1>13. ASSUME NEW i \in m+1 .. n
       PROVE  r[l+1-m+i] = h[i]
  <2>1. i - m \in 1..k /\ l+1+(i-m) = l+1-m+i /\ m+(i-m) = i
    BY <1>3
  <2>2. r[l+1+(i-m)] = c[i-m] /\ c[i-m] = h[m+(i-m)]
    BY <1>4, <1>10, <2>1, Zenon
  <2> QED
    BY <2>1, <2>2, Zenon
<1>14. Hyphenates(r, w, l, h, m, n)
  BY <1>3, <1>10, <1>11, <1>12, <1>13, Zenon DEF Hyphenates
<1>15. r = w \o <<Hyphen>> \o cut(h, m, n)
  BY <1>1, <1>3, <1>5, Zenon
<1> QED
  BY <1>14, <1>15, Zenon

\* A string cut at 8, 12, 16 and 20 spells the identifier.
LEMMA GeneratedSpells ==
  ASSUME NEW u \in [1..16 -> 0 .. Byte-1]
  PROVE  SpellsText(generateString(u), u, 16)
<1> DEFINE h == generateHex(u)
           w1 == cut(h, 0, 8)
           w2 == w1 \o <<Hyphen>> \o cut(h, 8, 12)
           w3 == w2 \o <<Hyphen>> \o cut(h, 12, 16)
           w4 == w3 \o <<Hyphen>> \o cut(h, 16, 20)
           w5 == w4 \o <<Hyphen>> \o cut(h, 20, 32)
<1>1. generateString(u) = w5
  BY Zenon DEF generateString
<1>2. SpellsHex(h, u, 16)
  BY HexDigits
<1> HIDE DEF h
<1>3. h \in Seq(Int) /\ Len(h) = 32
  BY <1>2 DEF SpellsHex
<1>4. /\ w1 \in Seq(Int) /\ Len(w1) = 8
      /\ \A i \in 1..8 : w1[i] = h[i]
  <2>1. 0 \in 0..31 /\ 8 \in 0+1 .. 32
    OBVIOUS
  <2>2. /\ w1 \in Seq(Int) /\ Len(w1) = 8 - 0
        /\ \A i \in 1 .. 8-0 : w1[i] = h[0+i]
    BY <1>3, <2>1, Cut, Zenon
  <2> HIDE DEF w1
  <2> QED
    BY <2>2
<1> HIDE DEF w1, w2, w3, w4, w5
<1>5. /\ w2 \in Seq(Int) /\ Len(w2) = 13
      /\ \A i \in 1..8 : w2[i] = w1[i]
      /\ w2[9] = Hyphen
      /\ \A i \in 9..12 : w2[i+1] = h[i]
  <2>1. w2 = w1 \o <<Hyphen>> \o cut(h, 8, 12)
    BY DEF w2
  <2>2. 8 \in 0..31 /\ 12 \in 8+1 .. 32 /\ 8 \in Nat /\ 8 = Len(w1)
    BY <1>4
  <2>3. Hyphenates(w1 \o <<Hyphen>> \o cut(h, 8, 12), w1, 8, h, 8, 12)
    BY <1>3, <1>4, <2>2, Piece, Zenon
  <2>4. Hyphenates(w2, w1, 8, h, 8, 12)
    BY <2>1, <2>3, Zenon
  <2> QED
    BY <2>4 DEF Hyphenates
<1>6. /\ w3 \in Seq(Int) /\ Len(w3) = 18
      /\ \A i \in 1..13 : w3[i] = w2[i]
      /\ w3[14] = Hyphen
      /\ \A i \in 13..16 : w3[i+2] = h[i]
  <2>1. w3 = w2 \o <<Hyphen>> \o cut(h, 12, 16)
    BY DEF w3
  <2>2. 12 \in 0..31 /\ 16 \in 12+1 .. 32 /\ 13 \in Nat /\ 13 = Len(w2)
    BY <1>5
  <2>3. Hyphenates(w2 \o <<Hyphen>> \o cut(h, 12, 16), w2, 13, h, 12, 16)
    BY <1>3, <1>5, <2>2, Piece, Zenon
  <2>4. Hyphenates(w3, w2, 13, h, 12, 16)
    BY <2>1, <2>3, Zenon
  <2> QED
    BY <2>4 DEF Hyphenates
<1>7. /\ w4 \in Seq(Int) /\ Len(w4) = 23
      /\ \A i \in 1..18 : w4[i] = w3[i]
      /\ w4[19] = Hyphen
      /\ \A i \in 17..20 : w4[i+3] = h[i]
  <2>1. w4 = w3 \o <<Hyphen>> \o cut(h, 16, 20)
    BY DEF w4
  <2>2. 16 \in 0..31 /\ 20 \in 16+1 .. 32 /\ 18 \in Nat /\ 18 = Len(w3)
    BY <1>6
  <2>3. Hyphenates(w3 \o <<Hyphen>> \o cut(h, 16, 20), w3, 18, h, 16, 20)
    BY <1>3, <1>6, <2>2, Piece, Zenon
  <2>4. Hyphenates(w4, w3, 18, h, 16, 20)
    BY <2>1, <2>3, Zenon
  <2> QED
    BY <2>4 DEF Hyphenates
<1>8. /\ w5 \in Seq(Int) /\ Len(w5) = 36
      /\ \A i \in 1..23 : w5[i] = w4[i]
      /\ w5[24] = Hyphen
      /\ \A i \in 21..32 : w5[i+4] = h[i]
  <2>1. w5 = w4 \o <<Hyphen>> \o cut(h, 20, 32)
    BY DEF w5
  <2>2. 20 \in 0..31 /\ 32 \in 20+1 .. 32 /\ 23 \in Nat /\ 23 = Len(w4)
    BY <1>7
  <2>3. Hyphenates(w4 \o <<Hyphen>> \o cut(h, 20, 32), w4, 23, h, 20, 32)
    BY <1>3, <1>7, <2>2, Piece, Zenon
  <2>4. Hyphenates(w5, w4, 23, h, 20, 32)
    BY <2>1, <2>3, Zenon
  <2> QED
    BY <2>4 DEF Hyphenates
<1>9. /\ w5[9] = Hyphen /\ w5[14] = Hyphen
       /\ w5[19] = Hyphen /\ w5[24] = Hyphen
  BY <1>5, <1>6, <1>7, <1>8
<1>10. /\ \A i \in 1..8 : w5[i] = h[i]
       /\ \A i \in 9..12 : w5[i+1] = h[i]
       /\ \A i \in 13..16 : w5[i+2] = h[i]
       /\ \A i \in 17..20 : w5[i+3] = h[i]
       /\ \A i \in 21..32 : w5[i+4] = h[i]
  <2>1. ASSUME NEW i \in 1..8
        PROVE  w5[i] = h[i]
    <3>1. i \in 1..13 /\ i \in 1..18 /\ i \in 1..23
      OBVIOUS
    <3>2. w2[i] = h[i] /\ w3[i] = w2[i] /\ w4[i] = w3[i] /\ w5[i] = w4[i]
      BY <1>4, <1>5, <1>6, <1>7, <1>8, <3>1
    <3> QED
      BY <3>2, Zenon
  <2>2. ASSUME NEW i \in 9..12
        PROVE  w5[i+1] = h[i]
    <3>1. i+1 \in 1..13 /\ i+1 \in 1..18 /\ i+1 \in 1..23
      OBVIOUS
    <3>2. /\ w2[i+1] = h[i] /\ w3[i+1] = w2[i+1]
          /\ w4[i+1] = w3[i+1] /\ w5[i+1] = w4[i+1]
      BY <1>5, <1>6, <1>7, <1>8, <3>1
    <3> QED
      BY <3>2, Zenon
  <2>3. ASSUME NEW i \in 13..16
        PROVE  w5[i+2] = h[i]
    <3>1. i+2 \in 1..18 /\ i+2 \in 1..23
      OBVIOUS
    <3>2. w3[i+2] = h[i] /\ w4[i+2] = w3[i+2] /\ w5[i+2] = w4[i+2]
      BY <1>6, <1>7, <1>8, <3>1
    <3> QED
      BY <3>2, Zenon
  <2>4. ASSUME NEW i \in 17..20
        PROVE  w5[i+3] = h[i]
    <3>1. i+3 \in 1..23
      OBVIOUS
    <3> QED
      BY <1>7, <1>8, <3>1, Zenon
  <2> QED
    BY <1>8, <2>1, <2>2, <2>3, <2>4, Zenon
<1>11. ASSUME NEW k \in 1..16
       PROVE  w5[At(k)] = h[2*k - 1] /\ w5[At(k) + 1] = h[2*k]
  <2>1. CASE k \in 1..4
    <3>1. /\ At(k) = 2*k - 1 /\ At(k) + 1 = 2*k
          /\ 2*k - 1 \in 1..8 /\ 2*k \in 1..8
      BY <2>1 DEF At
    <3> QED
      BY <1>10, <3>1, Zenon
  <2>2. CASE k \in 5..6
    <3>1. /\ At(k) = (2*k - 1) + 1 /\ At(k) + 1 = 2*k + 1
          /\ 2*k - 1 \in 9..12 /\ 2*k \in 9..12
      BY <2>2 DEF At
    <3> QED
      BY <1>10, <3>1, Zenon
  <2>3. CASE k \in 7..8
    <3>1. /\ At(k) = (2*k - 1) + 2 /\ At(k) + 1 = 2*k + 2
          /\ 2*k - 1 \in 13..16 /\ 2*k \in 13..16
      BY <2>3 DEF At
    <3> QED
      BY <1>10, <3>1, Zenon
  <2>4. CASE k \in 9..10
    <3>1. /\ At(k) = (2*k - 1) + 3 /\ At(k) + 1 = 2*k + 3
          /\ 2*k - 1 \in 17..20 /\ 2*k \in 17..20
      BY <2>4 DEF At
    <3> QED
      BY <1>10, <3>1, Zenon
  <2>5. CASE k \in 11..16
    <3>1. /\ At(k) = (2*k - 1) + 4 /\ At(k) + 1 = 2*k + 4
          /\ 2*k - 1 \in 21..32 /\ 2*k \in 21..32
      BY <2>5 DEF At
    <3> QED
      BY <1>10, <3>1, Zenon
  <2> QED
    BY <2>1, <2>2, <2>3, <2>4, <2>5
<1>12. \A k \in 1..16 : /\ h[2*k - 1] = u[k] \div Nibble
                        /\ h[2*k] = u[k] % Nibble
  BY <1>2 DEF SpellsHex
<1>13. SpellsText(w5, u, 16)
  <2>1. At(16) + 1 = 36 /\ Len(w5) = 36
    BY <1>8 DEF At
  <2>2. \A p \in Hyphens : w5[p] = Hyphen
    BY <1>9 DEF Hyphens
  <2> QED
    BY <1>8, <1>11, <1>12, <2>1, <2>2, Zenon DEF SpellsText
<1> QED
  BY <1>1, <1>13, Zenon

\* A loop that puts a hyphen before four of the bytes spells it too.
LEMMA LoopSpells ==
  ASSUME NEW u \in [1..16 -> 0 .. Byte-1]
  PROVE  SpellsText(UUIDToString(u), u, 16)
<1> DEFINE s == [i \in 1..16 |->
                  (IF i - 1 \in {4, 6, 8, 10} THEN <<Hyphen>> ELSE <<>>)
                    \o <<u[i] \div Nibble, u[i] % Nibble>>]
<1>1. DOMAIN s = 1..16 /\ Len(s) = 16
  OBVIOUS
<1>2. ASSUME NEW i \in 1..16
      PROVE  u[i] \div Nibble \in Int /\ u[i] % Nibble \in Int
  <2>1. u[i] \in 0 .. Byte-1
    OBVIOUS
  <2>2. u[i] \div Nibble \in Nat /\ u[i] % Nibble \in Nat
    BY <2>1, Padded, Zenon
  <2> QED
    BY <2>2
<1>3. \A i \in 1..16 :
        s[i] = (IF i - 1 \in {4, 6, 8, 10} THEN <<Hyphen>> ELSE <<>>)
                 \o <<u[i] \div Nibble, u[i] % Nibble>>
  BY Zenon
<1>4. UUIDToString(u) = FlattenSeq(s)
  BY Zenon DEF UUIDToString
<1> HIDE DEF s
<1>5. PICK f : Joins(f, s, 16) /\ FlattenSeq(s) = f[16]
  BY <1>1, FlattenSixteen
<1>6. f[1] = s[1] /\ \A k \in 1..15 : f[k+1] = f[k] \o s[k+1]
  BY <1>5, Joined
<1>7. ASSUME NEW i \in 1..16
      PROVE  LET n == IF i - 1 \in {4, 6, 8, 10} THEN 1 ELSE 0
             IN  /\ s[i] \in Seq(Int) /\ Len(s[i]) = n + 2
                 /\ n = 1 => s[i][1] = Hyphen
                 /\ s[i][n+1] = u[i] \div Nibble
                 /\ s[i][n+2] = u[i] % Nibble
  <2>1. PICK a, b : a = u[i] \div Nibble /\ b = u[i] % Nibble
    OBVIOUS
  <2>2. a \in Int /\ b \in Int /\ Hyphen \in Int
    BY <1>2, <2>1 DEF Hyphen
  <2>3. CASE i - 1 \in {4, 6, 8, 10}
    <3>1. s[i] = <<Hyphen>> \o <<a, b>>
      BY <1>3, <2>1, <2>3, Zenon
    <3>2. PICK t : t = s[i]
      OBVIOUS
    <3>3. t \in Seq(Int) /\ Len(t) = 3 /\ t[1] = Hyphen /\ t[2] = a /\ t[3] = b
      BY <2>2, <3>1, <3>2, ThreeCharacters
    <3> QED
      BY <2>1, <2>3, <3>2, <3>3
  <2>4. CASE i - 1 \notin {4, 6, 8, 10}
    <3>1. s[i] = <<>> \o <<a, b>>
      BY <1>3, <2>1, <2>4, Zenon
    <3>2. <<>> \o <<a, b>> = <<a, b>>
      OBVIOUS
    <3>3. PICK t : t = s[i]
      OBVIOUS
    <3>4. t \in Seq(Int) /\ Len(t) = 2 /\ t[1] = a /\ t[2] = b
      BY <2>2, <3>1, <3>2, <3>3, TwoCharacters
    <3> QED
      BY <2>1, <2>4, <3>3, <3>4
  <2> QED
    BY <2>3, <2>4, Zenon
<1> DEFINE K == {k \in 1..16 : SpellsText(f[k], u, k)}
<1>8. 1 \in K
  <2>1. PICK w : w = f[1] /\ w = s[1]
    BY <1>6
  <2>2. /\ w \in Seq(Int) /\ Len(w) = 2
        /\ w[1] = u[1] \div Nibble /\ w[2] = u[1] % Nibble
    <3>1. 1 \in 1..16 /\ ~(1 - 1 \in {4, 6, 8, 10})
      OBVIOUS
    <3>2. /\ w \in Seq(Int) /\ Len(w) = 0 + 2
          /\ w[0+1] = u[1] \div Nibble /\ w[0+2] = u[1] % Nibble
      BY <1>7, <2>1, <3>1, Zenon
    <3> QED
      BY <3>2
  <2>3. At(1) = 1
    BY DEF At
  <2>4. SpellsText(w, u, 1)
    <3>1. \A i \in 1..1 : i = 1
      OBVIOUS
    <3>2. \A p \in Hyphens : ~(p <= 2)
      BY DEF Hyphens
    <3>3. Len(w) = At(1) + 1
      BY <2>2, <2>3
    <3>4. w[At(1)] = u[1] \div Nibble /\ w[At(1) + 1] = u[1] % Nibble
      <4>1. At(1) + 1 = 2
        BY <2>3
      <4> QED
        BY <2>2, <2>3, <4>1, Zenon
    <3> QED
      BY <2>2, <3>1, <3>2, <3>3, <3>4, Zenon DEF SpellsText
  <2>5. SpellsText(f[1], u, 1)
    BY <2>1, <2>4, Zenon
  <2> QED
    BY <2>5
<1>9. ASSUME NEW k \in 1..15, k \in K
      PROVE  k+1 \in K
  <2>1. PICK v, w, t : v = f[k] /\ w = f[k+1] /\ t = s[k+1]
    OBVIOUS
  <2>2. v \in Seq(Int) /\ Len(v) = At(k) + 1
    BY <1>9, <2>1 DEF SpellsText
  <2>3. PICK n : n = IF (k+1) - 1 \in {4, 6, 8, 10} THEN 1 ELSE 0
    OBVIOUS
  <2>4. n \in 0..1 /\ (n = 1 <=> k \in {4, 6, 8, 10})
    BY <2>3
  <2>5. /\ t \in Seq(Int) /\ Len(t) = n + 2
        /\ n = 1 => t[1] = Hyphen
        /\ t[n+1] = u[k+1] \div Nibble /\ t[n+2] = u[k+1] % Nibble
    <3>1. k+1 \in 1..16
      OBVIOUS
    <3> QED
      BY <1>7, <2>1, <2>3, <3>1, Zenon
  <2>6. w = v \o t
    BY <1>6, <2>1, Zenon
  <2>7. PICK m, l : m = At(k) + 1 /\ l = n + 2
    OBVIOUS
  <2>8. /\ At(k) \in 1..35 /\ At(k+1) = At(k) + 2 + n
        /\ \A i \in 1..k : At(i) \in 1 .. At(k)
    BY <2>4 DEF At
  <2>9. \A p \in Hyphens : p > At(k) + 1 /\ p <= At(k+1) + 1
                             => n = 1 /\ p = At(k) + 2
    BY <2>4 DEF At, Hyphens
  <2>10. m \in Nat /\ l \in Nat /\ Len(v) = m /\ Len(t) = l
    BY <2>2, <2>4, <2>5, <2>7, <2>8
  <2>11. Appends(w, v, m, t, l)
    BY <2>2, <2>5, <2>6, <2>10, Appended
  <2>12. /\ w \in Seq(Int) /\ Len(w) = m + l
         /\ \A i \in 1..m : w[i] = v[i]
         /\ \A i \in 1..l : w[m+i] = t[i]
    BY <2>11, Zenon DEF Appends
  <2>13. /\ w[At(k+1)] = u[k+1] \div Nibble
         /\ w[At(k+1) + 1] = u[k+1] % Nibble
    <3>1. /\ n+1 \in 1..l /\ n+2 \in 1..l
          /\ m + (n+1) = At(k+1) /\ m + (n+2) = At(k+1) + 1
      BY <2>4, <2>7, <2>8
    <3>2. w[m + (n+1)] = t[n+1] /\ w[m + (n+2)] = t[n+2]
      BY <2>12, <3>1, Zenon
    <3> QED
      BY <2>5, <3>1, <3>2, Zenon
  <2>14. \A i \in 1..k : /\ v[At(i)] = u[i] \div Nibble
                         /\ v[At(i) + 1] = u[i] % Nibble
    BY <1>9, <2>1 DEF SpellsText
  <2>15. ASSUME NEW i \in 1 .. k+1
         PROVE  w[At(i)] = u[i] \div Nibble /\ w[At(i) + 1] = u[i] % Nibble
    <3>1. CASE i = k+1
      BY <2>13, <3>1, Zenon
    <3>2. CASE i # k+1
      <4>1. i \in 1..k
        BY <3>2
      <4>2. PICK q : q = At(i)
        OBVIOUS
      <4>3. q \in 1 .. At(k)
        BY <2>8, <4>1, <4>2
      <4>4. q \in 1..m /\ q + 1 \in 1..m
        BY <2>7, <2>8, <4>3
      <4> QED
        BY <2>12, <2>14, <4>1, <4>2, <4>4, Zenon
    <3> QED
      BY <3>1, <3>2, Zenon
  <2>16. Len(w) = At(k+1) + 1
    <3>1. PICK a, z : a = At(k) /\ z = At(k+1)
      OBVIOUS
    <3>2. a \in 1..35 /\ z = a + 2 + n /\ m = a + 1
      BY <2>7, <2>8, <3>1, Zenon
    <3>3. m + l = z + 1
      BY <2>4, <2>7, <3>2
    <3> QED
      BY <2>12, <3>1, <3>3, Zenon
  <2>17. ASSUME NEW p \in Hyphens, p <= Len(w)
         PROVE  w[p] = Hyphen
    <3>1. p \in Nat \ {0}
      BY DEF Hyphens
    <3>2. CASE p <= Len(v)
      <4>1. v[p] = Hyphen
        BY <1>9, <2>1, <3>2, Zenon DEF SpellsText
      <4>2. p \in 1..m
        BY <2>10, <3>1, <3>2
      <4> QED
        BY <2>12, <4>1, <4>2, Zenon
    <3>3. CASE ~(p <= Len(v))
      <4>1. p > At(k) + 1 /\ p <= At(k+1) + 1
        <5>1. ~(p <= m) /\ p <= At(k+1) + 1
          BY <2>10, <2>17, <2>16, <3>3, Zenon
        <5> QED
          BY <2>7, <2>10, <3>1, <5>1
      <4>2. n = 1 /\ p = At(k) + 2
        BY <2>9, <4>1, Zenon
      <4>3. 1 \in 1..l /\ p = m + 1
        BY <2>7, <2>8, <4>2
      <4> QED
        BY <2>5, <2>12, <4>2, <4>3, Zenon
    <3> QED
      BY <3>2, <3>3, Zenon
  <2>18. SpellsText(w, u, k+1)
    BY <2>12, <2>15, <2>17, <2>16, Zenon DEF SpellsText
  <2>19. SpellsText(f[k+1], u, k+1)
    BY <2>1, <2>18, Zenon
  <2> QED
    BY <2>19
<1>10. 16 \in K
  <2> HIDE DEF K
  <2> QED
    BY <1>8, <1>9, Sixteen
<1>11. SpellsText(f[16], u, 16)
  BY <1>10
<1> QED
  BY <1>4, <1>5, <1>11, Zenon

\* A text of 36 characters, read one place at a time.
LEMMA TextRead ==
  ASSUME NEW u, NEW w, SpellsText(w, u, 16)
  PROVE  /\ w \in Seq(Int) /\ Len(w) = 36
         /\ \A p \in Hyphens : w[p] = Hyphen
         /\ \A k \in 1..16 : /\ w[At(k)] = u[k] \div Nibble
                             /\ w[At(k) + 1] = u[k] % Nibble
<1>1. w \in Seq(Int) /\ Len(w) = At(16) + 1
  BY Zenon DEF SpellsText
<1>2. At(16) = 35
  BY DEF At
<1>3. Len(w) = 36
  BY <1>1, <1>2
<1>4. \A p \in Hyphens : p <= 36
  BY DEF Hyphens
<1>5. \A p \in Hyphens : w[p] = Hyphen
  BY <1>3, <1>4, Zenon DEF SpellsText
<1> QED
  BY <1>1, <1>3, <1>5, Zenon DEF SpellsText

LEMMA OneSpelling ==
  ASSUME NEW u, NEW w, NEW x, SpellsText(w, u, 16), SpellsText(x, u, 16)
  PROVE  w = x
<1>1. ASSUME NEW p \in 1..36
      PROVE  w[p] = x[p]
  <2>1. CASE p \in Hyphens
    <3>1. w[p] = Hyphen
      BY <2>1, TextRead, Zenon
    <3>2. x[p] = Hyphen
      BY <2>1, TextRead, Zenon
    <3> QED
      BY <3>1, <3>2
  <2>2. CASE p \notin Hyphens
    <3>1. PICK k \in 1..16 : p = At(k) \/ p = At(k) + 1
      BY <2>2, Places, Zenon
    <3>2. w[At(k)] = u[k] \div Nibble /\ w[At(k) + 1] = u[k] % Nibble
      BY TextRead, Zenon
    <3>3. x[At(k)] = u[k] \div Nibble /\ x[At(k) + 1] = u[k] % Nibble
      BY TextRead, Zenon
    <3> QED
      BY <3>1, <3>2, <3>3, Zenon
  <2> QED
    BY <2>1, <2>2, Zenon
<1>2. /\ w \in Seq(Int) /\ Len(w) = 36
      /\ x \in Seq(Int) /\ Len(x) = 36
  BY TextRead, Zenon
<1>3. \A p \in 1 .. Len(w) : w[p] = x[p]
  BY <1>1, <1>2, Zenon
<1> QED
  BY <1>2, <1>3, SeqEqual, Zenon

\* No digit is taken for a hyphen.
LEMMA HyphenPlaces ==
  ASSUME NEW u \in [1..16 -> 0 .. Byte-1], NEW w, SpellsText(w, u, 16)
  PROVE  {i \in DOMAIN w : w[i] = Hyphen} = Hyphens
<1>1. DOMAIN w = 1..36
  <2>1. w \in Seq(Int) /\ Len(w) = 36
    BY TextRead, Zenon
  <2> QED
    BY <2>1
<1>2. Hyphens \subseteq 1..36
  BY DEF Hyphens
<1>3. \A p \in Hyphens : w[p] = Hyphen
  BY TextRead, Zenon
<1>4. ASSUME NEW p \in 1..36, p \notin Hyphens
      PROVE  w[p] # Hyphen
  <2>1. PICK k \in 1..16 : p = At(k) \/ p = At(k) + 1
    BY <1>4, Places, Zenon
  <2>2. u[k] \in 0 .. Byte-1
    OBVIOUS
  <2>3. u[k] \div Nibble \in Nat /\ u[k] % Nibble \in Nat
    BY <2>2, Padded, Zenon
  <2>4. w[At(k)] = u[k] \div Nibble /\ w[At(k) + 1] = u[k] % Nibble
    BY TextRead, Zenon
  <2>5. w[p] \in Nat
    BY <2>1, <2>3, <2>4, Zenon
  <2> QED
    BY <2>5 DEF Hyphen
<1> QED
  BY <1>1, <1>2, <1>3, <1>4, Zenon

\* Texts of one length compare at the first place in which they differ.
LEMMA TextCompared ==
  ASSUME NEW s \in Seq(Int), NEW t \in Seq(Int), Len(s) = 36, Len(t) = 36
  PROVE  TextPrecedes(s, t) <=>
           \E p \in 1..36 : s[p] < t[p] /\ \A q \in 1 .. p-1 : s[q] = t[q]
<1>1. ASSUME NEW p \in 1..36
      PROVE  SubSeq(s, 1, p-1) = SubSeq(t, 1, p-1) <=>
               \A q \in 1 .. p-1 : s[q] = t[q]
  <2>1. PICK n : n = p - 1
    OBVIOUS
  <2>2. /\ 1 \in Int /\ n \in Nat /\ n \in Int
        /\ \A q \in 1..n : q \in 1 .. Len(s) /\ q \in 1 .. Len(t)
    BY <2>1
  <2>3. \A q \in 1..n : s[q] \in Int /\ t[q] \in Int
    BY <2>2, ElementOfSeq, Zenon
  <2>4. PICK a, b : a = SubSeq(s, 1, n) /\ b = SubSeq(t, 1, n)
    OBVIOUS
  <2>5. /\ a \in Seq(Int) /\ Len(a) = n
        /\ \A q \in 1..n : a[q] = s[q]
    <3>1. /\ SubSeq(s, 1, n) \in Seq(Int)
          /\ Len(SubSeq(s, 1, n)) = IF 1 <= n THEN n-1+1 ELSE 0
          /\ \A q \in 1 .. n-1+1 : SubSeq(s, 1, n)[q] = s[1+q-1]
      BY <2>2, <2>3, SubSeqProperties
    <3>2. /\ (IF 1 <= n THEN n-1+1 ELSE 0) = n /\ n-1+1 = n
          /\ \A q \in 1..n : 1+q-1 = q
      BY <2>2
    <3> QED
      BY <2>4, <3>1, <3>2, Zenon
  <2>6. /\ b \in Seq(Int) /\ Len(b) = n
        /\ \A q \in 1..n : b[q] = t[q]
    <3>1. /\ SubSeq(t, 1, n) \in Seq(Int)
          /\ Len(SubSeq(t, 1, n)) = IF 1 <= n THEN n-1+1 ELSE 0
          /\ \A q \in 1 .. n-1+1 : SubSeq(t, 1, n)[q] = t[1+q-1]
      BY <2>2, <2>3, SubSeqProperties
    <3>2. /\ (IF 1 <= n THEN n-1+1 ELSE 0) = n /\ n-1+1 = n
          /\ \A q \in 1..n : 1+q-1 = q
      BY <2>2
    <3> QED
      BY <2>4, <3>1, <3>2, Zenon
  <2>7. (\A q \in 1..n : a[q] = b[q]) => a = b
    <3>1. Len(a) = Len(b) /\ 1 .. Len(a) = 1..n
      BY <2>5, <2>6
    <3> QED
      BY <2>5, <2>6, <3>1, SeqEqual, Zenon
  <2>8. a = b <=> \A q \in 1..n : s[q] = t[q]
    BY <2>5, <2>6, <2>7, Zenon
  <2> QED
    BY <2>1, <2>4, <2>8, Zenon
<1>2. ~(Len(s) < Len(t))
  OBVIOUS
<1>3. 1 .. Len(s) = 1..36 /\ \A p \in 1..36 : p <= Len(t)
  OBVIOUS
<1> QED
  BY <1>1, <1>2, <1>3, Zenon DEF TextPrecedes

\* A byte compares as its two digits do.
LEMMA DigitsOfBytes ==
  ASSUME NEW b \in 0 .. Byte-1, NEW c \in 0 .. Byte-1
  PROVE  /\ b < c <=> \/ b \div Nibble < c \div Nibble
                      \/ b \div Nibble = c \div Nibble /\ b % Nibble < c % Nibble
         /\ b = c <=> b \div Nibble = c \div Nibble /\ b % Nibble = c % Nibble
<1>1. b \in Nat /\ c \in Nat /\ Nibble \in Nat \ {0}
  BY LayoutAssumption, NibbleAssumption
<1> QED
  BY <1>1, DigitOrder, Zenon

\* The text compares as the bytes do.
LEMMA TextOrder ==
  ASSUME NEW u \in [1..16 -> 0 .. Byte-1], NEW v \in [1..16 -> 0 .. Byte-1],
         NEW s, NEW t, SpellsText(s, u, 16), SpellsText(t, v, 16)
  PROVE  TextPrecedes(s, t) <=> BytesPrecede(u, v)
<1>1. /\ s \in Seq(Int) /\ Len(s) = 36 /\ t \in Seq(Int) /\ Len(t) = 36
      /\ \A p \in Hyphens : s[p] = t[p]
      /\ \A k \in 1..16 : /\ s[At(k)] = u[k] \div Nibble
                          /\ s[At(k) + 1] = u[k] % Nibble
                          /\ t[At(k)] = v[k] \div Nibble
                          /\ t[At(k) + 1] = v[k] % Nibble
  <2>1. /\ s \in Seq(Int) /\ Len(s) = 36
        /\ \A p \in Hyphens : s[p] = Hyphen
        /\ \A k \in 1..16 : /\ s[At(k)] = u[k] \div Nibble
                            /\ s[At(k) + 1] = u[k] % Nibble
    BY TextRead, Zenon
  <2>2. /\ t \in Seq(Int) /\ Len(t) = 36
        /\ \A p \in Hyphens : t[p] = Hyphen
        /\ \A k \in 1..16 : /\ t[At(k)] = v[k] \div Nibble
                            /\ t[At(k) + 1] = v[k] % Nibble
    BY TextRead, Zenon
  <2> QED
    BY <2>1, <2>2, Zenon
<1>2. ASSUME NEW k \in 1..16
      PROVE  /\ u[k] < v[k] <=>
                  \/ s[At(k)] < t[At(k)]
                  \/ s[At(k)] = t[At(k)] /\ s[At(k) + 1] < t[At(k) + 1]
             /\ u[k] = v[k] <=>
                  s[At(k)] = t[At(k)] /\ s[At(k) + 1] = t[At(k) + 1]
  <2>1. PICK b, c : b = u[k] /\ c = v[k]
    OBVIOUS
  <2>2. b \in 0 .. Byte-1 /\ c \in 0 .. Byte-1
    BY <2>1
  <2>3. /\ b < c <=> \/ b \div Nibble < c \div Nibble
                     \/ b \div Nibble = c \div Nibble /\ b % Nibble < c % Nibble
        /\ b = c <=> b \div Nibble = c \div Nibble /\ b % Nibble = c % Nibble
    BY <2>2, DigitsOfBytes, Zenon
  <2>4. /\ s[At(k)] = b \div Nibble /\ s[At(k) + 1] = b % Nibble
        /\ t[At(k)] = c \div Nibble /\ t[At(k) + 1] = c % Nibble
    BY <1>1, <2>1, Zenon
  <2> QED
    BY <2>1, <2>3, <2>4, Zenon
<1>3. ASSUME NEW k \in 1..16
      PROVE  /\ At(k) \in 1..36 /\ At(k) + 1 \in 1..36
             /\ At(k) \in 1 .. (At(k) + 1) - 1
             /\ \A j \in 1 .. k-1 :
                  /\ j \in 1..16
                  /\ At(j) \in 1 .. At(k) - 1 /\ At(j) + 1 \in 1 .. At(k) - 1
                  /\ At(j) \in 1 .. (At(k) + 1) - 1
                  /\ At(j) + 1 \in 1 .. (At(k) + 1) - 1
  BY DEF At
<1>4. ASSUME NEW k \in 1..16, NEW p \in 1 .. At(k) - 1, p \notin Hyphens
      PROVE  \E j \in 1 .. k-1 : p = At(j) \/ p = At(j) + 1
  <2>1. p \in 1..36
    <3>1. PICK a : a = At(k)
      OBVIOUS
    <3>2. a \in 1..36 /\ p \in 1 .. a-1
      BY <1>3, <3>1, Zenon
    <3> QED
      BY <3>2
  <2>2. PICK j \in 1..16 : p = At(j) \/ p = At(j) + 1
    BY <1>4, <2>1, Places, Zenon
  <2>3. At(j) < At(k)
    BY <2>2, Positions
  <2>4. j < k
    BY <2>3 DEF At
  <2> QED
    BY <2>2, <2>4
<1>5. ASSUME NEW k \in 1..16
      PROVE  (\A p \in 1 .. At(k) - 1 : s[p] = t[p]) <=>
               \A j \in 1 .. k-1 : u[j] = v[j]
  <2>1. ASSUME \A p \in 1 .. At(k) - 1 : s[p] = t[p], NEW j \in 1 .. k-1
        PROVE  u[j] = v[j]
    BY <1>2, <1>3, <2>1, Zenon
  <2>2. ASSUME \A j \in 1 .. k-1 : u[j] = v[j], NEW p \in 1 .. At(k) - 1
        PROVE  s[p] = t[p]
    <3>1. CASE p \in Hyphens
      BY <1>1, <3>1, Zenon
    <3>2. CASE p \notin Hyphens
      <4>1. PICK j \in 1 .. k-1 : p = At(j) \/ p = At(j) + 1
        BY <1>4, <3>2, Zenon
      <4>2. j \in 1..16 /\ u[j] = v[j]
        BY <1>3, <2>2, Zenon
      <4>3. s[At(j)] = t[At(j)] /\ s[At(j) + 1] = t[At(j) + 1]
        BY <1>2, <4>2, Zenon
      <4> QED
        BY <4>1, <4>3, Zenon
    <3> QED
      BY <3>1, <3>2, Zenon
  <2> QED
    BY <2>1, <2>2, Zenon
<1>6. ASSUME NEW k \in 1..16, u[k] < v[k], \A j \in 1 .. k-1 : u[j] = v[j]
      PROVE  \E p \in 1..36 : s[p] < t[p] /\ \A q \in 1 .. p-1 : s[q] = t[q]
  <2>1. \A p \in 1 .. At(k) - 1 : s[p] = t[p]
    BY <1>5, <1>6, Zenon
  <2>2. CASE s[At(k)] < t[At(k)]
    BY <1>3, <2>1, <2>2, Zenon
  <2>3. CASE s[At(k)] = t[At(k)] /\ s[At(k) + 1] < t[At(k) + 1]
    <3>1. \A q \in 1 .. (At(k) + 1) - 1 : q = At(k) \/ q \in 1 .. At(k) - 1
      <4>1. PICK a : a = At(k)
        OBVIOUS
      <4>2. a \in 1..36
        BY <1>3, <4>1, Zenon
      <4>3. \A q \in 1 .. (a+1) - 1 : q = a \/ q \in 1 .. a-1
        BY <4>2
      <4> QED
        BY <4>1, <4>3, Zenon
    <3>2. \A q \in 1 .. (At(k) + 1) - 1 : s[q] = t[q]
      BY <2>1, <2>3, <3>1, Zenon
    <3> QED
      BY <1>3, <2>3, <3>2, Zenon
  <2> QED
    BY <1>2, <1>6, <2>2, <2>3, Zenon
<1>7. ASSUME NEW p \in 1..36, s[p] < t[p], \A q \in 1 .. p-1 : s[q] = t[q]
      PROVE  BytesPrecede(u, v)
  <2>1. p \notin Hyphens
    <3>1. p \in Hyphens => s[p] = Hyphen /\ t[p] = Hyphen
      BY TextRead, Zenon
    <3> QED
      BY <1>7, <3>1 DEF Hyphen
  <2>2. PICK k \in 1..16 : p = At(k) \/ p = At(k) + 1
    BY <2>1, Places, Zenon
  <2>3. u[k] < v[k]
    <3>1. CASE p = At(k)
      BY <1>2, <1>7, <3>1, Zenon
    <3>2. CASE p = At(k) + 1
      <4>1. s[At(k)] = t[At(k)]
        BY <1>3, <1>7, <3>2, Zenon
      <4> QED
        BY <1>2, <1>7, <3>2, <4>1, Zenon
    <3> QED
      BY <2>2, <3>1, <3>2, Zenon
  <2>4. \A q \in 1 .. At(k) - 1 : q \in 1 .. p-1
    BY <1>3, <2>2
  <2>5. \A j \in 1 .. k-1 : u[j] = v[j]
    BY <1>5, <1>7, <2>4, Zenon
  <2> QED
    BY <2>3, <2>5, Zenon DEF BytesPrecede
<1>8. TextPrecedes(s, t) <=>
        \E p \in 1..36 : s[p] < t[p] /\ \A q \in 1 .. p-1 : s[q] = t[q]
  BY <1>1, TextCompared, Zenon
<1> QED
  BY <1>6, <1>7, <1>8, Zenon DEF BytesPrecede

\* Every identifier's text is the same from both loops, with hyphens at four
\* places and nowhere else (uuid7_wasm.js, bindings/golang/uuid7.go).
THEOREM TheRenderingsAgree == Spec => []RenderingsAgree
<1>1. LayoutInv => RenderingsAgree
  <2> SUFFICES ASSUME LayoutInv PROVE RenderingsAgree
    OBVIOUS
  <2>1. PICK u : u = buf
    OBVIOUS
  <2>2. u \in [1..16 -> 0 .. Byte-1]
    BY <2>1, SixteenBytes DEF LayoutInv
  <2>3. SpellsText(generateString(u), u, 16) /\ SpellsText(UUIDToString(u), u, 16)
    BY <2>2, GeneratedSpells, LoopSpells, Zenon
  <2>4. generateString(u) = UUIDToString(u)
    BY <2>3, OneSpelling, Zenon
  <2>5. {i \in DOMAIN UUIDToString(u) : UUIDToString(u)[i] = Hyphen} = Hyphens
    BY <2>2, <2>3, HyphenPlaces, Zenon
  <2> QED
    BY <2>1, <2>4, <2>5, Zenon DEF RenderingsAgree, Hyphens
<1> QED
  BY <1>1, LayoutInvariance, PTL

\* Sorting identifiers as text sorts them as bytes.
THEOREM TextSorts == Spec => TextInByteOrder
<1>1. LayoutInv /\ LayoutInv' =>
        (TextPrecedes(generateString(buf), generateString(buf'))
           <=> BytesPrecede(buf, buf'))
  <2> SUFFICES ASSUME LayoutInv, LayoutInv'
               PROVE  TextPrecedes(generateString(buf), generateString(buf'))
                        <=> BytesPrecede(buf, buf')
    OBVIOUS
  <2>1. PICK u, v : u = buf /\ v = buf'
    OBVIOUS
  <2>2. u \in [1..16 -> 0 .. Byte-1] /\ v \in [1..16 -> 0 .. Byte-1]
    BY <2>1, SixteenBytes DEF LayoutInv
  <2>3. SpellsText(generateString(u), u, 16) /\ SpellsText(generateString(v), v, 16)
    BY <2>2, GeneratedSpells, Zenon
  <2>4. TextPrecedes(generateString(u), generateString(v)) <=> BytesPrecede(u, v)
    BY <2>2, <2>3, TextOrder, Zenon
  <2> QED
    BY <2>1, <2>4, Zenon
<1>2. LayoutInv /\ [Write]_<<ctx, buf>> =>
        [TextPrecedes(generateString(buf), generateString(buf'))
           <=> BytesPrecede(buf, buf')]_<<ctx, buf>>
  BY <1>1, LayoutStep, Zenon
<1> QED
  BY <1>2, LayoutInvariance, PTL DEF Spec, TextInByteOrder

=============================================================================
