----------------------------- MODULE UuidLayout -----------------------------
(***************************************************************************)
(* The sixteen bytes of an identifier: where uuid7_generate_ex puts the    *)
(* fields of a context (src/uuid7.c) and the order memcmp sees in them.    *)
(*                                                                         *)
(* The generator's modules compare identifiers field by field.  This one   *)
(* says that the bytes compare the same way, and that version and variant  *)
(* are in every one of them whatever the fields hold.                      *)
(*                                                                         *)
(* Shifts and masks are divisions and remainders, and the two ORs are      *)
(* sums: 0x70 and 0x80 have no bit in common with the fields they meet,    *)
(* whose widths Context bounds.                                            *)
(***************************************************************************)
EXTENDS Uuid7Context, Sequences

CONSTANTS
  Byte,      \* 256, the values of a byte
  SixBits,   \* 64, the values left in a byte under the two bits of the variant
  Versions,  \* 16, the values of the nibble that holds the version
  Version,   \* 7
  Contexts   \* the contexts that are written out

ASSUME LayoutAssumption ==
  /\ Byte \in Nat \ {0} /\ SixBits \in Nat \ {0}
  /\ Byte = 4 * SixBits
  /\ Byte = Versions * RandALimit
  /\ Versions \in Nat /\ Version \in 0 .. Versions-1
  /\ HighLimit = Byte * SixBits
  /\ TsLimit = Byte * (Byte * (Byte * (Byte * (Byte * Byte))))
  /\ LowLimit = Byte * TsLimit

\* A context is written out when no carry is left in counter_high and the
\* clock is inside its 48 bits: see ContextRemembersOut and RangeAssumption.
ASSUME ContextsAssumption ==
  \A c \in Contexts : /\ c \in Context
                      /\ c.counter_high < HighLimit
                      /\ c.last_timestamp_ms < TsLimit

VARIABLES
  ctx,  \* the context written last
  buf   \* the caller's sixteen bytes, buf[i+1] being out[i]

\* The 0b10 of RFC 9562, in the two upper bits of its byte.
Variant == 2

-----------------------------------------------------------------------------

\* Mutant: two bytes of the timestamp in the order a little-endian host has
\* them.
write_be48_swapped(val) ==
  LET s1 == val \div Byte
      s2 == s1 \div Byte
      s3 == s2 \div Byte
      s4 == s3 \div Byte
      s5 == s4 \div Byte
  IN  <<s5 % Byte, s4 % Byte, s3 % Byte, s2 % Byte, val % Byte, s1 % Byte>>

\* The low 48 bits of a number, most significant byte first.
write_be48(val) ==
  LET s1 == val \div Byte
      s2 == s1 \div Byte
      s3 == s2 \div Byte
      s4 == s3 \div Byte
      s5 == s4 \div Byte
  IN  <<s5 % Byte, s4 % Byte, s3 % Byte, s2 % Byte, s1 % Byte, val % Byte>>

\* The low 56 bits.
write_be56(val) ==
  LET s1 == val \div Byte
      s2 == s1 \div Byte
      s3 == s2 \div Byte
      s4 == s3 \div Byte
      s5 == s4 \div Byte
      s6 == s5 \div Byte
  IN  <<s6 % Byte, s5 % Byte, s4 % Byte, s3 % Byte, s2 % Byte, s1 % Byte,
        val % Byte>>

\* Mutant: the lower part of counter_high is written without its mask and
\* runs into the variant.
middle_unmasked(c) ==
  <<(Version * RandALimit) + c.rand_a_high,
    (c.counter_high \div SixBits) % Byte,
    ((Variant * SixBits) + c.counter_high) % Byte>>

\* Bytes 6 to 8: version and rand_a, then counter_high around the variant.
middle(c) ==
  <<(Version * RandALimit) + c.rand_a_high,
    (c.counter_high \div SixBits) % Byte,
    (Variant * SixBits) + (c.counter_high % SixBits)>>

\* The whole identifier.
Written(c) ==
  write_be48(c.last_timestamp_ms) \o middle(c) \o write_be56(c.counter_low)

-----------------------------------------------------------------------------

\* memcmp(u, v, 16) < 0 on bytes.
BytesPrecede(u, v) ==
  \E i \in 1..16 :
    /\ u[i] < v[i]
    /\ \A j \in 1 .. i-1 : u[j] = v[j]

\* What a reader finds in the bytes: (uuid[6] >> 4) and (uuid[8] >> 6).
version(u) == u[7] \div RandALimit
variant(u) == u[9] \div SixBits

-----------------------------------------------------------------------------

\* One context after another is written, in whatever order they come.
Init == ctx \in Contexts /\ buf = Written(ctx)

Write ==
  \E c \in Contexts :
    /\ ctx' = c
    /\ buf' = Written(c)

Spec == Init /\ [][Write]_<<ctx, buf>>

-----------------------------------------------------------------------------

\* Every byte is a byte, and version and variant are RFC 9562's however full
\* the fields beside them are (tests/test_rfc9562.c:73).
WellFormed ==
  /\ buf \in [1..16 -> 0 .. Byte-1]
  /\ version(buf) = Version
  /\ variant(buf) = Variant

\* memcmp sees in the bytes of any two identifiers the order of their fields:
\* the claim of docs/API.md:9, and what lets the generator's modules compare
\* fields.
BytesInFieldOrder ==
  [][BytesPrecede(buf, buf') <=>
       Precedes(Serialised(ctx), Serialised(ctx'))]_<<ctx, buf>>

=============================================================================
