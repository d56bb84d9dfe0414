------------------------------ MODULE TextForm ------------------------------
(***************************************************************************)
(* The text of an identifier, as the bindings write it: two hexadecimal    *)
(* digits per byte, with hyphens after bytes 4, 6, 8 and 10.  JavaScript   *)
(* and Python cut a string of 32 digits into pieces, Go and Rust put the   *)
(* hyphens in as they go.                                                  *)
(*                                                                         *)
(* A character is the number that decides how it sorts: a digit its value, *)
(* for '0' to '9' sort below 'a' to 'f', and the hyphen one below '0'.     *)
(***************************************************************************)
EXTENDS UuidLayout, SequencesExt

CONSTANT Nibble  \* 16, the values of half a byte and of a digit

ASSUME NibbleAssumption ==
  Nibble \in Nat \ {0, 1} /\ Byte <= Nibble * Nibble

Hyphen == -1

-----------------------------------------------------------------------------

\* b.toString(16): no more digits than the number needs.
toString(b) == IF b < Nibble THEN <<b>> ELSE <<b \div Nibble, b % Nibble>>

\* Mutant: the digits of a small byte are left as they are.
padStart_omitted(s) == s

\* s.padStart(2, '0')
padStart(s) == IF Len(s) < 2 THEN <<0>> \o s ELSE s

\* generateHex(): Array.from(bytes).map(...).join('')
generateHex(u) == FlattenSeq([i \in 1..16 |-> padStart(toString(u[i]))])

\* Mutant: the end of a slice taken for its last index.
cut_inclusive(h, from, to) ==
  SubSeq(h, from + 1, IF to < Len(h) THEN to + 1 ELSE Len(h))

\* h.slice(from, to) and h[from:to]: from is the first index, to one past the
\* last, and a string that ends before it is no error.
cut(h, from, to) ==
  SubSeq(h, from + 1, IF to < Len(h) THEN to ELSE Len(h))

\* generateString(): 8, 4, 4, 4 and 12 digits.
generateString(u) ==
  LET h == generateHex(u)
  IN  cut(h, 0, 8) \o <<Hyphen>> \o cut(h, 8, 12) \o <<Hyphen>> \o cut(h, 12, 16)
        \o <<Hyphen>> \o cut(h, 16, 20) \o <<Hyphen>> \o cut(h, 20, 32)

\* UUIDToString(uuid): the bytes in turn, some with a hyphen before them.
UUIDToString(u) ==
  FlattenSeq([i \in 1..16 |->
    (IF i - 1 \in {4, 6, 8, 10} THEN <<Hyphen>> ELSE <<>>)
      \o <<u[i] \div Nibble, u[i] % Nibble>>])

-----------------------------------------------------------------------------

\* s < t as JavaScript, Python, Go and Rust compare strings: at the first
\* character in which they differ, or by length.
TextPrecedes(s, t) ==
  \/ \E i \in 1 .. Len(s) :
       /\ i <= Len(t) /\ s[i] < t[i]
       /\ SubSeq(s, 1, i-1) = SubSeq(t, 1, i-1)
  \/ Len(s) < Len(t) /\ s = SubSeq(t, 1, Len(s))

\* Both ways of placing the hyphens give the same 36 characters, the pieces
\* having 8, 4, 4, 4 and 12 digits (bindings/rust/src/lib.rs:119).
RenderingsAgree ==
  /\ generateString(buf) = UUIDToString(buf)
  /\ {i \in DOMAIN UUIDToString(buf) : UUIDToString(buf)[i] = Hyphen}
       = {9, 14, 19, 24}

\* Sorting the text sorts the identifiers (bindings/wasm/test.js:18 compares
\* strings): the digits keep the order of the bytes and the hyphens, always in
\* the same places, do not disturb it.
TextInByteOrder ==
  [][TextPrecedes(generateString(buf), generateString(buf'))
       <=> BytesPrecede(buf, buf')]_<<ctx, buf>>

=============================================================================
