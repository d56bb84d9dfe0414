------------------------------ MODULE Xoshiro ------------------------------
(***************************************************************************)
(* The arithmetic of src/prng.c: the step of xoshiro256 on its four words, *)
(* and the seed that is put together when the system has no entropy.       *)
(*                                                                         *)
(* A word is the set of the positions of its ones, 0 being the lowest bit. *)
(* What a step returns (a product of s[1]) is left out: it changes nothing.*)
(***************************************************************************)
EXTENDS Integers

CONSTANTS
  Width,   \* 64
  Half,    \* 32, by which the address is shifted
  Shift,   \* 17
  Rotate,  \* 45
  Drop,    \* 7, by which the time stamp counter is shifted down
  Golden   \* the word 0x9E3779B97F4A7C15

Positions == 0 .. Width-1

Word == SUBSET Positions

\* The four words of uuid7_prng.
State == [0..3 -> Word]

Zero == [i \in 0..3 |-> {}]

ASSUME XoshiroAssumption ==
  /\ Width \in Nat \ {0}
  /\ Half \in Positions /\ Shift \in Positions /\ Rotate \in Positions
  /\ Drop \in 0..Half
  /\ 0 < Shift /\ Width <= 4 * Shift
  /\ Golden \in Word

-----------------------------------------------------------------------------

xor(x, y) == (x \ y) \cup (y \ x)

\* x << k
shl(x, k) == {i \in Positions : i - k \in x}

\* x >> k
shr(x, k) == {i \in Positions : i + k \in x}

\* Mutant: the ones that leave at the top stay above it, too.
rotl64_widened(x, k) == {i + k : i \in x} \cup shr(x, Width - k)

\* The ones that leave at the top come in at the bottom.
rotl64(x, k) == {i \in Positions : (i + Width - k) % Width \in x}

\* Mutant: the rotation is a shift.
xoshiro256_next_shifting(s) ==
  LET s2 == xor(s[2], s[0])
      s3 == xor(s[3], s[1])
  IN  [i \in 0..3 |->
         IF i = 0 THEN xor(s[0], s3)
         ELSE IF i = 1 THEN xor(s[1], s2)
         ELSE IF i = 2 THEN xor(s2, shl(s[1], Shift)) ELSE shl(s3, Rotate)]

\* One step of the four words.
xoshiro256_next(s) ==
  LET s2 == xor(s[2], s[0])
      s3 == xor(s[3], s[1])
  IN  [i \in 0..3 |->
         IF i = 0 THEN xor(s[0], s3)
         ELSE IF i = 1 THEN xor(s[1], s2)
         ELSE IF i = 2 THEN xor(s2, shl(s[1], Shift)) ELSE rotl64(s3, Rotate)]

\* Mutant: the address of the context does not go into the seed.
fallback_everywhere(t, c, prng, sp) ==
  [i \in 0..3 |->
     IF i = 0 THEN xor(t, c)
     ELSE IF i = 1 THEN xor(t, Golden)
     ELSE IF i = 2 THEN xor(sp, shl(c, Shift)) ELSE xor(t, shr(c, Drop))]

\* The seed made of the time t, the time stamp counter c, the address of the
\* random state and that of a variable on the stack.
fallback(t, c, prng, sp) ==
  [i \in 0..3 |->
     IF i = 0 THEN xor(xor(t, c), shl(prng, Half))
     ELSE IF i = 1 THEN xor(t, Golden)
     ELSE IF i = 2 THEN xor(sp, shl(c, Shift)) ELSE xor(t, shr(c, Drop))]

=============================================================================
