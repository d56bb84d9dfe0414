--------------------------- MODULE SeedingProofs ---------------------------
(***************************************************************************)
(* Proofs about Seeding, for words of any width: the step of xoshiro256 is *)
(* injective and only zero leads to zero, the seed put together without    *)
(* entropy keeps the low half of the address, and so no two such random    *)
(* states ever meet and none is ever zero.                                 *)
(***************************************************************************)
EXTENDS Seeding, TLAPS

-----------------------------------------------------------------------------
(* Words. *)

\* A bit of an exclusive or.
LEMMA XorBit ==
  ASSUME NEW x, NEW y, NEW i
  PROVE  i \in xor(x, y) <=> ~(i \in x <=> i \in y)
BY DEF xor

LEMMA XorCancel ==
  ASSUME NEW x, NEW y, NEW z, xor(x, y) = xor(x, z)
  PROVE  y = z
<1>1. \A i : i \in y <=> i \in z
  BY XorBit
<1> QED BY <1>1

LEMMA XorCommutes ==
  ASSUME NEW x, NEW y
  PROVE  xor(x, y) = xor(y, x)
BY DEF xor

\* What two exclusive ors have in common cancels.
LEMMA XorShared ==
  ASSUME NEW x, NEW y, NEW z, NEW u, NEW v, NEW w,
         xor(x, y) = xor(u, v), xor(y, z) = xor(v, w)
  PROVE  xor(x, z) = xor(u, w)
<1>1. \A i : i \in xor(x, z) <=> i \in xor(u, w)
  <2> SUFFICES ASSUME NEW i PROVE i \in xor(x, z) <=> i \in xor(u, w)
    OBVIOUS
  <2>1. (i \in x <=> i \in y) <=> (i \in u <=> i \in v)
    BY XorBit
  <2>2. (i \in y <=> i \in z) <=> (i \in v <=> i \in w)
    BY XorBit
  <2> QED BY <2>1, <2>2, XorBit
<1> QED BY <1>1

LEMMA XorWord ==
  ASSUME NEW x \in Word, NEW y \in Word
  PROVE  xor(x, y) \in Word
BY DEF xor, Word

LEMMA ShiftWord ==
  ASSUME NEW x, NEW k
  PROVE  shl(x, k) \in Word /\ shr(x, k) \in Word /\ rotl64(x, k) \in Word
BY DEF shl, shr, rotl64, Word

LEMMA EmptyWord ==
  /\ xor({}, {}) = {}
  /\ \A k : shl({}, k) = {} /\ rotl64({}, k) = {}
BY DEF xor, shl, rotl64

\* A word exclusive-or'ed with a shift of itself gives the word back, from its
\* lowest bits up; four turns of Shift bits are enough for all of them.
LEMMA ShiftInjective ==
  ASSUME NEW x \in Word, NEW y \in Word,
         xor(x, shl(x, Shift)) = xor(y, shl(y, Shift))
  PROVE  x = y
<1>1. \A i \in Positions :
        (i - Shift \in x <=> i - Shift \in y) => (i \in x <=> i \in y)
  <2> SUFFICES ASSUME NEW i \in Positions, i - Shift \in x <=> i - Shift \in y
               PROVE  i \in x <=> i \in y
    OBVIOUS
  <2>1. i \in shl(x, Shift) <=> i \in shl(y, Shift)
    BY DEF shl
  <2>2. i \in xor(x, shl(x, Shift)) <=> ~(i \in x <=> i \in shl(x, Shift))
    BY XorBit
  <2>3. i \in xor(y, shl(y, Shift)) <=> ~(i \in y <=> i \in shl(y, Shift))
    BY XorBit
  <2> QED BY <2>1, <2>2, <2>3
<1>2. \A i \in Positions : i < Shift => (i \in x <=> i \in y)
  BY <1>1, XoshiroAssumption DEF Word, Positions
<1>3. \A i \in Positions : i < 2 * Shift => (i \in x <=> i \in y)
  BY <1>1, <1>2, XoshiroAssumption DEF Positions
<1>4. \A i \in Positions : i < 3 * Shift => (i \in x <=> i \in y)
  BY <1>1, <1>3, XoshiroAssumption DEF Positions
<1>5. \A i \in Positions : i \in x <=> i \in y
  BY <1>1, <1>4, XoshiroAssumption DEF Positions
<1> QED BY <1>5 DEF Word

\* Where the bit i of a word goes, and that it comes from there only.
LEMMA RotatePlace ==
  ASSUME NEW k \in Positions, NEW i \in Positions
  PROVE  \E j \in Positions : (j + Width - k) % Width = i
<1>1. CASE i + k < Width
  <2>1. i + k \in Positions
    BY <1>1, XoshiroAssumption DEF Positions
  <2>2. (i + k + Width - k) % Width = i
    BY <1>1, XoshiroAssumption DEF Positions
  <2> QED BY <2>1, <2>2
<1>2. CASE i + k >= Width
  <2>1. i + k - Width \in Positions
    BY <1>2, XoshiroAssumption DEF Positions
  <2>2. ((i + k - Width) + Width - k) % Width = i
    BY <1>2, XoshiroAssumption DEF Positions
  <2> QED BY <2>1, <2>2
<1> QED BY <1>1, <1>2, XoshiroAssumption DEF Positions

LEMMA RotateInjective ==
  ASSUME NEW x \in Word, NEW y \in Word, NEW k \in Positions,
         rotl64(x, k) = rotl64(y, k)
  PROVE  x = y
<1>1. ASSUME NEW i \in Positions PROVE i \in x <=> i \in y
  <2>1. PICK j \in Positions : (j + Width - k) % Width = i
    BY RotatePlace
  <2>2. j \in rotl64(x, k) <=> i \in x
    BY <2>1 DEF rotl64
  <2>3. j \in rotl64(y, k) <=> i \in y
    BY <2>1 DEF rotl64
  <2> QED BY <2>2, <2>3
<1> QED BY <1>1 DEF Word

-----------------------------------------------------------------------------
(* The step. *)

\* The words after a step, one by one.
LEMMA NextWords ==
  ASSUME NEW s
  PROVE  LET s2 == xor(s[2], s[0])
             s3 == xor(s[3], s[1])
             n == xoshiro256_next(s)
         IN  /\ n[0] = xor(s[0], s3)
             /\ n[1] = xor(s[1], s2)
             /\ n[2] = xor(s2, shl(s[1], Shift))
             /\ n[3] = rotl64(s3, Rotate)
BY DEF xoshiro256_next

LEMMA NextState ==
  ASSUME NEW s \in State
  PROVE  xoshiro256_next(s) \in State
<1>1. s[0] \in Word /\ s[1] \in Word /\ s[2] \in Word /\ s[3] \in Word
  BY DEF State
<1>2. xor(s[2], s[0]) \in Word /\ xor(s[3], s[1]) \in Word
  BY <1>1, XorWord
<1>3. /\ xor(s[0], xor(s[3], s[1])) \in Word
      /\ xor(s[1], xor(s[2], s[0])) \in Word
  BY <1>1, <1>2, XorWord
<1>4. shl(s[1], Shift) \in Word /\ rotl64(xor(s[3], s[1]), Rotate) \in Word
  BY ShiftWord
<1>5. xor(xor(s[2], s[0]), shl(s[1], Shift)) \in Word
  BY <1>2, <1>4, XorWord
<1> QED BY <1>3, <1>4, <1>5 DEF xoshiro256_next, State

LEMMA SameState ==
  ASSUME NEW s \in State, NEW r \in State,
         s[0] = r[0], s[1] = r[1], s[2] = r[2], s[3] = r[3]
  PROVE  s = r
<1>1. \A i \in 0..3 : i = 0 \/ i = 1 \/ i = 2 \/ i = 3
  OBVIOUS
<1>2. \A i \in 0..3 : s[i] = r[i]
  BY <1>1
<1> QED BY <1>2 DEF State

\* No two states of xoshiro256 have the same successor: its period loses no
\* state, and two sequences that differ go on to differ (prng.c:9).
THEOREM StepInjective ==
  ASSUME NEW s \in State, NEW r \in State,
         xoshiro256_next(s) = xoshiro256_next(r)
  PROVE  s = r
<1> DEFINE s2 == xor(s[2], s[0])
           s3 == xor(s[3], s[1])
           r2 == xor(r[2], r[0])
           r3 == xor(r[3], r[1])
<1>0. /\ s[0] \in Word /\ s[1] \in Word /\ s[2] \in Word /\ s[3] \in Word
      /\ r[0] \in Word /\ r[1] \in Word /\ r[2] \in Word /\ r[3] \in Word
  BY DEF State
<1>1. /\ xor(s[0], s3) = xor(r[0], r3)
      /\ xor(s[1], s2) = xor(r[1], r2)
      /\ xor(s2, shl(s[1], Shift)) = xor(r2, shl(r[1], Shift))
      /\ rotl64(s3, Rotate) = rotl64(r3, Rotate)
  BY NextWords
<1>2. s3 = r3
  <2>1. s3 \in Word /\ r3 \in Word
    BY <1>0, XorWord
  <2> HIDE DEF s3, r3
  <2> QED BY <1>1, <2>1, RotateInjective, XoshiroAssumption
<1>3. s[0] = r[0]
  BY <1>1, <1>2, XorCommutes, XorCancel
<1>4. s[1] = r[1]
  <2>1. xor(s[1], shl(s[1], Shift)) = xor(r[1], shl(r[1], Shift))
    <3> HIDE DEF s2, r2
    <3> QED BY <1>1, XorShared
  <2> QED BY <1>0, <2>1, ShiftInjective
<1>5. s[2] = r[2]
  <2>1. s2 = r2
    <3> HIDE DEF s2, r2
    <3> QED BY <1>1, <1>4, XorCancel
  <2> QED BY <2>1, <1>3, XorCommutes, XorCancel
<1>6. s[3] = r[3]
  BY <1>2, <1>4, XorCommutes, XorCancel
<1> QED BY <1>3, <1>4, <1>5, <1>6, SameState

LEMMA ZeroState == Zero \in State
BY DEF Zero, State, Word

\* Zero is a fixed point, and nothing else leads there.
LEMMA OnlyZeroToZero ==
  ASSUME NEW s \in State, xoshiro256_next(s) = Zero
  PROVE  s = Zero
<1>1. xoshiro256_next(Zero) \in State
  BY ZeroState, NextState
<1>2. xoshiro256_next(Zero) = Zero
  <2>1. Zero[0] = {} /\ Zero[1] = {} /\ Zero[2] = {} /\ Zero[3] = {}
    BY DEF Zero
  <2>2. LET n == xoshiro256_next(Zero)
        IN  n[0] = {} /\ n[1] = {} /\ n[2] = {} /\ n[3] = {}
    BY <2>1, NextWords, EmptyWord
  <2> QED BY <1>1, <2>1, <2>2, ZeroState, SameState
<1> QED BY <1>2, ZeroState, StepInjective

-----------------------------------------------------------------------------
(* The seed put together without entropy. *)

Fallbacks(p) ==
  {fallback(t, c, p, sp) : t \in Times, c \in Stamps, sp \in Stacks}

LEMMA FallbackWords ==
  ASSUME NEW t, NEW c, NEW p, NEW sp
  PROVE  LET f == fallback(t, c, p, sp)
         IN  /\ f[0] = xor(xor(t, c), shl(p, Half))
             /\ f[1] = xor(t, Golden)
             /\ f[2] = xor(sp, shl(c, Shift))
             /\ f[3] = xor(t, shr(c, Drop))
BY DEF fallback

\* It is a state, and never zero: a time is not the constant.
LEMMA FallbackState ==
  ASSUME NEW p \in Places, NEW f \in Fallbacks(p)
  PROVE  f \in State /\ f # Zero
<1>1. PICK t \in Times, c \in Stamps, sp \in Stacks : f = fallback(t, c, p, sp)
  BY DEF Fallbacks
<1>2. /\ t \in Word /\ c \in Word /\ sp \in Word /\ Golden \in Word
      /\ shl(p, Half) \in Word /\ shl(c, Shift) \in Word /\ shr(c, Drop) \in Word
  BY ShiftWord, XoshiroAssumption, SeedingAssumption
<1>3. /\ xor(t, c) \in Word /\ xor(t, Golden) \in Word
      /\ xor(sp, shl(c, Shift)) \in Word /\ xor(t, shr(c, Drop)) \in Word
  BY <1>2, XorWord
<1>4. xor(xor(t, c), shl(p, Half)) \in Word
  BY <1>2, <1>3, XorWord
<1>5. f \in State
  BY <1>1, <1>3, <1>4 DEF fallback, State
<1>6. f[1] # {}
  <2>1. t # Golden
    BY TimesAssumption
  <2>2. f[1] = xor(t, Golden)
    BY <1>1, FallbackWords
  <2>3. PICK i : ~(i \in t <=> i \in Golden)
    BY <2>1, <1>2 DEF Word
  <2> QED BY <2>2, <2>3, XorBit
<1> QED BY <1>5, <1>6 DEF Zero

\* The seed determines the low half of the address: the second word gives the
\* time back, the fourth all but the lowest bits of the counter, the first
\* those bits, and then the address (prng.c:82).
THEOREM SeedKeepsAddress ==
  ASSUME NEW t \in Times, NEW c \in Stamps, NEW p \in Places, NEW sp \in Stacks,
         NEW u \in Times, NEW d \in Stamps, NEW q \in Places, NEW sq \in Stacks,
         fallback(t, c, p, sp) = fallback(u, d, q, sq)
  PROVE  shl(p, Half) = shl(q, Half)
<1>1. /\ xor(xor(t, c), shl(p, Half)) = xor(xor(u, d), shl(q, Half))
      /\ xor(t, Golden) = xor(u, Golden)
      /\ xor(t, shr(c, Drop)) = xor(u, shr(d, Drop))
  BY FallbackWords
<1>2. t = u
  BY <1>1, XorCommutes, XorCancel
<1>3. shr(c, Drop) = shr(d, Drop)
  BY <1>1, <1>2, XorCancel
<1>4. ASSUME NEW i \in Positions PROVE i \in c <=> i \in d
  <2>1. CASE i < Half
    <3>1. i \notin shl(p, Half) /\ i \notin shl(q, Half)
      BY <2>1, XoshiroAssumption, SeedingAssumption DEF shl, Word, Positions
    <3>2. ASSUME NEW a, NEW b, i \notin b PROVE i \in xor(a, b) <=> i \in a
      BY <3>2, XorBit
    <3>3. i \in xor(t, c) <=> i \in xor(u, d)
      BY <3>1, <3>2, <1>1
    <3>4. (i \in xor(t, c) <=> ~(i \in t <=> i \in c))
            /\ (i \in xor(u, d) <=> ~(i \in u <=> i \in d))
      BY XorBit
    <3> QED BY <3>3, <3>4, <1>2
  <2>2. CASE i >= Half
    <3>1. i - Drop \in Positions
      BY <2>2, XoshiroAssumption DEF Positions
    <3>2. (i - Drop) + Drop = i
      BY XoshiroAssumption DEF Positions
    <3>3. /\ i - Drop \in shr(c, Drop) <=> i \in c
          /\ i - Drop \in shr(d, Drop) <=> i \in d
      BY <3>1, <3>2 DEF shr
    <3> QED BY <3>3, <1>3
  <2> QED BY <2>1, <2>2, XoshiroAssumption DEF Positions
<1>5. c = d
  BY <1>4, SeedingAssumption DEF Word
<1> QED BY <1>1, <1>2, <1>5, XorCancel

-----------------------------------------------------------------------------
(* The contexts. *)

\* What a context was seeded with, and that every state follows from the last.
Chain ==
  \A p \in Places :
    /\ past[p] # <<>> /\ ~entropy[p] => past[p][1] \in Fallbacks(p)
    /\ \A i \in 1 .. Len(past[p]) - 1 : past[p][i+1] = xoshiro256_next(past[p][i])

IInv == TypeOK /\ Chain /\ ZeroOnlyFromEntropy /\ NoTwins

LEMMA SeedInit == Init => IInv
<1> SUFFICES ASSUME Init PROVE IInv
  OBVIOUS
<1>1. TypeOK
  BY DEF Init, TypeOK
<1>2. \A p \in Places : past[p] = <<>> /\ Len(past[p]) = 0
  BY DEF Init
<1>3. Chain /\ ZeroOnlyFromEntropy /\ NoTwins
  BY <1>2 DEF Chain, ZeroOnlyFromEntropy, NoTwins
<1> QED BY <1>1, <1>3 DEF IInv

\* A context is seeded, with entropy or without.
LEMMA SeedSeeds ==
  ASSUME IInv, NEW p \in Places, prng_seed(p)
  PROVE  IInv'
<1>1. PICK f : /\ past' = [past EXCEPT ![p] = <<f>>]
               /\ \/ f \in Entropy /\ entropy' = [entropy EXCEPT ![p] = TRUE]
                  \/ f \in Fallbacks(p) /\ entropy' = [entropy EXCEPT ![p] = FALSE]
  BY DEF prng_seed, Fallbacks
<1>2. f \in State
  BY <1>1, FallbackState, SeedingAssumption
<1>3. TypeOK'
  <2>1. <<f>> \in Seq(State)
    BY <1>2
  <2>2. past' \in [Places -> Seq(State)]
    BY <1>1, <2>1 DEF IInv, TypeOK
  <2>3. entropy' \in [Places -> BOOLEAN]
    BY <1>1 DEF IInv, TypeOK
  <2> QED BY <2>2, <2>3 DEF TypeOK
<1>4. /\ past'[p] = <<f>> /\ Len(past'[p]) = 1 /\ past'[p][1] = f
      /\ \A q \in Places : q # p => past'[q] = past[q] /\ entropy'[q] = entropy[q]
  BY <1>1 DEF IInv, TypeOK
<1>5. ~entropy'[p] => f \in Fallbacks(p)
  BY <1>1 DEF IInv, TypeOK
<1>6. Chain'
  BY <1>4, <1>5 DEF IInv, Chain
<1>7. ZeroOnlyFromEntropy'
  <2>1. f = Zero => entropy'[p]
    BY <1>5, FallbackState
  <2> QED BY <2>1, <1>4 DEF IInv, ZeroOnlyFromEntropy
<1>8. NoTwins'
  <2>1. ASSUME NEW q \in Places, shl(p, Half) # shl(q, Half),
               ~entropy'[p], ~entropy'[q], Len(past'[q]) >= 1
        PROVE  past'[q][1] # f
    <3>1. past'[q][1] \in Fallbacks(q)
      BY <2>1, <1>4 DEF IInv, TypeOK, Chain
    <3> QED BY <2>1, <3>1, <1>5, SeedKeepsAddress DEF Fallbacks
  <2> SUFFICES ASSUME NEW a \in Places, NEW b \in Places,
                      shl(a, Half) # shl(b, Half), ~entropy'[a], ~entropy'[b],
                      NEW i \in 1 .. Len(past'[a]), i <= Len(past'[b])
               PROVE  past'[a][i] # past'[b][i]
    BY DEF NoTwins
  <2>2. CASE a = p
    BY <2>1, <2>2, <1>4 DEF IInv, TypeOK
  <2>3. CASE b = p
    BY <2>1, <2>3, <1>4 DEF IInv, TypeOK
  <2>4. CASE a # p /\ b # p
    BY <2>4, <1>4 DEF IInv, NoTwins
  <2> QED BY <2>2, <2>3, <2>4
<1> QED BY <1>3, <1>6, <1>7, <1>8 DEF IInv

\* A step of the four words, in the warm-up or for a draw.
LEMMA SeedSteps ==
  ASSUME IInv, NEW p \in Places, Len(past[p]) >= 1, Step(p)
  PROVE  IInv'
<1> DEFINE n == Len(past[p])
           f == xoshiro256_next(past[p][n])
<1>1. n \in Nat /\ n >= 1 /\ past[p] \in Seq(State)
  BY DEF IInv, TypeOK
<1>2. past[p][n] \in State
  BY <1>1
<1>3. f \in State
  BY <1>2, NextState
<1>4. /\ past' = [past EXCEPT ![p] = Append(past[p], f)] /\ entropy' = entropy
  BY DEF Step, IInv, TypeOK
<1>5. TypeOK'
  <2> HIDE DEF f
  <2> QED BY <1>3, <1>4 DEF IInv, TypeOK
<1>6. /\ Len(past'[p]) = n + 1 /\ past'[p][n+1] = f
      /\ \A i \in 1 .. n : past'[p][i] = past[p][i]
      /\ \A q \in Places : q # p => past'[q] = past[q]
  <2>1. past'[p] = Append(past[p], f) /\ \A q \in Places : q # p => past'[q] = past[q]
    BY <1>4 DEF IInv, TypeOK
  <2> HIDE DEF f
  <2> QED BY <2>1, <1>1, <1>3
<1> HIDE DEF f, n
<1>7. Chain'
  <2>1. \A i \in 1 .. n - 1 : past[p][i+1] = xoshiro256_next(past[p][i])
    BY DEF IInv, Chain, n
  <2>2. \A i \in 1 .. n : past'[p][i+1] = xoshiro256_next(past'[p][i])
    <3> SUFFICES ASSUME NEW i \in 1 .. n
                 PROVE  past'[p][i+1] = xoshiro256_next(past'[p][i])
      OBVIOUS
    <3>1. past'[p][i] = past[p][i]
      BY <1>6
    <3>2. CASE i = n
      BY <3>1, <3>2, <1>6 DEF f
    <3>3. CASE i # n
      <4>1. i \in 1 .. n - 1 /\ i + 1 \in 1 .. n
        BY <3>3, <1>1
      <4> QED BY <4>1, <3>1, <2>1, <1>6
    <3> QED BY <3>2, <3>3
  <2>3. ~entropy'[p] => past'[p][1] \in Fallbacks(p)
    BY <1>1, <1>4, <1>6 DEF IInv, Chain, n
  <2> QED BY <2>2, <2>3, <1>1, <1>4, <1>6 DEF IInv, Chain
<1>8. ZeroOnlyFromEntropy'
  <2>1. f = Zero => entropy[p] /\ past[p][1] = Zero
    BY <1>1, <1>2, OnlyZeroToZero DEF IInv, ZeroOnlyFromEntropy, f, n
  <2>2. \A i \in 1 .. n : past[p][i] = Zero => entropy[p] /\ past[p][1] = Zero
    BY DEF IInv, ZeroOnlyFromEntropy, n
  <2>3. \A i \in 1 .. n + 1 : past'[p][i] = Zero => entropy'[p] /\ past'[p][1] = Zero
    BY <2>1, <2>2, <1>1, <1>4, <1>6
  <2> QED BY <2>3, <1>4, <1>6 DEF IInv, ZeroOnlyFromEntropy
<1>9. NoTwins'
  <2>1. ASSUME NEW q \in Places, shl(p, Half) # shl(q, Half),
               ~entropy[p], ~entropy[q], NEW i \in 1 .. n + 1, i <= Len(past[q])
        PROVE  past'[p][i] # past[q][i]
    <3>1. CASE i <= n
      BY <2>1, <3>1, <1>1, <1>6 DEF IInv, NoTwins, n
    <3>2. CASE i = n + 1
      <4>1. past[q] \in Seq(State) /\ n + 1 <= Len(past[q]) /\ Len(past[q]) \in Nat
        BY <2>1, <3>2 DEF IInv, TypeOK
      <4>2. past[q][n] \in State /\ past[q][n+1] = xoshiro256_next(past[q][n])
        BY <1>1, <4>1 DEF IInv, Chain
      <4>3. past[p][n] # past[q][n]
        BY <2>1, <1>1, <4>1 DEF IInv, NoTwins, n
      <4> QED BY <3>2, <4>2, <4>3, <1>2, <1>6, StepInjective DEF f
    <3> QED BY <3>1, <3>2, <1>1
  <2> SUFFICES ASSUME NEW a \in Places, NEW b \in Places,
                      shl(a, Half) # shl(b, Half), ~entropy'[a], ~entropy'[b],
                      NEW i \in 1 .. Len(past'[a]), i <= Len(past'[b])
               PROVE  past'[a][i] # past'[b][i]
    BY DEF NoTwins
  <2>2. CASE a = p
    BY <2>1, <2>2, <1>4, <1>6
  <2>3. CASE b = p
    <3>1. i \in 1 .. n + 1 /\ a # p /\ i <= Len(past[a])
      BY <2>3, <1>1, <1>5, <1>6 DEF TypeOK
    <3> QED BY <2>1, <2>3, <3>1, <1>4, <1>6
  <2>4. CASE a # p /\ b # p
    BY <2>4, <1>4, <1>6 DEF IInv, NoTwins
  <2> QED BY <2>2, <2>3, <2>4
<1> QED BY <1>5, <1>7, <1>8, <1>9 DEF IInv

LEMMA SeedDestroyed ==
  ASSUME IInv, NEW p \in Places, Destroy(p)
  PROVE  IInv'
<1>1. /\ past' = [past EXCEPT ![p] = <<>>] /\ entropy' = entropy
  BY DEF Destroy
<1>2. TypeOK'
  BY <1>1 DEF IInv, TypeOK
<1>3. /\ past'[p] = <<>> /\ Len(past'[p]) = 0
      /\ \A q \in Places : q # p => past'[q] = past[q]
  BY <1>1 DEF IInv, TypeOK
<1>4. Chain'
  BY <1>1, <1>3 DEF IInv, Chain
<1>5. ZeroOnlyFromEntropy'
  BY <1>1, <1>3 DEF IInv, ZeroOnlyFromEntropy
<1>6. NoTwins'
  <2> SUFFICES ASSUME NEW a \in Places, NEW b \in Places,
                      shl(a, Half) # shl(b, Half), ~entropy'[a], ~entropy'[b],
                      NEW i \in 1 .. Len(past'[a]), i <= Len(past'[b])
               PROVE  past'[a][i] # past'[b][i]
    BY DEF NoTwins
  <2>1. a # p /\ b # p
    BY <1>3
  <2> QED BY <2>1, <1>1, <1>3 DEF IInv, NoTwins
<1> QED BY <1>2, <1>4, <1>5, <1>6 DEF IInv

THEOREM SeedInvariance == Spec => []IInv
<1>1. IInv /\ [Next]_vars => IInv'
  <2> SUFFICES ASSUME IInv, [Next]_vars PROVE IInv'
    OBVIOUS
  <2>1. ASSUME NEW p \in Places, prng_seed(p) PROVE IInv'
    BY <2>1, SeedSeeds
  <2>2. ASSUME NEW p \in Places, Warm(p) PROVE IInv'
    <3>1. Len(past[p]) >= 1 /\ Step(p)
      BY <2>2, SeedingAssumption DEF Warm, IInv, TypeOK
    <3> QED BY <3>1, SeedSteps
  <2>3. ASSUME NEW p \in Places, Draw(p) PROVE IInv'
    <3>1. Len(past[p]) >= 1 /\ Step(p)
      BY <2>3, SeedingAssumption DEF Draw, IInv, TypeOK
    <3> QED BY <3>1, SeedSteps
  <2>4. ASSUME NEW p \in Places, Destroy(p) PROVE IInv'
    BY <2>4, SeedDestroyed
  <2>5. CASE UNCHANGED vars
    BY <2>5 DEF vars, IInv, TypeOK, Chain, ZeroOnlyFromEntropy, NoTwins
  <2> QED BY <2>1, <2>2, <2>3, <2>4, <2>5 DEF Next
<1> QED BY SeedInit, <1>1, PTL DEF Spec

\* The words of a random state keep their width.
THEOREM SeedingTypeCorrect == Spec => []TypeOK
<1>1. IInv => TypeOK
  BY DEF IInv
<1> QED BY SeedInvariance, <1>1, PTL

\* However often it is drawn from, a random state that is not seeded with four
\* zero words by the system never becomes zero (prng.c:87).
THEOREM NeverZero == Spec => []ZeroOnlyFromEntropy
<1>1. IInv => ZeroOnlyFromEntropy
  BY DEF IInv
<1> QED BY SeedInvariance, <1>1, PTL

\* Without entropy two contexts never draw from the same state after equally
\* many steps, wherever they lie less than 4 GiB apart (prng.c:79).
THEOREM NoTwinsEver == Spec => []NoTwins
<1>1. IInv => NoTwins
  BY DEF IInv
<1> QED BY SeedInvariance, <1>1, PTL

=============================================================================
