------------------------------ MODULE Seeding ------------------------------
(***************************************************************************)
(* The random states of the contexts of a process: seeded when a context   *)
(* is initialised, stepped by every draw, gone with the context            *)
(* (src/prng.c).  get_entropy may fail in any call; then the seed is made  *)
(* of the time, the time stamp counter and two addresses.                  *)
(*                                                                         *)
(* Nothing is assumed of how time and counter move: a seed takes any of    *)
(* their values, so that they may stand still, as a counter does that the  *)
(* processor does not have, or be set back.                                *)
(***************************************************************************)
EXTENDS Xoshiro, Sequences

CONSTANTS
  Places,    \* where the random states of contexts can lie
  Times,     \* the times os_time_ms() returns
  Stamps,    \* the values rdtsc() returns
  Stacks,    \* the addresses of the variable on the stack
  Entropy,   \* the seeds the system may supply
  Warmup,    \* 8, the steps of prng_seed
  MaxDraws   \* bound: the steps drawn from one seed

ASSUME SeedingAssumption ==
  /\ Places \subseteq Word /\ Stamps \subseteq Word /\ Stacks \subseteq Word
  /\ Times \subseteq Word /\ Entropy \subseteq State
  /\ Warmup \in Nat /\ MaxDraws \in Nat

\* A time has 48 bits, the constant has more.
ASSUME TimesAssumption == Golden \notin Times

VARIABLES
  past,     \* prng->s of each context since it was seeded, as it is now last;
            \* nothing without a context
  entropy   \* history: the seed came from the system

vars == <<past, entropy>>

TypeOK ==
  /\ past \in [Places -> Seq(State)]
  /\ entropy \in [Places -> BOOLEAN]

-----------------------------------------------------------------------------

Init ==
  /\ past = [p \in Places |-> <<>>]
  /\ entropy = [p \in Places |-> FALSE]

\* prng_seed with entropy, or with get_entropy failing, up to its loop.
prng_seed(p) ==
  /\ past[p] = <<>>
  /\ \/ /\ \E seed \in Entropy : past' = [past EXCEPT ![p] = <<seed>>]
        /\ entropy' = [entropy EXCEPT ![p] = TRUE]
     \/ /\ \E t \in Times, c \in Stamps, sp \in Stacks :
             past' = [past EXCEPT ![p] = <<fallback(t, c, p, sp)>>]
        /\ entropy' = [entropy EXCEPT ![p] = FALSE]

Step(p) ==
  /\ past' = [past EXCEPT ![p] = Append(@, xoshiro256_next(@[Len(@)]))]
  /\ UNCHANGED entropy

\* One turn of the loop at the end of prng_seed.
Warm(p) == Len(past[p]) \in 1 .. Warmup /\ Step(p)

\* prng_fill takes a word.
Draw(p) == Len(past[p]) \in Warmup+1 .. Warmup+MaxDraws /\ Step(p)

\* The context is destroyed; its memory may become another's.
Destroy(p) ==
  /\ Len(past[p]) > Warmup
  /\ past' = [past EXCEPT ![p] = <<>>]
  /\ UNCHANGED entropy

Next == \E p \in Places : prng_seed(p) \/ Warm(p) \/ Draw(p) \/ Destroy(p)

Spec == Init /\ [][Next]_vars

-----------------------------------------------------------------------------

\* The state never runs into the fixed point in which every draw is 0, unless
\* the system's entropy is four zero words: the seed that is put together is
\* never zero and no step leads from another state to zero (prng.c:87).
ZeroOnlyFromEntropy ==
  \A p \in Places : \A i \in 1 .. Len(past[p]) :
    past[p][i] = Zero => entropy[p] /\ past[p][1] = Zero

\* Two contexts that exist side by side, with seeds put together without
\* entropy, are in different random states after equally many steps, even if
\* they were seeded at the same time and without a time stamp counter, unless
\* they lie a multiple of 4 GiB apart, so that the shift takes away what tells
\* their addresses apart (prng.c:79).
NoTwins ==
  \A p, q \in Places :
    shl(p, Half) # shl(q, Half) /\ ~entropy[p] /\ ~entropy[q] =>
      \A i \in 1 .. Len(past[p]) : i <= Len(past[q]) => past[p][i] # past[q][i]

=============================================================================
