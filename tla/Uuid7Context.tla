---------------------------- MODULE Uuid7Context ----------------------------
(***************************************************************************)
(* The data of one generator: the fields of uuid7_ctx that decide the next *)
(* identifier (include/uuid7.h), the operations of src/uuid7.c on them and *)
(* the order memcmp puts on what is written out.                           *)
(*                                                                         *)
(* Widths are parameters: the 4-bit nibble rand_a_high has RandALimit      *)
(* values, the 14-bit counter_high HighLimit, the 56-bit counter_low       *)
(* LowLimit, the 48-bit timestamp field TsLimit.                           *)
(***************************************************************************)
EXTENDS Integers

CONSTANTS
  Threshold,   \* UUID7_CLOCK_BACKWARD_THRESHOLD_MS
  RandALimit,  \* 2^4
  HighLimit,   \* 2^14 = 0x4000
  LowLimit,    \* 2^56
  TsLimit      \* 2^48

ASSUME ContextAssumption ==
  /\ Threshold \in Nat
  /\ RandALimit \in Nat \ {0}
  /\ HighLimit \in Nat \ {0}
  /\ LowLimit \in Nat \ {0}
  /\ TsLimit \in Nat \ {0}

\* uuid7_ctx without the generator's random state.  counter_high is stored in
\* 16 bits: it takes the value 0x4000 while the counter is being replaced.
Context ==
  [last_timestamp_ms : Nat,
   rand_a_high       : 0 .. RandALimit-1,
   counter_high      : 0 .. HighLimit,
   counter_low       : 0 .. LowLimit-1]

\* What prng_fill leaves in the three random fields: any value they can hold.
Draw ==
  [rand_a_high  : 0 .. RandALimit-1,
   counter_high : 0 .. HighLimit-1,
   counter_low  : 0 .. LowLimit-1]

\* The four fields of the written identifier.
Identifier ==
  [unix_ts_ms : 0 .. TsLimit-1,
   rand_a     : 0 .. RandALimit-1,
   rand_high  : 0 .. HighLimit-1,
   rand_low   : 0 .. LowLimit-1]

-----------------------------------------------------------------------------

\* A context moved to timestamp t with the fields drawn in d.
Reseeded(t, d) ==
  [last_timestamp_ms |-> t,
   rand_a_high       |-> d.rand_a_high,
   counter_high      |-> d.counter_high,
   counter_low       |-> d.counter_low]

\* How far the reading is ahead of the context: a signed difference.  It is
\* the mathematical one for every pair of readings below 2^63.
Delta(c, now) == now - c.last_timestamp_ms

\* The reading opens a new millisecond.
IsNewMillisecond(c, now) == Delta(c, now) > 0

\* Mutant: regressions of any size are tolerated.
IsSameOrAnyRegress(c, now) == Delta(c, now) <= 0

\* Mutant: a regression of exactly the threshold is no longer tolerated.
IsSameOrSmallerRegress(c, now) ==
  Delta(c, now) <= 0 /\ -Delta(c, now) < Threshold

\* The reading is in the context's millisecond or slightly behind it.
IsSameOrSmallRegress(c, now) ==
  \/ Delta(c, now) = 0
  \/ Delta(c, now) < 0 /\ -Delta(c, now) <= Threshold

\* The reading is behind by more than the tolerated regression.
IsLargeRegress(c, now) ==
  ~IsNewMillisecond(c, now) /\ ~IsSameOrSmallRegress(c, now)

\* Mutant: the sum is not masked, so it leaves the 56 bits and never wraps.
BumpedWithoutMask(c) == [c EXCEPT !.counter_low = @ + 1]

\* Mutant: the wrap of counter_low is not carried.
BumpedWithoutCarry(c) ==
  [c EXCEPT !.counter_low = (@ + 1) % LowLimit]

\* The 70-bit counter plus one: counter_low is masked to its width and its
\* wrap carries into counter_high.
Bumped(c) ==
  LET low == (c.counter_low + 1) % LowLimit
  IN  [c EXCEPT !.counter_low  = low,
                !.counter_high = IF low = 0 THEN @ + 1 ELSE @]

\* The carry has left the 14 bits of counter_high.
IsExhausted(c) == c.counter_low = 0 /\ c.counter_high = HighLimit

\* What the sixteen bytes keep of a context: the low 48 bits of the timestamp
\* and the low 14 bits of counter_high.
Serialised(c) ==
  [unix_ts_ms |-> c.last_timestamp_ms % TsLimit,
   rand_a     |-> c.rand_a_high,
   rand_high  |-> c.counter_high % HighLimit,
   rand_low   |-> c.counter_low]

-----------------------------------------------------------------------------

\* memcmp(u, v, 16) < 0.  The fields are written most significant first and
\* version and variant are constant, so bytes compare as the fields do in turn.
Precedes(u, v) ==
  \/ u.unix_ts_ms < v.unix_ts_ms
  \/ /\ u.unix_ts_ms = v.unix_ts_ms
     /\ \/ u.rand_a < v.rand_a
        \/ /\ u.rand_a = v.rand_a
           /\ \/ u.rand_high < v.rand_high
              \/ /\ u.rand_high = v.rand_high
                 /\ u.rand_low < v.rand_low

=============================================================================
