------------------------- MODULE Uuid7ContextProofs -------------------------
(***************************************************************************)
(* Lemmas about the operators the generator is built from, for the proofs  *)
(* about one caller and about several.                                     *)
(***************************************************************************)
EXTENDS Clock, Uuid7Context, TLAPS

\* The clock never steps back and is always read the same way.
Steady == MaxLag = 0 /\ \E s \in {"ms", "s"} : Sources = {s}

\* Cutting the milliseconds off a time goes back less than a second.
LEMMA FloorBounds ==
  ASSUME NEW t \in Nat
  PROVE  /\ FloorToSecond(t) \in Nat
         /\ FloorToSecond(t) <= t
         /\ t - FloorToSecond(t) < SecondMs
  BY ClockAssumption DEF FloorToSecond

\* A reading of the clock is a time at most a second before it.
LEMMA ReadingBounds ==
  ASSUME NEW t \in Nat, NEW r \in os_time_ms(t)
  PROVE  r \in Nat /\ r <= t /\ t - r < SecondMs
  BY FloorBounds, ClockAssumption DEF os_time_ms

\* Drawing the fields anew leaves a context with no carry in counter_high.
LEMMA ReseededType ==
  ASSUME NEW t \in Nat, NEW d \in Draw
  PROVE  /\ Reseeded(t, d) \in Context
         /\ Reseeded(t, d).last_timestamp_ms = t
         /\ Reseeded(t, d).counter_high < HighLimit
  BY ContextAssumption DEF Reseeded, Draw, Context

\* Counting keeps the timestamp and rand_a, and leaves a context that is either
\* exhausted or has no carry in counter_high.
LEMMA BumpedType ==
  ASSUME NEW c \in Context, c.counter_high < HighLimit
  PROVE  /\ Bumped(c) \in Context
         /\ Bumped(c).last_timestamp_ms = c.last_timestamp_ms
         /\ Bumped(c).rand_a_high = c.rand_a_high
         /\ ~IsExhausted(Bumped(c)) => Bumped(c).counter_high < HighLimit
<1> DEFINE low  == (c.counter_low + 1) % LowLimit
           high == IF low = 0 THEN c.counter_high + 1 ELSE c.counter_high
<1>1. low \in 0 .. LowLimit-1 /\ high \in 0 .. HighLimit
  BY ContextAssumption DEF Context
<1>2. Bumped(c) = [c EXCEPT !.counter_low = low, !.counter_high = high]
  BY Zenon DEF Bumped
<1>3. low # 0 => high < HighLimit
  OBVIOUS
<1> HIDE DEF low, high
<1>4. Bumped(c) \in Context
  BY <1>1, <1>2 DEF Context
<1>5. /\ Bumped(c).last_timestamp_ms = c.last_timestamp_ms
      /\ Bumped(c).rand_a_high = c.rand_a_high
      /\ Bumped(c).counter_low = low
      /\ Bumped(c).counter_high = high
  BY <1>2 DEF Context
<1> QED
  BY <1>1, <1>3, <1>4, <1>5, ContextAssumption DEF IsExhausted

\* Whatever the context holds, the sixteen bytes hold an identifier.
LEMMA SerialisedType ==
  ASSUME NEW c \in Context
  PROVE  Serialised(c) \in Identifier
  BY ContextAssumption DEF Serialised, Context, Identifier

\* A number below a modulus is its own remainder.
LEMMA SmallRemainder ==
  ASSUME NEW n \in Nat, NEW m \in Nat, n < m
  PROVE  n % m = n
  OBVIOUS

\* A timestamp that fits its field is written unchanged.
LEMMA SerialisedTimestamp ==
  ASSUME NEW c \in Context, c.last_timestamp_ms < TsLimit
  PROVE  Serialised(c).unix_ts_ms = c.last_timestamp_ms
  BY SmallRemainder, ContextAssumption DEF Serialised, Context

\* Counting without exhausting the counter puts the identifier above.
LEMMA BumpedIsAbove ==
  ASSUME NEW c \in Context,
         c.counter_high < HighLimit,
         ~IsExhausted(Bumped(c))
  PROVE  Precedes(Serialised(c), Serialised(Bumped(c)))
<1>1. c.counter_high % HighLimit = c.counter_high
  BY SmallRemainder, ContextAssumption DEF Context
<1>2. CASE c.counter_low + 1 < LowLimit
  <2>1. (c.counter_low + 1) % LowLimit = c.counter_low + 1
    BY <1>2, SmallRemainder, ContextAssumption DEF Context
  <2>2. Bumped(c).counter_low = c.counter_low + 1
    BY <2>1 DEF Bumped, Context
  <2>3. Bumped(c).counter_high = c.counter_high
    BY <2>1 DEF Bumped, Context
  <2> QED
    BY <2>2, <2>3, BumpedType DEF Precedes, Serialised, Context
<1>3. CASE c.counter_low + 1 = LowLimit
  <2>1. (c.counter_low + 1) % LowLimit = 0
    BY <1>3, ContextAssumption
  <2>2. Bumped(c).counter_low = 0 /\ Bumped(c).counter_high = c.counter_high + 1
    BY <2>1 DEF Bumped, Context
  <2>3. Bumped(c).counter_high % HighLimit = c.counter_high + 1
    BY <2>2, BumpedType, SmallRemainder, ContextAssumption DEF Context
  <2> QED
    BY <1>1, <2>3, BumpedType DEF Precedes, Serialised, Context
<1> QED
  BY <1>2, <1>3, ContextAssumption DEF Context

\* memcmp orders the identifiers.
LEMMA PrecedesTransitive ==
  ASSUME NEW u \in Identifier, NEW v \in Identifier, NEW w \in Identifier,
         Precedes(u, v), Precedes(v, w)
  PROVE  Precedes(u, w)
  BY ContextAssumption DEF Precedes, Identifier

LEMMA PrecedesIrreflexive ==
  ASSUME NEW u \in Identifier
  PROVE  ~Precedes(u, u)
  BY ContextAssumption DEF Precedes, Identifier

\* Two identifiers with different timestamps are in order, or the second
\* carries the earlier one.
LEMMA OtherTimestamp ==
  ASSUME NEW u \in Identifier, NEW v \in Identifier, u.unix_ts_ms # v.unix_ts_ms
  PROVE  Precedes(u, v) \/ v.unix_ts_ms < u.unix_ts_ms
  BY ContextAssumption DEF Precedes, Identifier

=============================================================================
