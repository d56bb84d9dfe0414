---------------------------- MODULE Uuid7Proofs ----------------------------
(***************************************************************************)
(* Proofs about the generator, for every value of the constants.           *)
(*                                                                         *)
(* The inductive invariant adds to the type invariant what ties the parts  *)
(* together: the clock is not above its peak, neither is a reading, nor the*)
(* context, and the context remembers the identifier it wrote last.        *)
(***************************************************************************)
EXTENDS Uuid7Ordering, Uuid7ContextProofs, TLAPS

IInv ==
  /\ TypeOK
  /\ wall <= peak
  /\ now <= peak
  /\ NeverAheadOfClock
  /\ ContextRemembersOut

-----------------------------------------------------------------------------

(***************************************************************************)
(* The invariant.                                                          *)
(***************************************************************************)

LEMMA InitInvariant == Init => IInv
<1> SUFFICES ASSUME Init PROVE IInv
  OBVIOUS
<1>1. PICK t \in os_time_ms(wall), d \in Draw : ctx = Reseeded(t, d)
  BY DEF Init
<1>2. wall \in 0..MaxTime /\ peak = wall
  BY DEF Init, ClockInit
<1>3. t \in Nat /\ t <= wall
  BY <1>2, ReadingBounds, ClockAssumption
<1>4. ctx \in Context /\ ctx.last_timestamp_ms = t /\ ctx.counter_high < HighLimit
  BY <1>1, <1>3, ReseededType
<1> QED
  BY <1>2, <1>3, <1>4, ClockAssumption
     DEF Init, IInv, TypeOK, ClockTypeOK, NeverAheadOfClock, ContextRemembersOut

\* The clock moves: its peak only rises.
LEMMA ClockInvariant == IInv /\ ClockNext /\ UNCHANGED genVars => IInv'
<1> SUFFICES ASSUME IInv, ClockNext, UNCHANGED genVars PROVE IInv'
  OBVIOUS
<1> USE ClockAssumption DEF IInv, TypeOK, ClockTypeOK, genVars
<1>1. /\ ClockTypeOK'
      /\ wall' <= peak'
      /\ peak <= peak'
  BY DEF ClockNext, Advance, StepBack
<1>2. ctx.last_timestamp_ms \in Nat
  BY DEF Context
<1>3. NeverAheadOfClock' /\ now' <= peak'
  BY <1>1, <1>2 DEF NeverAheadOfClock
<1>4. ContextRemembersOut'
  BY DEF ContextRemembersOut, IsExhausted
<1> QED
  BY <1>1, <1>3, <1>4

\* A call returns: a context the clock has reached, with no carry left in
\* counter_high, is stored and written.
LEMMA ReturnInvariant ==
  ASSUME IInv, NEW c \in Context,
         c.last_timestamp_ms <= peak,
         c.counter_high < HighLimit,
         Return(c)
  PROVE  IInv'
<1>1. out' = Serialised(c) /\ out' \in Identifier
  BY SerialisedType DEF Return
<1>2. TypeOK' /\ wall' <= peak' /\ now' <= peak'
  <2>1. peak \in 0..MaxTime /\ 0 \in 0..MaxTime /\ 0 <= peak
    BY ClockAssumption DEF IInv, TypeOK, ClockTypeOK
  <2> QED
    BY <1>1, <2>1 DEF IInv, TypeOK, ClockTypeOK, Return
<1>3. NeverAheadOfClock'
  BY DEF Return, NeverAheadOfClock
<1>4. ContextRemembersOut'
  BY <1>1 DEF Return, ContextRemembersOut
<1> QED
  BY <1>2, <1>3, <1>4 DEF IInv

\* Each step of the generator keeps the invariant.
LEMMA GenerateInvariant == IInv /\ Generate => IInv'
<1> SUFFICES ASSUME IInv, Generate PROVE IInv'
  OBVIOUS
<1>1. /\ wall \in 0..MaxTime /\ peak \in 0..MaxTime /\ wall <= peak
      /\ now \in 0..MaxTime /\ now <= peak /\ ctx \in Context
      /\ ctx.last_timestamp_ms \in Nat /\ ctx.last_timestamp_ms <= peak
  BY DEF IInv, TypeOK, ClockTypeOK, NeverAheadOfClock, Context
<1>2. ASSUME NEW r \in os_time_ms(wall)
      PROVE  r \in Nat /\ r <= wall
  BY <1>1, ReadingBounds
<1>3. CASE Call
  <2>1. now' \in 0..MaxTime /\ now' <= peak
    BY <1>1, <1>2, <1>3, ClockAssumption DEF Call
  <2>2. ContextRemembersOut'
    BY <1>3 DEF Call, IInv, ContextRemembersOut
  <2> QED
    BY <1>1, <1>3, <2>1, <2>2
       DEF Call, IInv, TypeOK, ClockTypeOK, NeverAheadOfClock
<1>4. CASE NewMillisecond
  <2>1. PICK d \in Draw : Return(Reseeded(now, d))
    BY <1>4 DEF NewMillisecond
  <2> QED
    BY <1>1, <2>1, ReseededType, ReturnInvariant, ClockAssumption
<1>5. CASE CountUp
  <2>1. ctx.counter_high < HighLimit
    BY <1>5 DEF CountUp, IInv, ContextRemembersOut
  <2>2. ~IsExhausted(Bumped(ctx)) /\ Return(Bumped(ctx))
    BY <1>5 DEF CountUp
  <2> QED
    BY <1>1, <2>1, <2>2, BumpedType, ReturnInvariant
<1>6. CASE Exhaust
  <2>1. ctx.counter_high < HighLimit
    BY <1>6 DEF Exhaust, IInv, ContextRemembersOut
  <2>2. /\ ctx' \in Context
        /\ ctx'.last_timestamp_ms = ctx.last_timestamp_ms
        /\ IsExhausted(ctx')
    BY <1>1, <1>6, <2>1, BumpedType DEF Exhaust
  <2>3. out # NoId => out.unix_ts_ms = ctx.last_timestamp_ms
    <3>1. ctx.last_timestamp_ms < TsLimit
      BY <1>1, RangeAssumption, ClockAssumption, ContextAssumption
    <3>2. out # NoId => out = Serialised(ctx)
      BY <1>6 DEF Exhaust, IInv, ContextRemembersOut
    <3> QED
      BY <1>1, <3>1, <3>2, SerialisedTimestamp
  <2>4. ContextRemembersOut'
    BY <1>6, <2>2, <2>3 DEF Exhaust, ContextRemembersOut, IsExhausted
  <2> QED
    BY <1>1, <1>6, <2>2, <2>4
       DEF Exhaust, IInv, TypeOK, ClockTypeOK, NeverAheadOfClock
<1>7. CASE SpinAgain
  BY <1>7 DEF SpinAgain, vars, IInv, TypeOK, ClockTypeOK, NeverAheadOfClock,
              ContextRemembersOut, IsExhausted
<1>8. CASE SpinExit
  <2>1. PICK t \in os_time_ms(wall), d \in Draw : Return(Reseeded(t, d))
    BY <1>8 DEF SpinExit
  <2>2. t \in Nat /\ t <= peak
    BY <1>1, <1>2
  <2> QED
    BY <2>1, <2>2, ReseededType, ReturnInvariant
<1>9. CASE LargeRegress
  <2>1. PICK d \in Draw : Return(Reseeded(now, d))
    BY <1>9 DEF LargeRegress
  <2> QED
    BY <1>1, <2>1, ReseededType, ReturnInvariant, ClockAssumption
<1> QED
  BY <1>3, <1>4, <1>5, <1>6, <1>7, <1>8, <1>9 DEF Generate

LEMMA StepInvariant == IInv /\ [Next]_vars => IInv'
<1>1. IInv /\ UNCHANGED vars => IInv'
  BY DEF vars, IInv, TypeOK, ClockTypeOK, NeverAheadOfClock,
         ContextRemembersOut, IsExhausted
<1> QED
  BY <1>1, ClockInvariant, GenerateInvariant DEF Next

THEOREM Invariance == Spec => []IInv
  BY InitInvariant, StepInvariant, PTL DEF Spec

\* The state keeps its types: the counter never leaves its width and the
\* identifier never leaves its fields.
THEOREM TypeCorrect == Spec => []TypeOK
<1>1. IInv => TypeOK
  BY DEF IInv
<1> QED
  BY <1>1, Invariance, PTL

\* The context's timestamp is never ahead of the clock.
THEOREM NeverAhead == Spec => []NeverAheadOfClock
<1>1. IInv => NeverAheadOfClock
  BY DEF IInv
<1> QED
  BY <1>1, Invariance, PTL

\* The context remembers the identifier written last.
THEOREM Remembers == Spec => []ContextRemembersOut
<1>1. IInv => ContextRemembersOut
  BY DEF IInv
<1> QED
  BY <1>1, Invariance, PTL

-----------------------------------------------------------------------------

(***************************************************************************)
(* The order, on any clock.                                                *)
(***************************************************************************)

\* What a returning call relates: the identifier written before, when there is
\* one, is made of the context; the one it writes, of the context it leaves.
LEMMA ReturnStep ==
  ASSUME IInv, pc = "called" \/ pc = "spin", NEW c \in Context,
         c.last_timestamp_ms <= peak, Return(c)
  PROVE  /\ out' = Serialised(c) /\ out' \in Identifier
         /\ out'.unix_ts_ms = c.last_timestamp_ms
         /\ out # NoId => out.unix_ts_ms = ctx.last_timestamp_ms
<1>1. /\ peak \in Nat /\ peak < TsLimit /\ ctx \in Context
      /\ ctx.last_timestamp_ms \in Nat /\ ctx.last_timestamp_ms < TsLimit
      /\ c.last_timestamp_ms \in Nat /\ c.last_timestamp_ms < TsLimit
  BY RangeAssumption, ClockAssumption, ContextAssumption
     DEF IInv, TypeOK, ClockTypeOK, NeverAheadOfClock, Context
<1>2. out' = Serialised(c) /\ out' \in Identifier
  BY SerialisedType DEF Return
<1>3. out'.unix_ts_ms = c.last_timestamp_ms
  BY <1>1, <1>2, SerialisedTimestamp
<1>4. out # NoId => out.unix_ts_ms = ctx.last_timestamp_ms
  BY <1>1, SerialisedTimestamp DEF IInv, ContextRemembersOut
<1> QED
  BY <1>2, <1>3, <1>4

\* An answer in a later time than the last one is above it.
LEMMA LaterIsAbove ==
  ASSUME NEW u, NEW v, u.unix_ts_ms < v.unix_ts_ms
  PROVE  Precedes(u, v)
  BY DEF Precedes

LEMMA EpochStep == IInv /\ [Next]_vars =>
  [Ids!Request \/ Ids!Issue \/ Ids!StartOver]_<<pc # "idle", out>>
<1> SUFFICES ASSUME IInv, [Next]_vars
             PROVE  \/ Ids!Request \/ Ids!Issue \/ Ids!StartOver
                    \/ UNCHANGED <<pc # "idle", out>>
  OBVIOUS
<1>1. /\ peak \in 0..MaxTime /\ wall \in 0..MaxTime /\ wall <= peak
      /\ now \in 0..MaxTime /\ now <= peak /\ ctx \in Context
      /\ ctx.last_timestamp_ms \in Nat /\ ctx.last_timestamp_ms <= peak
  BY DEF IInv, TypeOK, ClockTypeOK, NeverAheadOfClock, Context
<1>2. CASE UNCHANGED vars \/ (ClockNext /\ UNCHANGED genVars) \/ SpinAgain
  BY <1>2 DEF vars, genVars, SpinAgain
<1>3. CASE Call
  BY <1>3 DEF Call, Ids!Request
<1>4. CASE NewMillisecond
  <2>1. PICK d \in Draw : Return(Reseeded(now, d))
    BY <1>4 DEF NewMillisecond
  <2>2. /\ out' \in Identifier /\ out'.unix_ts_ms = now
        /\ out # NoId => out.unix_ts_ms = ctx.last_timestamp_ms
    BY <1>1, <1>4, <2>1, ReseededType, ReturnStep, ClockAssumption
       DEF NewMillisecond
  <2>3. ctx.last_timestamp_ms < now
    BY <1>1, <1>4, ClockAssumption DEF NewMillisecond, IsNewMillisecond, Delta
  <2>4. out # NoId => Precedes(out, out')
    BY <2>2, <2>3, LaterIsAbove
  <2> QED
    BY <1>4, <2>1, <2>2, <2>4 DEF NewMillisecond, Return, Ids!Issue
<1>5. CASE CountUp
  <2>1. /\ ctx.counter_high < HighLimit
        /\ out # NoId => out = Serialised(ctx)
    BY <1>5 DEF CountUp, IInv, ContextRemembersOut
  <2>2. ~IsExhausted(Bumped(ctx)) /\ Return(Bumped(ctx))
    BY <1>5 DEF CountUp
  <2>3. out' = Serialised(Bumped(ctx)) /\ out' \in Identifier
    BY <1>1, <1>5, <2>1, <2>2, BumpedType, ReturnStep DEF CountUp
  <2>4. out # NoId => Precedes(out, out')
    BY <1>1, <2>1, <2>2, <2>3, BumpedIsAbove
  <2> QED
    BY <1>5, <2>2, <2>3, <2>4 DEF CountUp, Return, Ids!Issue
<1>6. CASE Exhaust
  BY <1>6 DEF Exhaust
<1>7. CASE SpinExit
  <2>1. PICK t \in os_time_ms(wall), d \in Draw :
          t # ctx.last_timestamp_ms /\ Return(Reseeded(t, d))
    BY <1>7 DEF SpinExit
  <2>2. t \in Nat /\ t <= peak
    BY <1>1, <2>1, ReadingBounds
  <2>3. /\ out' \in Identifier /\ out'.unix_ts_ms = t
        /\ out # NoId => out.unix_ts_ms = ctx.last_timestamp_ms
    BY <1>7, <2>1, <2>2, ReseededType, ReturnStep DEF SpinExit
  <2>4. CASE out # NoId /\ t < ctx.last_timestamp_ms
    BY <1>7, <2>1, <2>3, <2>4
       DEF SpinExit, Return, Ids!StartOver, EarlierTime
  <2>5. CASE out = NoId \/ t > ctx.last_timestamp_ms
    <3>1. out # NoId => Precedes(out, out')
      BY <1>1, <2>2, <2>3, <2>5, LaterIsAbove
    <3> QED
      BY <1>7, <2>1, <2>3, <3>1 DEF SpinExit, Return, Ids!Issue
  <2> QED
    BY <1>1, <2>1, <2>2, <2>4, <2>5
<1>8. CASE LargeRegress
  <2>1. PICK d \in Draw : Return(Reseeded(now, d))
    BY <1>8 DEF LargeRegress
  <2>2. /\ out' \in Identifier /\ out'.unix_ts_ms = now
        /\ out # NoId => out.unix_ts_ms = ctx.last_timestamp_ms
    BY <1>1, <1>8, <2>1, ReseededType, ReturnStep, ClockAssumption
       DEF LargeRegress
  <2>3. now < ctx.last_timestamp_ms
    BY <1>1, <1>8, ClockAssumption
       DEF LargeRegress, IsLargeRegress, IsNewMillisecond,
           IsSameOrSmallRegress, Delta
  <2>4. CASE out # NoId
    BY <1>8, <2>1, <2>2, <2>3, <2>4
       DEF LargeRegress, Return, Ids!StartOver, EarlierTime
  <2>5. CASE out = NoId
    BY <1>8, <2>1, <2>2, <2>5 DEF LargeRegress, Return, Ids!Issue
  <2> QED
    BY <2>4, <2>5
<1> QED
  BY <1>2, <1>3, <1>4, <1>5, <1>6, <1>7, <1>8 DEF Next, Generate

\* The generator implements the source that starts over only at an earlier
\* time: within one timestamp its identifiers only ever go up.
THEOREM Order == Spec => OrderBreaksOnlyBackInTime
<1>1. Init => Ids!Init
  BY DEF Init, Ids!Init
<1> QED
  BY <1>1, Invariance, EpochStep, PTL
     DEF Spec, OrderBreaksOnlyBackInTime, Ids!EpochSpec

-----------------------------------------------------------------------------

(***************************************************************************)
(* The timestamps, on any clock.                                           *)
(***************************************************************************)

\* A call that was handed its reading answers within the threshold of it; one
\* that left the loop answers with the reading that ended the loop.
LEMMA FollowStep ==
  ASSUME IInv, [Next]_vars, Returns
  PROVE  IF pc = "called"
         THEN now <= out'.unix_ts_ms /\ out'.unix_ts_ms <= now + Threshold
         ELSE out'.unix_ts_ms \in os_time_ms(wall)
<1>1. /\ peak \in 0..MaxTime /\ wall \in 0..MaxTime /\ wall <= peak
      /\ now \in 0..MaxTime /\ now <= peak /\ ctx \in Context
      /\ ctx.last_timestamp_ms \in Nat /\ ctx.last_timestamp_ms <= peak
  BY DEF IInv, TypeOK, ClockTypeOK, NeverAheadOfClock, Context
<1>2. ASSUME NEW d \in Draw, pc = "called", Return(Reseeded(now, d))
      PROVE  now <= out'.unix_ts_ms /\ out'.unix_ts_ms <= now + Threshold
  <2>1. out'.unix_ts_ms = now
    BY <1>1, <1>2, ReseededType, ReturnStep, ClockAssumption
  <2> QED
    BY <1>1, <2>1, ContextAssumption, ClockAssumption
<1>3. CASE NewMillisecond
  BY <1>2, <1>3 DEF NewMillisecond
<1>4. CASE CountUp
  <2>1. out'.unix_ts_ms = ctx.last_timestamp_ms
    BY <1>1, <1>4, BumpedType, ReturnStep
       DEF CountUp, IInv, ContextRemembersOut
  <2>2. ctx.last_timestamp_ms - now \in 0..Threshold
    BY <1>1, <1>4, ContextAssumption, ClockAssumption
       DEF CountUp, IsSameOrSmallRegress, Delta
  <2> QED
    BY <1>1, <1>4, <2>1, <2>2, ContextAssumption, ClockAssumption DEF CountUp
<1>5. CASE SpinExit
  <2>1. PICK t \in os_time_ms(wall), d \in Draw : Return(Reseeded(t, d))
    BY <1>5 DEF SpinExit
  <2>2. t \in Nat /\ t <= peak
    BY <1>1, <2>1, ReadingBounds
  <2>3. out'.unix_ts_ms = t
    BY <1>5, <2>1, <2>2, ReseededType, ReturnStep DEF SpinExit
  <2> QED
    BY <1>5, <2>1, <2>3 DEF SpinExit
<1>6. CASE LargeRegress
  BY <1>2, <1>6 DEF LargeRegress
<1> QED
  BY <1>3, <1>4, <1>5, <1>6
     DEF Returns, Next, Generate, Call, Exhaust, SpinAgain, vars, genVars

\* An identifier's timestamp is at most the threshold away from the reading
\* of the clock its call worked on, however the clock has moved before.
THEOREM Follows == Spec => TimestampFollowsReading
<1>1. IInv /\ [Next]_vars =>
        [Returns =>
           IF pc = "called"
           THEN now <= out'.unix_ts_ms /\ out'.unix_ts_ms <= now + Threshold
           ELSE out'.unix_ts_ms \in os_time_ms(wall)]_vars
  BY FollowStep
<1> QED
  BY <1>1, Invariance, PTL DEF Spec, TimestampFollowsReading

-----------------------------------------------------------------------------

(***************************************************************************)
(* Regressions within the threshold.                                       *)
(***************************************************************************)

\* How far a reading may be behind the highest value of the clock.
Behind == IF "s" \in Sources THEN MaxLag + SecondMs - 1 ELSE MaxLag

\* A reading taken behind the context is behind it by no more than that: the
\* context is below the peak, and does not move between reading and use.
JitterInv ==
  /\ IInv
  /\ peak - wall <= MaxLag
  /\ pc = "called" => ctx.last_timestamp_ms - now <= Behind

LEMMA ReadingBehind ==
  ASSUME NEW t \in Nat, NEW r \in os_time_ms(t)
  PROVE  t - r <= Behind - MaxLag
<1>1. CASE "s" \in Sources
  BY <1>1, ReadingBounds, ClockAssumption DEF Behind
<1>2. CASE "s" \notin Sources
  BY <1>2, ClockAssumption DEF Behind, os_time_ms
<1> QED
  BY <1>1, <1>2

LEMMA JitterInvariance == Spec => []JitterInv
<1>1. Init => JitterInv
  BY InitInvariant, ClockAssumption
     DEF Init, ClockInit, JitterInv
<1>2. JitterInv /\ [Next]_vars => JitterInv'
  <2> SUFFICES ASSUME JitterInv, [Next]_vars PROVE JitterInv'
    OBVIOUS
  <2>1. /\ peak \in Nat /\ wall \in Nat /\ now \in Nat
        /\ ctx.last_timestamp_ms \in Nat /\ ctx.last_timestamp_ms <= peak
        /\ IInv'
    BY StepInvariant, ClockAssumption
       DEF JitterInv, IInv, TypeOK, ClockTypeOK, NeverAheadOfClock, Context
  <2>2. CASE ClockNext /\ UNCHANGED genVars
    <3>1. peak' - wall' <= MaxLag
      BY <2>1, <2>2, ClockAssumption
         DEF ClockNext, Advance, StepBack, JitterInv
    <3> QED
      BY <2>1, <2>2, <3>1 DEF genVars, JitterInv
  <2>3. CASE Call
    <3>1. PICK r \in os_time_ms(wall) : now' = r
      BY <2>3 DEF Call
    <3>2. r \in Nat /\ wall - r <= Behind - MaxLag
      BY <2>1, ReadingBehind, ReadingBounds
    <3>3. Behind \in Int /\ MaxLag \in Nat /\ peak - wall <= MaxLag
      BY ClockAssumption DEF Behind, JitterInv
    <3>4. ctx.last_timestamp_ms - r <= Behind
      BY <2>1, <3>2, <3>3
    <3> QED
      BY <2>1, <2>3, <3>1, <3>3, <3>4 DEF Call, JitterInv
  <2>4. CASE UNCHANGED vars
    BY <2>1, <2>4 DEF vars, JitterInv
  <2>5. CASE NewMillisecond \/ CountUp \/ Exhaust \/ SpinAgain \/ SpinExit
             \/ LargeRegress
    <3>1. pc' # "called" /\ UNCHANGED <<wall, peak>>
      BY <2>5 DEF NewMillisecond, CountUp, Exhaust, SpinAgain, SpinExit,
                  LargeRegress, Return, vars
    <3> QED
      BY <2>1, <3>1 DEF JitterInv
  <2> QED
    BY <2>2, <2>3, <2>4, <2>5 DEF Next, Generate
<1> QED
  BY <1>1, <1>2, PTL DEF Spec

\* When the clock's corrections and the fallback to whole seconds together
\* stay within the threshold, the context's timestamp goes back only where
\* the counter ran out.
THEOREM RegressOnlyThere ==
  ASSUME Behind <= Threshold
  PROVE  Spec => RegressOnlyAtExhaustion
<1>1. JitterInv /\ [Next]_vars =>
        [ctx'.last_timestamp_ms < ctx.last_timestamp_ms => pc = "spin"]_vars
  <2> SUFFICES ASSUME JitterInv, [Next]_vars, pc # "spin",
                      ctx'.last_timestamp_ms < ctx.last_timestamp_ms
               PROVE  FALSE
    OBVIOUS
  <2>1. /\ now \in Nat /\ ctx \in Context /\ ctx.last_timestamp_ms \in Nat
        /\ pc # "spin" => ctx.counter_high < HighLimit
    BY DEF JitterInv, IInv, TypeOK, Context, ContextRemembersOut
  <2>2. CASE UNCHANGED vars \/ (ClockNext /\ UNCHANGED genVars) \/ Call
             \/ SpinAgain
    BY <2>1, <2>2 DEF vars, genVars, Call, SpinAgain
  <2>3. CASE NewMillisecond
    BY <2>1, <2>3, ReseededType
       DEF NewMillisecond, Return, IsNewMillisecond, Delta
  <2>4. CASE CountUp \/ Exhaust
    BY <2>1, <2>4, BumpedType DEF CountUp, Exhaust, Return
  <2>5. CASE LargeRegress
    <3>1. ctx.last_timestamp_ms - now > Threshold
      BY <2>1, <2>5, ContextAssumption
         DEF LargeRegress, IsLargeRegress, IsNewMillisecond,
             IsSameOrSmallRegress, Delta
    <3>2. ctx.last_timestamp_ms - now <= Behind /\ Behind \in Int
      BY <2>5, ClockAssumption DEF LargeRegress, JitterInv, Behind
    <3> QED
      BY <2>1, <3>1, <3>2, ContextAssumption
  <2>6. CASE SpinExit
    BY <2>6 DEF SpinExit
  <2> QED
    BY <2>2, <2>3, <2>4, <2>5, <2>6 DEF Next, Generate
<1> QED
  BY <1>1, JitterInvariance, PTL DEF Spec, RegressOnlyAtExhaustion

-----------------------------------------------------------------------------

(***************************************************************************)
(* A clock that never steps back, always read the same way.                *)
(***************************************************************************)

\* Every reading still to come is at or above the context's timestamp and the
\* reading at hand, and that is at or above the context's timestamp.
SteadyInv ==
  /\ IInv
  /\ wall = peak
  /\ \A r \in os_time_ms(wall) : ctx.last_timestamp_ms <= r
  /\ pc = "called" => /\ ctx.last_timestamp_ms <= now
                      /\ \A r \in os_time_ms(wall) : now <= r

\* A later time is not read as an earlier one.
LEMMA ReadingMonotonic ==
  ASSUME Steady, NEW t \in Nat, NEW u \in Nat, t <= u,
         NEW r \in os_time_ms(t), NEW v \in os_time_ms(u)
  PROVE  r <= v
<1>1. FloorToSecond(t) <= FloorToSecond(u)
  BY ClockAssumption DEF FloorToSecond
<1> QED
  BY <1>1 DEF Steady, os_time_ms

\* There is always a reading.
LEMMA ReadingExists == ASSUME NEW t PROVE \E r : r \in os_time_ms(t)
<1>1. PICK s : s \in Sources
  BY ClockAssumption
<1>2. (IF s = "ms" THEN t ELSE FloorToSecond(t)) \in os_time_ms(t)
  BY <1>1 DEF os_time_ms
<1> QED
  BY <1>2

LEMMA SteadyInit == ASSUME Steady PROVE Init => SteadyInv
<1> SUFFICES ASSUME Init PROVE SteadyInv
  OBVIOUS
<1>1. IInv
  BY InitInvariant
<1>2. PICK t \in os_time_ms(wall), d \in Draw : ctx = Reseeded(t, d)
  BY DEF Init
<1>3. wall \in Nat /\ wall = peak /\ pc = "idle"
  BY ClockAssumption DEF Init, ClockInit
<1>4. ctx.last_timestamp_ms = t
  BY <1>2 DEF Reseeded
<1>5. \A r \in os_time_ms(wall) : t <= r
  BY <1>2, <1>3, ReadingMonotonic
<1> QED
  BY <1>1, <1>3, <1>4, <1>5 DEF SteadyInv

\* A call returns with the timestamp of a reading of the present or the past.
LEMMA SteadyReturn ==
  ASSUME SteadyInv, IInv', NEW c, Return(c),
         \A r \in os_time_ms(wall) : c.last_timestamp_ms <= r
  PROVE  SteadyInv'
  BY DEF SteadyInv, Return

LEMMA SteadyStep == ASSUME Steady PROVE SteadyInv /\ [Next]_vars => SteadyInv'
<1> SUFFICES ASSUME SteadyInv, [Next]_vars PROVE SteadyInv'
  OBVIOUS
<1>1. /\ wall \in Nat /\ wall = peak /\ now \in Nat /\ ctx \in Context
      /\ ctx.last_timestamp_ms \in Nat /\ IInv'
  BY StepInvariant, ClockAssumption
     DEF SteadyInv, IInv, TypeOK, ClockTypeOK, Context
<1>2. CASE UNCHANGED vars \/ SpinAgain
  BY <1>1, <1>2 DEF vars, SteadyInv, SpinAgain
<1>3. CASE ClockNext /\ UNCHANGED genVars
  <2>1. PICK t \in wall+1 .. MaxTime : wall' = t /\ peak' = t
    BY <1>1, <1>3, ClockAssumption
       DEF ClockNext, Advance, StepBack, Steady
  <2>2. PICK q : q \in os_time_ms(wall)
    BY ReadingExists
  <2>3. q \in Nat /\ ctx.last_timestamp_ms <= q /\ (pc = "called" => now <= q)
    BY <1>1, <2>2, ReadingBounds DEF SteadyInv
  <2>4. ASSUME NEW r \in os_time_ms(t)
        PROVE  /\ ctx.last_timestamp_ms <= r
               /\ pc = "called" => now <= r
    <3>1. t \in Nat /\ wall <= t
      BY <1>1, <2>1, ClockAssumption
    <3>2. q <= r /\ r \in Nat
      BY <1>1, <2>2, <3>1, ReadingMonotonic, ReadingBounds
    <3> QED
      BY <1>1, <2>3, <3>2
  <2> QED
    BY <1>1, <1>3, <2>1, <2>4 DEF SteadyInv, genVars
<1>4. CASE Call
  <2>1. PICK q \in os_time_ms(wall) : now' = q
    BY <1>4 DEF Call
  <2>2. \A r \in os_time_ms(wall) : q <= r
    BY <1>1, <2>1, ReadingMonotonic
  <2> QED
    BY <1>1, <1>4, <2>1, <2>2 DEF Call, SteadyInv
<1>5. CASE NewMillisecond \/ LargeRegress
  <2>1. PICK d \in Draw : Return(Reseeded(now, d))
    BY <1>5 DEF NewMillisecond, LargeRegress
  <2>2. \A r \in os_time_ms(wall) : now <= r
    BY <1>5 DEF NewMillisecond, LargeRegress, SteadyInv
  <2> QED
    BY <1>1, <2>1, <2>2, SteadyReturn DEF Reseeded
<1>6. CASE CountUp
  <2>1. Bumped(ctx).last_timestamp_ms = ctx.last_timestamp_ms
    BY <1>1 DEF Bumped, Context
  <2> QED
    BY <1>1, <1>6, <2>1, SteadyReturn DEF CountUp, SteadyInv
<1>7. CASE Exhaust
  <2>1. ctx'.last_timestamp_ms = ctx.last_timestamp_ms
    BY <1>1, <1>7 DEF Exhaust, Bumped, Context
  <2> QED
    BY <1>1, <1>7, <2>1 DEF Exhaust, SteadyInv
<1>8. CASE SpinExit
  <2>1. PICK t \in os_time_ms(wall), d \in Draw : Return(Reseeded(t, d))
    BY <1>8 DEF SpinExit
  <2>2. \A r \in os_time_ms(wall) : t <= r
    BY <1>1, <2>1, ReadingMonotonic
  <2> QED
    BY <1>1, <2>1, <2>2, SteadyReturn DEF Reseeded
<1> QED
  BY <1>2, <1>3, <1>4, <1>5, <1>6, <1>7, <1>8 DEF Next, Generate

\* A call does not answer with an earlier timestamp than the last one.
LEMMA SteadyTimestamps ==
  ASSUME Steady, SteadyInv, [Next]_vars, Returns, out # NoId
  PROVE  ~EarlierTime(out', out)
<1>1. /\ peak \in Nat /\ wall \in Nat /\ wall = peak
      /\ now \in Nat /\ now <= peak
      /\ ctx \in Context /\ ctx.last_timestamp_ms \in Nat
      /\ ctx.last_timestamp_ms <= peak /\ IInv
  BY ClockAssumption
     DEF SteadyInv, IInv, TypeOK, ClockTypeOK, NeverAheadOfClock, Context
<1>2. ASSUME NEW t \in Nat, NEW d \in Draw, pc = "called" \/ pc = "spin",
             t <= peak, ctx.last_timestamp_ms <= t, Return(Reseeded(t, d))
      PROVE  ~EarlierTime(out', out)
  <2>1. out'.unix_ts_ms = t /\ out.unix_ts_ms = ctx.last_timestamp_ms
    BY <1>1, <1>2, ReseededType, ReturnStep
  <2> QED
    BY <1>1, <1>2, <2>1 DEF EarlierTime
<1>3. CASE NewMillisecond \/ LargeRegress
  <2>1. PICK d \in Draw : pc = "called" /\ Return(Reseeded(now, d))
    BY <1>3 DEF NewMillisecond, LargeRegress
  <2>2. ctx.last_timestamp_ms <= now
    BY <2>1 DEF SteadyInv
  <2> QED
    BY <1>1, <1>2, <2>1, <2>2
<1>4. CASE CountUp
  <2>1. out'.unix_ts_ms = ctx.last_timestamp_ms
    BY <1>1, <1>4, BumpedType, ReturnStep
       DEF CountUp, IInv, ContextRemembersOut
  <2>2. out.unix_ts_ms = ctx.last_timestamp_ms
    BY <1>1, <1>4, BumpedType, ReturnStep
       DEF CountUp, IInv, ContextRemembersOut
  <2> QED
    BY <1>1, <2>1, <2>2 DEF EarlierTime
<1>5. CASE SpinExit
  <2>1. PICK t \in os_time_ms(wall), d \in Draw :
          pc = "spin" /\ Return(Reseeded(t, d))
    BY <1>5 DEF SpinExit
  <2>2. t \in Nat /\ t <= peak
    BY <1>1, <2>1, ReadingBounds
  <2>3. ctx.last_timestamp_ms <= t
    BY <2>1 DEF SteadyInv
  <2> QED
    BY <1>2, <2>1, <2>2, <2>3
<1> QED
  BY <1>3, <1>4, <1>5
     DEF Returns, Next, Generate, Call, Exhaust, SpinAgain, vars, genVars

LEMMA StrictStep == ASSUME Steady PROVE
  SteadyInv /\ [Next]_vars => [Ids!Request \/ Ids!Issue]_<<pc # "idle", out>>
<1> SUFFICES ASSUME SteadyInv, [Next]_vars, Ids!StartOver
             PROVE  FALSE
  BY EpochStep DEF SteadyInv
<1> QED
  BY SteadyTimestamps DEF Ids!StartOver, Returns

\* On a clock that never steps back, read always in milliseconds or always in
\* whole seconds, each identifier is above the one before it.
THEOREM StrictOrder == ASSUME Steady PROVE Spec => StrictlyIncreasing
<1>1. Init => Ids!Init
  BY DEF Init, Ids!Init
<1>2. Spec => []SteadyInv
  BY SteadyInit, SteadyStep, PTL DEF Spec
<1> QED
  BY <1>1, <1>2, StrictStep, PTL
     DEF Spec, StrictlyIncreasing, Ids!StrictSpec

=============================================================================
