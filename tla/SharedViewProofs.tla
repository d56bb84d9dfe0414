-------------------------- MODULE SharedViewProofs --------------------------
(***************************************************************************)
(* That a thread alone in the C call of SharedCall takes the steps of the  *)
(* sequential generator, for the proofs about the bindings with a mutex.   *)
(***************************************************************************)
EXTENDS SharedView, Uuid7ContextProofs, TLAPS

\* Counters stored from a copy that is current are the counters bumped.
LEMMA CountedIsBumped ==
  ASSUME NEW c \in Context, c.counter_high < HighLimit
  PROVE  Counted(c, c) = Bumped(c)
<1> DEFINE low == (c.counter_low + 1) % LowLimit
<1>1. Bumped(c).counter_low = low
  BY DEF Bumped, Context
<1>2. low = 0 => Bumped(c).counter_high = c.counter_high + 1
  BY DEF Bumped, Context
<1>3. (c.counter_high + 1) % (4 * HighLimit) = c.counter_high + 1
  BY SmallRemainder, ContextAssumption DEF Context
<1> HIDE DEF low
<1>4. Bumped(c) = [c EXCEPT !.counter_low = low,
                            !.counter_high = IF low = 0 THEN c.counter_high + 1
                                             ELSE c.counter_high]
  BY Zenon DEF Bumped, low
<1>5. Counted(c, c) = [c EXCEPT !.counter_low = low,
                            !.counter_high = IF low = 0 THEN c.counter_high + 1
                                             ELSE c.counter_high]
  BY <1>1, <1>2, <1>3, Zenon DEF Counted
<1> QED
  BY <1>4, <1>5

-----------------------------------------------------------------------------

\* What the mapping shows of a thread that is alone in the C call.
PcOf(place) == IF place = "spin" THEN "spin"
               ELSE IF place \in {"load", "store"} THEN "called" ELSE "idle"

\* The operators of the sequential generator are those of the shared call.
LEMMA SameOperators ==
  /\ \A t : Seq!os_time_ms(t) = os_time_ms(t)
  /\ \A t, d : Seq!Reseeded(t, d) = Reseeded(t, d)
  /\ Seq!Draw = Draw
  /\ \A c : Seq!Bumped(c) = Bumped(c)
  /\ \A c : Seq!IsExhausted(c) = IsExhausted(c)
  /\ \A c : Seq!Serialised(c) = Serialised(c)
  /\ \A c, r : Seq!IsNewMillisecond(c, r) = IsNewMillisecond(c, r)
  /\ \A c, r : Seq!IsSameOrSmallRegress(c, r) = IsSameOrSmallRegress(c, r)
  /\ \A c, r : Seq!IsLargeRegress(c, r) = IsLargeRegress(c, r)
<1>1. \A t : Seq!FloorToSecond(t) = FloorToSecond(t)
  BY Zenon DEF Seq!FloorToSecond, FloorToSecond
<1>2. \A t : Seq!os_time_ms(t) = os_time_ms(t)
  BY <1>1, Zenon DEF Seq!os_time_ms, os_time_ms
<1>3. \A t, d : Seq!Reseeded(t, d) = Reseeded(t, d)
  BY Zenon DEF Seq!Reseeded, Reseeded
<1>4. Seq!Draw = Draw
  BY Zenon DEF Seq!Draw, Draw
<1>5. \A c : Seq!Bumped(c) = Bumped(c)
  BY Zenon DEF Seq!Bumped, Bumped
<1>6. \A c : Seq!IsExhausted(c) = IsExhausted(c)
  BY Zenon DEF Seq!IsExhausted, IsExhausted
<1>7. \A c : Seq!Serialised(c) = Serialised(c)
  BY Zenon DEF Seq!Serialised, Serialised
<1>8. \A c, r : Seq!Delta(c, r) = Delta(c, r)
  BY Zenon DEF Seq!Delta, Delta
<1>9. \A c, r : Seq!IsNewMillisecond(c, r) = IsNewMillisecond(c, r)
  BY <1>8, Zenon DEF Seq!IsNewMillisecond, IsNewMillisecond
<1>10. \A c, r : Seq!IsSameOrSmallRegress(c, r) = IsSameOrSmallRegress(c, r)
  BY <1>8, Zenon DEF Seq!IsSameOrSmallRegress, IsSameOrSmallRegress
<1>11. \A c, r : Seq!IsLargeRegress(c, r) = IsLargeRegress(c, r)
  BY <1>9, <1>10, Zenon DEF Seq!IsLargeRegress, IsLargeRegress
<1> QED
  BY <1>2, <1>3, <1>4, <1>5, <1>6, <1>7, <1>9, <1>10, <1>11

LEMMA OneOfSingleton == \A g : One({g}) = g
  BY DEF One

LEMMA View ==
  ASSUME NEW g \in Threads, \A h \in Threads : pc[h] \in Body => h = g
  PROVE  /\ SeqPc = PcOf(pc[g])
         /\ SeqNow = IF pc[g] \in {"load", "store", "spin"} THEN now[g] ELSE 0
         /\ SeqOut = IF pc[g] = "write" THEN Serialised(ctx) ELSE last
<1>1. ASSUME NEW S \in SUBSET Body
      PROVE  At(S) = IF pc[g] \in S THEN {g} ELSE {}
  BY DEF At
<1>2. At({"spin"}) = IF pc[g] = "spin" THEN {g} ELSE {}
  BY <1>1 DEF Body
<1>3. At({"load", "store"}) = IF pc[g] \in {"load", "store"} THEN {g} ELSE {}
  BY <1>1 DEF Body
<1>4. At({"load", "store", "spin"}) =
        IF pc[g] \in {"load", "store", "spin"} THEN {g} ELSE {}
  BY <1>1 DEF Body
<1>5. At({"write"}) = IF pc[g] = "write" THEN {g} ELSE {}
  BY <1>1 DEF Body
<1> QED
  BY <1>2, <1>3, <1>4, <1>5, OneOfSingleton DEF SeqPc, SeqNow, SeqOut, PcOf

LEMMA ViewNext ==
  ASSUME NEW g \in Threads, \A h \in Threads : pc'[h] \in Body => h = g
  PROVE  /\ SeqPc' = PcOf(pc'[g])
         /\ SeqNow' = IF pc'[g] \in {"load", "store", "spin"} THEN now'[g] ELSE 0
         /\ SeqOut' = IF pc'[g] = "write" THEN Serialised(ctx') ELSE last'
<1>1. ASSUME NEW S \in SUBSET Body
      PROVE  At(S)' = IF pc'[g] \in S THEN {g} ELSE {}
  BY DEF At
<1>2. At({"spin"})' = IF pc'[g] = "spin" THEN {g} ELSE {}
  BY <1>1 DEF Body
<1>3. At({"load", "store"})' = IF pc'[g] \in {"load", "store"} THEN {g} ELSE {}
  BY <1>1 DEF Body
<1>4. At({"load", "store", "spin"})' =
        IF pc'[g] \in {"load", "store", "spin"} THEN {g} ELSE {}
  BY <1>1 DEF Body
<1>5. At({"write"})' = IF pc'[g] = "write" THEN {g} ELSE {}
  BY <1>1 DEF Body
<1> QED
  BY <1>2, <1>3, <1>4, <1>5, OneOfSingleton DEF SeqPc, SeqNow, SeqOut, PcOf, Serialised

\* A step that moves nobody into, inside or out of the C call is not seen.
LEMMA Unseen ==
  ASSUME UNCHANGED <<ctx, now, last>>,
         \A h \in Threads : pc'[h] = pc[h] \/ {pc[h], pc'[h]} \cap Body = {}
  PROVE  UNCHANGED <<SeqPc, SeqNow, SeqOut>>
<1>1. ASSUME NEW S \in SUBSET Body
      PROVE  At(S)' = At(S)
  BY DEF At
<1>2. /\ At({"spin"})' = At({"spin"})
      /\ At({"load", "store"})' = At({"load", "store"})
      /\ At({"load", "store", "spin"})' = At({"load", "store", "spin"})
      /\ At({"write"})' = At({"write"})
  BY <1>1 DEF Body
<1>3. SeqPc' = SeqPc
  BY <1>2 DEF SeqPc
<1>4. SeqNow' = SeqNow
  BY <1>2 DEF SeqNow
<1>5. SeqOut' = SeqOut
  <2>1. Serialised(ctx)' = Serialised(ctx)
    BY DEF Serialised
  <2> QED
    BY <1>2, <2>1, Zenon DEF SeqOut
<1> QED
  BY <1>3, <1>4, <1>5

\* Each step of the C call by a thread that is alone in it is the step of the
\* sequential generator it stands for, or a stutter.
LEMMA BodySeen ==
  ASSUME NEW g \in Threads, UNCHANGED <<wall, peak>>, ReadClock(g) \/ Run(g),
         pc = [h \in Threads |-> pc[h]],
         now \in [Threads -> 0..MaxTime],
         \A h \in Threads : pc[h] \in Body => h = g,
         \A h \in Threads : pc'[h] \in Body => h = g,
         pc[g] = "store" =>
           reg[g] = ctx /\ ctx \in Context /\ ctx.counter_high < HighLimit
  PROVE  [Seq!Next]_(Seq!vars)
<1> USE DEF Goto, Body
<1>a. /\ SeqPc = PcOf(pc[g])
      /\ SeqNow = IF pc[g] \in {"load", "store", "spin"} THEN now[g] ELSE 0
      /\ SeqOut = IF pc[g] = "write" THEN Serialised(ctx) ELSE last
  BY View
<1>b. /\ SeqPc' = PcOf(pc'[g])
      /\ SeqNow' = IF pc'[g] \in {"load", "store", "spin"} THEN now'[g] ELSE 0
      /\ SeqOut' = IF pc'[g] = "write" THEN Serialised(ctx') ELSE last'
  BY ViewNext
<1>1. CASE ReadClock(g)
  <2>1. PICK r \in os_time_ms(wall) : now' = [now EXCEPT ![g] = r]
    BY <1>1 DEF ReadClock
  <2>2. SeqPc = "idle" /\ SeqPc' = "called" /\ SeqNow' = r
        /\ SeqOut' = SeqOut /\ ctx' = ctx
    BY <1>1, <2>1, <1>a, <1>b DEF ReadClock, PcOf
  <2>3. Seq!Call
    BY <2>2, SameOperators DEF Seq!Call
  <2> QED
    BY <2>3 DEF Seq!Next, Seq!Generate
<1>2. CASE Load(g) \/ SpinAgain(g)
  <2>1. UNCHANGED <<SeqPc, SeqNow, SeqOut, ctx>>
    BY <1>2, <1>a, <1>b DEF Load, SpinAgain, callVars, PcOf
  <2> QED
    BY <2>1 DEF Seq!vars
<1>3. CASE Write(g)
  <2>1. UNCHANGED <<SeqPc, SeqNow, SeqOut, ctx>>
    BY <1>3, <1>a, <1>b DEF Write, PcOf
  <2> QED
    BY <2>1 DEF Seq!vars
<1>4. CASE StoreReseeded(g)
  <2>1. PICK d \in Draw : ctx' = Reseeded(now[g], d)
    BY <1>4 DEF StoreReseeded
  <2>2. SeqPc = "called" /\ SeqPc' = "idle" /\ SeqNow = now[g] /\ SeqNow' = 0
        /\ SeqOut' = Serialised(ctx')
    BY <1>4, <1>a, <1>b DEF StoreReseeded, Done, PcOf
  <2>3. Seq!Return(Seq!Reseeded(SeqNow, d))
    BY <2>1, <2>2, SameOperators DEF Seq!Return
  <2>4. ~IsSameOrSmallRegress(ctx, SeqNow)
    BY <1>4, <2>2 DEF StoreReseeded
  <2>5. Seq!NewMillisecond \/ Seq!LargeRegress
    BY <2>1, <2>2, <2>3, <2>4, SameOperators
       DEF Seq!NewMillisecond, Seq!LargeRegress, IsLargeRegress
  <2> QED
    BY <2>5 DEF Seq!Next, Seq!Generate
<1>5. CASE StoreCounted(g)
  <2>1. ctx' = Bumped(ctx)
    BY <1>5, CountedIsBumped DEF StoreCounted
  <2>2. SeqPc = "called" /\ SeqPc' = "idle" /\ SeqNow = now[g] /\ SeqNow' = 0
        /\ SeqOut' = Serialised(ctx')
    BY <1>5, <1>a, <1>b DEF StoreCounted, Done, PcOf
  <2>3. Seq!Return(Seq!Bumped(ctx))
    BY <2>1, <2>2, SameOperators DEF Seq!Return
  <2>4. IsSameOrSmallRegress(ctx, SeqNow) /\ ~IsExhausted(Bumped(ctx))
    BY <1>5, <2>2 DEF StoreCounted
  <2>5. Seq!CountUp
    BY <2>2, <2>3, <2>4, SameOperators DEF Seq!CountUp
  <2> QED
    BY <2>5 DEF Seq!Next, Seq!Generate
<1>6. CASE StoreExhausted(g)
  <2>1. ctx' = Bumped(ctx)
    BY <1>6, CountedIsBumped DEF StoreExhausted
  <2>2. SeqPc = "called" /\ SeqPc' = "spin" /\ SeqNow = now[g]
        /\ SeqNow' = SeqNow /\ SeqOut' = SeqOut
    BY <1>6, <1>a, <1>b DEF StoreExhausted, PcOf
  <2>3. IsSameOrSmallRegress(ctx, SeqNow) /\ IsExhausted(Bumped(ctx))
    BY <1>6, <2>2 DEF StoreExhausted
  <2>4. Seq!Exhaust
    BY <2>1, <2>2, <2>3, SameOperators DEF Seq!Exhaust
  <2> QED
    BY <2>4 DEF Seq!Next, Seq!Generate
<1>7. CASE SpinExit(g)
  <2>1. PICK r \in os_time_ms(wall), d \in Draw :
          r # ctx.last_timestamp_ms /\ ctx' = Reseeded(r, d)
    BY <1>7 DEF SpinExit
  <2>2. SeqPc = "spin" /\ SeqPc' = "idle" /\ SeqNow' = 0
        /\ SeqOut' = Serialised(ctx')
    BY <1>7, <1>a, <1>b DEF SpinExit, Done, PcOf
  <2>3. Seq!Return(Seq!Reseeded(r, d))
    BY <2>1, <2>2, SameOperators DEF Seq!Return
  <2>4. Seq!SpinExit
    BY <2>1, <2>2, <2>3, SameOperators DEF Seq!SpinExit
  <2> QED
    BY <2>4 DEF Seq!Next, Seq!Generate
<1> QED
  BY <1>1, <1>2, <1>3, <1>4, <1>5, <1>6, <1>7 DEF Run

-----------------------------------------------------------------------------

\* What is proved about one caller, carried over to the threads seen as one.
SeqProofs == INSTANCE Uuid7Proofs
  WITH pc <- SeqPc, now <- SeqNow, out <- SeqOut

\* It is about the sequential generator the view is shown to implement.
LEMMA SameGenerator ==
  /\ SeqProofs!Init <=> Seq!Init
  /\ SeqProofs!Next <=> Seq!Next
  /\ SeqProofs!vars = Seq!vars
<1> USE Zenon
<1>1. \A t : SeqProofs!os_time_ms(t) = Seq!os_time_ms(t)
  BY DEF SeqProofs!os_time_ms, Seq!os_time_ms, SeqProofs!FloorToSecond,
         Seq!FloorToSecond
<1>2. \A t, d : SeqProofs!Reseeded(t, d) = Seq!Reseeded(t, d)
  BY DEF SeqProofs!Reseeded, Seq!Reseeded
<1>3. SeqProofs!Draw = Seq!Draw
  BY DEF SeqProofs!Draw, Seq!Draw
<1>4. SeqProofs!ClockInit <=> Seq!ClockInit
  BY DEF SeqProofs!ClockInit, Seq!ClockInit
<1>5. SeqProofs!Init <=> Seq!Init
  BY <1>1, <1>2, <1>3, <1>4 DEF SeqProofs!Init, Seq!Init
<1>6. \A c : SeqProofs!Serialised(c) = Seq!Serialised(c)
  BY DEF SeqProofs!Serialised, Seq!Serialised
<1>7. \A c : SeqProofs!Bumped(c) = Seq!Bumped(c)
  BY DEF SeqProofs!Bumped, Seq!Bumped
<1>8. \A c : SeqProofs!IsExhausted(c) <=> Seq!IsExhausted(c)
  BY DEF SeqProofs!IsExhausted, Seq!IsExhausted
<1>9. \A c, r : SeqProofs!Delta(c, r) = Seq!Delta(c, r)
  BY DEF SeqProofs!Delta, Seq!Delta
<1>10. \A c, r : /\ SeqProofs!IsNewMillisecond(c, r) <=> Seq!IsNewMillisecond(c, r)
                 /\ SeqProofs!IsSameOrSmallRegress(c, r) <=>
                      Seq!IsSameOrSmallRegress(c, r)
  BY <1>9 DEF SeqProofs!IsNewMillisecond, Seq!IsNewMillisecond,
              SeqProofs!IsSameOrSmallRegress, Seq!IsSameOrSmallRegress
<1>11. \A c, r : SeqProofs!IsLargeRegress(c, r) <=> Seq!IsLargeRegress(c, r)
  BY <1>10 DEF SeqProofs!IsLargeRegress, Seq!IsLargeRegress
<1>12. \A c : SeqProofs!Return(c) <=> Seq!Return(c)
  BY <1>6 DEF SeqProofs!Return, Seq!Return
<1>13. SeqProofs!vars = Seq!vars
  BY DEF SeqProofs!vars, Seq!vars
<1>14. SeqProofs!Call <=> Seq!Call
  BY <1>1 DEF SeqProofs!Call, Seq!Call
<1>15. SeqProofs!NewMillisecond <=> Seq!NewMillisecond
  BY <1>2, <1>3, <1>10, <1>12 DEF SeqProofs!NewMillisecond, Seq!NewMillisecond
<1>16. SeqProofs!CountUp <=> Seq!CountUp
  BY <1>7, <1>8, <1>10, <1>12 DEF SeqProofs!CountUp, Seq!CountUp
<1>17. SeqProofs!Exhaust <=> Seq!Exhaust
  BY <1>7, <1>8, <1>10 DEF SeqProofs!Exhaust, Seq!Exhaust
<1>18. SeqProofs!SpinAgain <=> Seq!SpinAgain
  BY <1>1, <1>13 DEF SeqProofs!SpinAgain, Seq!SpinAgain, SeqProofs!vars, Seq!vars
<1>19. SeqProofs!SpinExit <=> Seq!SpinExit
  BY <1>1, <1>2, <1>3, <1>12 DEF SeqProofs!SpinExit, Seq!SpinExit
<1>20. SeqProofs!LargeRegress <=> Seq!LargeRegress
  BY <1>2, <1>3, <1>11, <1>12 DEF SeqProofs!LargeRegress, Seq!LargeRegress
<1>21. SeqProofs!Generate <=> Seq!Generate
  BY <1>14, <1>15, <1>16, <1>17, <1>18, <1>19, <1>20
     DEF SeqProofs!Generate, Seq!Generate
<1>22. SeqProofs!ClockNext <=> Seq!ClockNext
  BY DEF SeqProofs!ClockNext, Seq!ClockNext, SeqProofs!Advance, Seq!Advance,
         SeqProofs!StepBack, Seq!StepBack
<1>23. SeqProofs!Next <=> Seq!Next
  BY <1>21, <1>22 DEF SeqProofs!Next, Seq!Next, SeqProofs!genVars, Seq!genVars
<1> QED
  BY <1>5, <1>13, <1>23

LEMMA SameSteps == [Seq!Next]_(Seq!vars) => [SeqProofs!Next]_(SeqProofs!vars)
<1>1. (UNCHANGED Seq!vars) => UNCHANGED SeqProofs!vars
  BY DEF Seq!vars, SeqProofs!vars
<1> QED
  BY <1>1, SameGenerator

LEMMA SeqAssumptions ==
  ASSUME MaxTime < TsLimit
  PROVE  /\ SeqProofs!NoIdAssumption
         /\ SeqProofs!RangeAssumption
         /\ SeqProofs!ClockAssumption
         /\ SeqProofs!ContextAssumption
<1>1. SeqProofs!NoIdAssumption
  BY NoIdAssumption DEF SeqProofs!Identifier, Identifier
<1> QED
  BY <1>1, ClockAssumption, ContextAssumption

\* On a clock that is never corrected backward, the threads seen as one are
\* answered in order.
LEMMA SteadyView ==
  ASSUME MaxTime < TsLimit, Steady
  PROVE  /\ Seq!Init => SeqProofs!SteadyInv
         /\ SeqProofs!SteadyInv /\ [Seq!Next]_(Seq!vars) => SeqProofs!SteadyInv'
         /\ /\ SeqProofs!SteadyInv /\ [Seq!Next]_(Seq!vars)
            /\ SeqPc # "idle" /\ SeqPc' = "idle" /\ SeqOut # NoId
            => Precedes(SeqOut, SeqOut')
<1>1. SeqProofs!Steady
  BY Zenon DEF SeqProofs!Steady, Steady
<1>2. Seq!Init => SeqProofs!SteadyInv
  BY <1>1, SeqAssumptions, SameGenerator, SeqProofs!SteadyInit
<1>3. SeqProofs!SteadyInv /\ [SeqProofs!Next]_(SeqProofs!vars) => SeqProofs!SteadyInv'
  BY <1>1, SeqAssumptions, SeqProofs!SteadyStep
<1>4. SeqProofs!SteadyInv /\ [SeqProofs!Next]_(SeqProofs!vars) =>
        [SeqProofs!Ids!Request \/ SeqProofs!Ids!Issue]_<<SeqPc # "idle", SeqOut>>
  BY <1>1, SeqAssumptions, SeqProofs!StrictStep
<1>5. [Seq!Next]_(Seq!vars) => [SeqProofs!Next]_(SeqProofs!vars)
  BY SameSteps
<1>6. ASSUME SeqProofs!SteadyInv, [Seq!Next]_(Seq!vars),
             SeqPc # "idle", SeqPc' = "idle", SeqOut # NoId
      PROVE  Precedes(SeqOut, SeqOut')
  <2>1. SeqProofs!Ids!Issue
    BY <1>4, <1>5, <1>6 DEF SeqProofs!Ids!Request
  <2>2. SeqProofs!Precedes(SeqOut, SeqOut')
    BY <1>6, <2>1 DEF SeqProofs!Ids!Issue
  <2> QED
    BY <2>2, Zenon DEF SeqProofs!Precedes, Precedes
<1> QED
  BY <1>2, <1>3, <1>5, <1>6

\* The same of the step that begins their use.
LEMMA SteadyBegins ==
  ASSUME MaxTime < TsLimit, Steady
  PROVE  (Seq!Init => SeqProofs!SteadyInv)'
<1>1. Seq!Init => SeqProofs!SteadyInv
  BY SteadyView
<1> QED
  BY <1>1, PTL

=============================================================================
