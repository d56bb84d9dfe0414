--------------------------- MODULE Uuid7Generator ---------------------------
(***************************************************************************)
(* One context and the thread that uses it: uuid7_init followed by any     *)
(* number of uuid7_generate calls (src/uuid7.c), with the wall clock moving*)
(* between any two steps.                                                  *)
(*                                                                         *)
(* A call takes two steps when the counter does not run out: it reads the  *)
(* clock, then uuid7_generate_ex works on the reading it was handed.  When *)
(* the counter runs out the call re-reads the clock in a loop, one step per*)
(* reading.                                                                *)
(***************************************************************************)
EXTENDS Clock, Uuid7Context

CONSTANT NoId  \* the caller's buffer before the first call

ASSUME NoIdAssumption == NoId \notin Identifier

\* The clock stays inside the 48 bits the identifier has for it (it does so
\* until the year 10889).
ASSUME RangeAssumption == MaxTime < TsLimit

VARIABLES
  ctx,  \* the context
  pc,   \* "idle" outside a call, "called" once the clock is read,
        \* "spin" while waiting for another millisecond
  now,  \* the reading passed to uuid7_generate_ex, 0 outside a call
  out   \* the identifier the last call wrote

genVars == <<ctx, pc, now, out>>
vars == <<wall, peak, ctx, pc, now, out>>

TypeOK ==
  /\ ClockTypeOK
  /\ ctx \in Context
  /\ pc \in {"idle", "called", "spin"}
  /\ now \in 0..MaxTime
  /\ out \in Identifier \cup {NoId}

-----------------------------------------------------------------------------

\* uuid7_init: the context starts at a reading of the clock, fields drawn.
Init ==
  /\ ClockInit
  /\ \E t \in os_time_ms(wall), d \in Draw : ctx = Reseeded(t, d)
  /\ pc = "idle"
  /\ now = 0
  /\ out = NoId

\* uuid7_generate: read the clock and hand the reading on.
Call ==
  /\ pc = "idle"
  /\ now' \in os_time_ms(wall)
  /\ pc' = "called"
  /\ UNCHANGED <<wall, peak, ctx, out>>

\* uuid7_generate_ex leaves the context at c and writes it out.
Return(c) ==
  /\ ctx' = c
  /\ out' = Serialised(c)
  /\ pc' = "idle"
  /\ now' = 0
  /\ UNCHANGED <<wall, peak>>

\* A new millisecond: take its timestamp and draw the other fields.
NewMillisecond ==
  /\ pc = "called"
  /\ IsNewMillisecond(ctx, now)
  /\ \E d \in Draw : Return(Reseeded(now, d))

\* The same millisecond or a tolerated regression: keep the timestamp, count.
CountUp ==
  /\ pc = "called"
  /\ IsSameOrSmallRegress(ctx, now)
  /\ ~IsExhausted(Bumped(ctx))
  /\ Return(Bumped(ctx))

\* The same branch, with the counter running out: nothing is written yet.
Exhaust ==
  /\ pc = "called"
  /\ IsSameOrSmallRegress(ctx, now)
  /\ IsExhausted(Bumped(ctx))
  /\ ctx' = Bumped(ctx)
  /\ pc' = "spin"
  /\ UNCHANGED <<wall, peak, now, out>>

\* One turn of the loop that reads the context's own millisecond again.
SpinAgain ==
  /\ pc = "spin"
  /\ ctx.last_timestamp_ms \in os_time_ms(wall)
  /\ UNCHANGED vars

\* Mutant: the loop compares the reading the call began with.
SpinExitOnStaleReading ==
  /\ pc = "spin"
  /\ \E d \in Draw :
       /\ now # ctx.last_timestamp_ms
       /\ Return(Reseeded(now, d))

\* Mutant: the next millisecond is borrowed instead of waited for.
SpinExitBorrowing ==
  /\ pc = "spin"
  /\ \E d \in Draw : Return(Reseeded(ctx.last_timestamp_ms + 1, d))

\* Mutant: the fields are drawn again but the timestamp is left alone.
SpinExitKeepingTimestamp ==
  /\ pc = "spin"
  /\ \E t \in os_time_ms(wall), d \in Draw :
       /\ t # ctx.last_timestamp_ms
       /\ Return(Reseeded(ctx.last_timestamp_ms, d))

\* The loop ends at the first reading that is different, above or below.
SpinExit ==
  /\ pc = "spin"
  /\ \E t \in os_time_ms(wall), d \in Draw :
       /\ t # ctx.last_timestamp_ms
       /\ Return(Reseeded(t, d))

\* Mutant: the identifier follows the clock back, the context does not.
LargeRegressForgotten ==
  /\ pc = "called"
  /\ IsLargeRegress(ctx, now)
  /\ \E d \in Draw : out' = Serialised(Reseeded(now, d))
  /\ pc' = "idle"
  /\ now' = 0
  /\ UNCHANGED <<wall, peak, ctx>>

\* A large regression: follow the clock back and draw the other fields.
LargeRegress ==
  /\ pc = "called"
  /\ IsLargeRegress(ctx, now)
  /\ \E d \in Draw : Return(Reseeded(now, d))

Generate ==
  \/ Call \/ NewMillisecond \/ CountUp \/ Exhaust
  \/ SpinAgain \/ SpinExit \/ LargeRegress

Next == Generate \/ (ClockNext /\ UNCHANGED genVars)

Spec == Init /\ [][Next]_vars

\* The thread in the call keeps running and time keeps passing; nobody has to
\* call again or to correct the clock.
Fairness ==
  /\ WF_vars(NewMillisecond \/ CountUp \/ Exhaust \/ SpinExit \/ LargeRegress)
  /\ WF_vars(Advance /\ UNCHANGED genVars)

FairSpec == Spec /\ Fairness

=============================================================================
