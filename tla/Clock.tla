------------------------------- MODULE Clock -------------------------------
(***************************************************************************)
(* The wall clock of the host and os_time_ms() (src/clock.c), the only way *)
(* the library looks at it.                                                *)
(*                                                                         *)
(* The host moves the clock: forward as time passes or is stepped, and     *)
(* backward when it is corrected by hand, by NTP or by a hypervisor.       *)
(* MaxLag bounds how far a correction may leave the clock behind its own   *)
(* highest value: 0 is a clock that never steps back, MaxTime one that may *)
(* be set to anything.                                                     *)
(***************************************************************************)
EXTENDS Integers

CONSTANTS
  SecondMs,  \* milliseconds in a second
  Sources,   \* the branches of os_time_ms() this build and host can take
  MaxTime,   \* bound: the last millisecond the clock reaches
  MaxLag     \* bound: how far the clock may fall behind its highest value

ASSUME ClockAssumption ==
  /\ SecondMs \in Nat \ {0}
  /\ Sources \subseteq {"ms", "s"}
  /\ Sources # {}
  /\ MaxTime \in Nat
  /\ MaxLag \in Nat

VARIABLES
  wall,      \* the host's wall clock, in milliseconds since the epoch
  peak       \* the highest value wall has had

clockVars == <<wall, peak>>

ClockTypeOK == wall \in 0..MaxTime /\ peak \in 0..MaxTime

-----------------------------------------------------------------------------

\* time(NULL) * 1000: the same instant, with the milliseconds cut off.
FloorToSecond(t) == SecondMs * (t \div SecondMs)

\* The values os_time_ms() may return when the clock stands at t.  A build
\* with clock_gettime returns milliseconds ("ms") and falls back to whole
\* seconds ("s") in any call where clock_gettime fails; a build for an unknown
\* platform only has the second branch.
os_time_ms(t) == {IF s = "ms" THEN t ELSE FloorToSecond(t) : s \in Sources}

-----------------------------------------------------------------------------

ClockInit == wall \in 0..MaxTime /\ peak = wall

\* Time passes, or the clock is stepped forward.
Advance ==
  \E t \in wall+1 .. MaxTime :
    /\ wall' = t
    /\ peak' = IF t > peak THEN t ELSE peak

\* The clock is corrected backward.
StepBack ==
  \E t \in 0 .. wall-1 :
    /\ peak - t <= MaxLag
    /\ wall' = t
    /\ UNCHANGED peak

ClockNext == Advance \/ StepBack

=============================================================================
