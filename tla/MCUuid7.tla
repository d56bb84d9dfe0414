------------------------------ MODULE MCUuid7 ------------------------------
(***************************************************************************)
(* The generator on small instances.  Two values of rand_a, two of         *)
(* counter_high and two of counter_low make a counter that runs out after  *)
(* three calls in a millisecond, with carries, wraps and re-draws on the   *)
(* way; a "second" of two milliseconds lets the coarse branch of           *)
(* os_time_ms() fall behind the fine one.                                  *)
(***************************************************************************)
EXTENDS Uuid7Ordering

\* A host on which clock_gettime does not fail.
MCMilliseconds == {"ms"}

\* A host on which it may fail in any call.
MCBoth == {"ms", "s"}

=============================================================================
