---------------------------- MODULE GoOrdering ----------------------------
(***************************************************************************)
(* What the mutex of the Go binding buys: the goroutines together are one  *)
(* sequential user of the C library, for as long as the generator is open. *)
(***************************************************************************)
EXTENDS GoGenerator, SharedView

-----------------------------------------------------------------------------

\* The binding implements the sequential generator: whatever the goroutines
\* do, the identifiers written are those of one thread making one call after
\* another (bindings/golang/README.md:72), so every property of Uuid7Ordering
\* holds of them.
IsSequential == Seq!Spec

\* No call works on memory that Close has freed and no Close frees it twice
\* (uuid7.go:46), whichever goroutine closes and whichever are waiting.
NoUseAfterFree ==
  freed => At(Body) = {} /\ (ptr # "nil" => At({"destroyed"}) # {})

\* A goroutine that comes back with its zeroed buffer untouched was late: the
\* generator was closed.  An open generator answers every call.
ZeroOnlyWhenClosed ==
  \A g \in At({"returned", "unlocked"}) : buf[g] = NoId => freed /\ ptr = "nil"

\* On a clock that is never corrected backward, the identifier a goroutine gets
\* is above the one written last, by whichever goroutine and whether or not it
\* has been returned, and above every one that a goroutine still holds: no two
\* are handed the same, and a call that starts after another has ended sorts
\* behind it (docs/API.md:42, for callers in different goroutines), although
\* each buffer is returned after the mutex is released.
HandedOutInOrder ==
  [][\A g \in Threads :
       buf'[g] \notin {buf[g], NoId} =>
         \A u \in ({last} \cup {buf[h] : h \in Threads}) \ {NoId} :
           Precedes(u, buf'[g])]_vars

\* Every call of Generate and of Close comes back, unless a counter ran out in
\* the last millisecond of the bounded clock.
CallsReturn ==
  \A g \in Threads :
    pc[g] # "idle" ~>
      \/ pc[g] = "idle"
      \/ At({"spin"}) # {} /\ ctx.last_timestamp_ms = MaxTime

\* Generate returns a UUID (bindings/golang/README.md:66).
ReturnsIdentifier == \A g \in At({"unlocked"}) : buf[g] # NoId

=============================================================================
