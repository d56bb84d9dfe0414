--------------------------- MODULE DefaultOrdering ---------------------------
(***************************************************************************)
(* What callers of the module-level functions can rely on: one generator,  *)
(* complete before anybody uses it, and what becomes of a creation that    *)
(* failed.                                                                 *)
(***************************************************************************)
EXTENDS DefaultGenerator, SharedView

\* All threads share one context, complete before any of them uses it, no
\* matter how they race through the two checks and which creations fail: there
\* is never a second one, whose identifiers could repeat or precede its own.
\* sync.Once tries a single time (uuid7.go:62).
OneDefault ==
  /\ made <= 1
  /\ \A t \in Threads :
       pc[t] \in Body \cup {"enter"} => made = 1 /\ default_gen /\ done
  /\ binding = "go" => made + failures <= 1

\* In Go and Rust the default generator is a sequential one from the step that
\* creates it: the mutex, not the Once, makes "safe to use from many threads"
\* true (uuid7.go:60, lib.rs:61).
LockedIsSequential ==
  [][binding # "python" =>
       \/ ctx = NoId /\ UNCHANGED <<ctx, SeqPc, SeqOut>>
       \/ /\ ctx = NoId
          /\ \E r \in os_time_ms(wall), d \in Draw : ctx' = Reseeded(r, d)
          /\ SeqPc' = "idle" /\ SeqOut' = NoId
       \/ ctx # NoId /\ (Seq!Next \/ UNCHANGED Seq!vars)]_vars

\* On a clock that is never corrected backward, what Go's and Rust's functions
\* hand to any thread is above what they handed out before, to whichever thread
\* (docs/API.md:42), from the creation of the generator on.
LockedInOrder ==
  [][\A t \in Threads :
       binding # "python" /\ pc[t] = "write" /\ pc'[t] # "write" /\ last # NoId =>
         Precedes(last, buf'[t])]_vars

\* However many creations fail, a Python or Rust program that goes on calling
\* has its generator once memory is there again (lib.rs:55): a failed creation
\* leaves everything as it found it.
Recovers ==
  binding # "go" /\ []<>(\E t \in Threads : pc[t] # "idle") => <>default_gen

\* A call of generate() comes back, with an identifier, MemoryError or a
\* panic, unless a counter ran out in the last millisecond of the bounded
\* clock.  Rust's Mutex may prefer other threads for ever, but is given back.
CallsReturn ==
  \A t \in Threads :
    pc[t] # "idle" ~>
      \/ pc[t] = "idle"
      \/ At({"spin"}) # {} /\ ctx.last_timestamp_ms = MaxTime
      \/ binding = "rust" /\ pc[t] = "ready" /\ mu = Nobody

=============================================================================
