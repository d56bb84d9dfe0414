-------------------------- MODULE DefaultGenerator --------------------------
(***************************************************************************)
(* The generator behind the module-level functions of the Python, Go and   *)
(* Rust bindings, called by several threads: created by the first of them  *)
(* and then used by all.                                                   *)
(*                                                                         *)
(* All three look whether it is there without a lock, and once more with   *)
(* one held: Python in its own code, Go inside sync.Once and Rust inside   *)
(* OnceLock, which are modelled by what they do.  They part where the      *)
(* creation fails and in what protects the calls that follow: a mutex in   *)
(* Go and Rust, and nothing in Python, whose cffi gives up the interpreter *)
(* lock around a call into the C library.                                  *)
(***************************************************************************)
EXTENDS SharedCall

CONSTANTS
  Bindings,     \* the bindings a run is about
  Nobody,
  MaxFailures   \* bound: how often uuid7_create may fail

ASSUME BindingsAssumption == Bindings \subseteq {"python", "go", "rust"}

ASSUME NobodyAssumption == Nobody \notin Threads

ASSUME FailuresAssumption == MaxFailures \in Nat

VARIABLES
  binding,      \* the one that is running
  lock,         \* who holds the lock over the creation
  done,         \* what the first check looks at
  default_gen,  \* the generator has been assigned
  mu,           \* who holds the mutex of the generator
  made,         \* history: how many contexts uuid7_create has returned
  failures      \* history: how often it has returned NULL

onceVars == <<lock, done, default_gen>>
history == <<made, failures>>
defaultVars == <<binding, onceVars, mu, history>>
vars == <<wall, peak, callVars, defaultVars>>

-----------------------------------------------------------------------------

\* The binding has been loaded; there is no generator yet.
Init ==
  /\ CallInit
  /\ ctx = NoId
  /\ binding \in Bindings
  /\ lock = Nobody /\ done = FALSE /\ default_gen = FALSE
  /\ mu = Nobody
  /\ made = 0 /\ failures = 0

\* The first check, without the lock.
Check(t) ==
  /\ pc[t] = "idle"
  /\ Goto(t, IF done THEN "ready" ELSE "acquire")
  /\ UNCHANGED <<ctx, now, reg, buf, last, defaultVars>>

Acquire(t) ==
  /\ pc[t] = "acquire"
  /\ lock = Nobody
  /\ lock' = t
  /\ Goto(t, "recheck")
  /\ UNCHANGED <<ctx, now, reg, buf, last, binding, done, default_gen, mu, history>>

\* The second check, with the lock: somebody else was first.
FoundDone(t) ==
  /\ pc[t] = "recheck"
  /\ done
  /\ Goto(t, "release")
  /\ UNCHANGED <<ctx, now, reg, buf, last, defaultVars>>

\* Mutant: the second check is left out.
CreateUnchecked(t) ==
  /\ pc[t] = "recheck"
  /\ \E r \in os_time_ms(wall), d \in Draw : ctx' = Reseeded(r, d)
  /\ made' = made + 1
  /\ Goto(t, "created")
  /\ UNCHANGED <<now, reg, buf, last, binding, onceVars, mu, failures>>

\* uuid7_create returns an initialised context.
Create(t) ==
  /\ pc[t] = "recheck"
  /\ ~done
  /\ \E r \in os_time_ms(wall), d \in Draw : ctx' = Reseeded(r, d)
  /\ made' = made + 1
  /\ Goto(t, "created")
  /\ UNCHANGED <<now, reg, buf, last, binding, onceVars, mu, failures>>

\* Python: the assignment is what the first check of others looks at.
Publish(t) ==
  /\ pc[t] = "created" /\ binding = "python"
  /\ default_gen' = TRUE
  /\ done' = TRUE
  /\ Goto(t, "release")
  /\ UNCHANGED <<ctx, now, reg, buf, last, binding, lock, mu, history>>

\* Go and Rust: the generator is in its place, the Once is not done.
Assign(t) ==
  /\ pc[t] = "created" /\ binding # "python"
  /\ default_gen' = TRUE
  /\ Goto(t, "assigned")
  /\ UNCHANGED <<ctx, now, reg, buf, last, binding, lock, done, mu, history>>

\* Go and Rust: the function has returned.
Complete(t) ==
  /\ pc[t] = "assigned"
  /\ done' = TRUE
  /\ Goto(t, "release")
  /\ UNCHANGED <<ctx, now, reg, buf, last, binding, lock, default_gen, mu, history>>

\* The lock is given back.
Release(t) ==
  /\ pc[t] = "release"
  /\ lock' = Nobody
  /\ Goto(t, "ready")
  /\ UNCHANGED <<ctx, now, reg, buf, last, binding, done, default_gen, mu, history>>

-----------------------------------------------------------------------------

\* uuid7_create returns NULL.
CreateFails(t) ==
  /\ pc[t] = "recheck"
  /\ ~done
  /\ failures < MaxFailures
  /\ failures' = failures + 1
  /\ UNCHANGED <<ctx, now, reg, buf, last, binding, default_gen, mu, made>>

\* Mutant: the exception leaves the lock held.
MemoryErrorHolding(t) ==
  /\ binding = "python"
  /\ CreateFails(t)
  /\ Goto(t, "idle")
  /\ UNCHANGED <<lock, done>>

\* Python: MemoryError leaves the with block, which gives the lock back, and
\* the call.
MemoryError(t) ==
  /\ binding = "python"
  /\ CreateFails(t)
  /\ lock' = Nobody
  /\ Goto(t, "idle")
  /\ UNCHANGED done

\* Mutant: OnceLock counts the attempt, as sync.Once does.
ClosurePanicsForGood(t) ==
  /\ binding = "rust"
  /\ CreateFails(t)
  /\ lock' = Nobody
  /\ done' = TRUE
  /\ Goto(t, "idle")

\* Rust: expect panics in the closure; OnceLock stays empty and lets the next
\* caller try.
ClosurePanics(t) ==
  /\ binding = "rust"
  /\ CreateFails(t)
  /\ lock' = Nobody
  /\ Goto(t, "idle")
  /\ UNCHANGED done

\* Go: the function panics; sync.Once defers both that it is done and its
\* unlocking.
OncePanics(t) ==
  /\ binding = "go"
  /\ CreateFails(t)
  /\ done' = TRUE
  /\ Goto(t, "unwinding")
  /\ UNCHANGED lock

\* The panic leaves the call; the program goes on if the caller recovers it.
Unwind(t) ==
  /\ pc[t] = "unwinding"
  /\ lock' = Nobody
  /\ Goto(t, "idle")
  /\ UNCHANGED <<ctx, now, reg, buf, last, binding, done, default_gen, mu, history>>

\* The method is called on a generator that is not there: another panic.
NilPanics(t) ==
  /\ pc[t] = "ready"
  /\ ~default_gen
  /\ Goto(t, "idle")
  /\ UNCHANGED <<ctx, now, reg, buf, last, defaultVars>>

-----------------------------------------------------------------------------

\* Mutant: the method of Go and Rust does not wait for the mutex.
EnterUnlocked(t) ==
  /\ pc[t] = "ready"
  /\ default_gen
  /\ Goto(t, "enter")
  /\ UNCHANGED <<ctx, now, reg, buf, last, defaultVars>>

\* generate() of the default generator, in Go and Rust with its mutex held.
Enter(t) ==
  /\ pc[t] = "ready"
  /\ default_gen
  /\ IF binding = "python" THEN UNCHANGED mu ELSE mu = Nobody /\ mu' = t
  /\ Goto(t, "enter")
  /\ UNCHANGED <<ctx, now, reg, buf, last, binding, onceVars, history>>

\* The C call, on the one context.
CallC(t) ==
  /\ ReadClock(t) \/ Run(t)
  /\ UNCHANGED defaultVars

\* Go and Rust: the mutex is given back.
Unlock(t) ==
  /\ pc[t] = "returned" /\ binding # "python"
  /\ mu' = Nobody
  /\ Goto(t, "unlocked")
  /\ UNCHANGED <<ctx, now, reg, buf, last, binding, onceVars, history>>

\* The bytes are handed to the caller; the next call has a new buffer.
Deliver(t) ==
  /\ pc[t] = IF binding = "python" THEN "returned" ELSE "unlocked"
  /\ buf' = [buf EXCEPT ![t] = NoId]
  /\ Goto(t, "idle")
  /\ UNCHANGED <<ctx, now, reg, last, defaultVars>>

\* Everything a thread does once it has entered generate().
Proceed(t) ==
  \/ Acquire(t) \/ FoundDone(t) \/ Create(t) \/ Publish(t) \/ Assign(t)
  \/ Complete(t) \/ Release(t) \/ MemoryError(t) \/ ClosurePanics(t)
  \/ OncePanics(t) \/ Unwind(t) \/ NilPanics(t) \/ Enter(t) \/ CallC(t)
  \/ Unlock(t) \/ Deliver(t)

Next ==
  \/ (\E t \in Threads : Check(t) \/ Proceed(t)) /\ UNCHANGED <<wall, peak>>
  \/ ClockNext /\ UNCHANGED <<callVars, defaultVars>>

Spec == Init /\ [][Next]_vars

\* A thread inside generate() keeps running, a goroutine gets a mutex that is
\* free again and again in the end, and time keeps passing.  Python's lock and
\* those of the Onces are taken a bounded number of times and need no more;
\* Rust's Mutex promises no more.
Fairness ==
  /\ \A t \in Threads :
       /\ WF_vars(Proceed(t) /\ UNCHANGED <<wall, peak>>)
       /\ SF_vars(binding = "go" /\ Enter(t) /\ UNCHANGED <<wall, peak>>)
  /\ WF_vars(Advance /\ UNCHANGED <<callVars, defaultVars>>)

FairSpec == Spec /\ Fairness

=============================================================================
