---------------------------- MODULE GoGenerator ----------------------------
(***************************************************************************)
(* A *Generator of the Go binding (bindings/golang/uuid7.go) used by       *)
(* several goroutines: each may call Generate and Close at any time, and a *)
(* sync.Mutex is meant to make the C library see one call at a time.       *)
(***************************************************************************)
EXTENDS SharedCall

CONSTANT Nobody

ASSUME NobodyAssumption == Nobody \notin Threads

VARIABLES
  mu,     \* the goroutine that holds g.mu
  ptr,    \* g.ctx: "ctx", or "nil" once closed
  freed   \* the context's memory has been given back

goVars == <<mu, ptr, freed>>
vars == <<wall, peak, callVars, goVars>>

\* Between Lock and Unlock in Generate and in Close.
Generating == Body \cup {"enter", "returned"}
Closing == {"close", "destroyed", "closed"}

TypeOK ==
  /\ ClockTypeOK
  /\ ctx \in Context
  /\ pc \in [Threads -> {"idle", "lock", "unlocked", "closelock"}
                          \cup Generating \cup Closing]
  /\ now \in [Threads -> 0..MaxTime]
  /\ reg \in [Threads -> Context \cup {NoId}]
  /\ buf \in [Threads -> Identifier \cup {NoId}]
  /\ last \in Identifier \cup {NoId}
  /\ mu \in Threads \cup {Nobody}
  /\ ptr \in {"ctx", "nil"}
  /\ freed \in BOOLEAN

-----------------------------------------------------------------------------

\* NewGenerator succeeded: its context is initialised and handed out.
Init ==
  /\ CallInit
  /\ \E r \in os_time_ms(wall), d \in Draw : ctx = Reseeded(r, d)
  /\ mu = Nobody
  /\ ptr = "ctx"
  /\ freed = FALSE

\* Generate is entered; its buffer is zeroed.
Generate(g) ==
  /\ pc[g] = "idle"
  /\ Goto(g, "lock")
  /\ UNCHANGED <<ctx, now, reg, buf, last, goVars>>

\* Mutant: Generate does not wait for the mutex.
LockIgnored(g) ==
  /\ pc[g] = "lock"
  /\ mu' = g
  /\ Goto(g, "enter")
  /\ UNCHANGED <<ctx, now, reg, buf, last, ptr, freed>>

Lock(g) ==
  /\ pc[g] = "lock"
  /\ mu = Nobody
  /\ mu' = g
  /\ Goto(g, "enter")
  /\ UNCHANGED <<ctx, now, reg, buf, last, ptr, freed>>

\* The C call, handed g.ctx as it is now.
CallC(g) ==
  /\ \/ ptr = "nil" /\ ReturnEarly(g)
     \/ ptr # "nil" /\ ReadClock(g)
     \/ Run(g)
  /\ UNCHANGED goVars

Unlock(g) ==
  /\ pc[g] = "returned"
  /\ mu' = Nobody
  /\ Goto(g, "unlocked")
  /\ UNCHANGED <<ctx, now, reg, buf, last, ptr, freed>>

\* Generate returns the buffer, after the mutex is released; the next call
\* has a new one.
Deliver(g) ==
  /\ pc[g] = "unlocked"
  /\ buf' = [buf EXCEPT ![g] = NoId]
  /\ Goto(g, "idle")
  /\ UNCHANGED <<ctx, now, reg, last, goVars>>

Close(g) ==
  /\ pc[g] = "idle"
  /\ Goto(g, "closelock")
  /\ UNCHANGED <<ctx, now, reg, buf, last, goVars>>

\* Mutant: Close does not wait for the mutex.
LockCloseIgnored(g) ==
  /\ pc[g] = "closelock"
  /\ mu' = g
  /\ Goto(g, "close")
  /\ UNCHANGED <<ctx, now, reg, buf, last, ptr, freed>>

LockClose(g) ==
  /\ pc[g] = "closelock"
  /\ mu = Nobody
  /\ mu' = g
  /\ Goto(g, "close")
  /\ UNCHANGED <<ctx, now, reg, buf, last, ptr, freed>>

\* uuid7_destroy; what freed memory holds is not modelled, only that it is.
Destroy(g) ==
  /\ pc[g] = "close"
  /\ ptr # "nil"
  /\ freed' = TRUE
  /\ Goto(g, "destroyed")
  /\ UNCHANGED <<ctx, now, reg, buf, last, mu, ptr>>

\* Mutant: the pointer is kept.
PointerKept(g) ==
  /\ pc[g] = "destroyed"
  /\ Goto(g, "closed")
  /\ UNCHANGED <<ctx, now, reg, buf, last, mu, ptr, freed>>

ClearPointer(g) ==
  /\ pc[g] = "destroyed"
  /\ ptr' = "nil"
  /\ Goto(g, "closed")
  /\ UNCHANGED <<ctx, now, reg, buf, last, mu, freed>>

\* A second Close finds nothing to destroy.
AlreadyClosed(g) ==
  /\ pc[g] = "close"
  /\ ptr = "nil"
  /\ Goto(g, "closed")
  /\ UNCHANGED <<ctx, now, reg, buf, last, goVars>>

\* Mutant: Close returns early without its deferred Unlock.
UnlockForgotten(g) ==
  /\ pc[g] = "closed"
  /\ Goto(g, "idle")
  /\ UNCHANGED <<ctx, now, reg, buf, last, goVars>>

\* The deferred Unlock of Close.
UnlockClose(g) ==
  /\ pc[g] = "closed"
  /\ mu' = Nobody
  /\ Goto(g, "idle")
  /\ UNCHANGED <<ctx, now, reg, buf, last, ptr, freed>>

\* Everything a goroutine does after it has entered Generate or Close.
Proceed(g) ==
  \/ CallC(g) \/ Unlock(g) \/ Deliver(g)
  \/ Destroy(g) \/ ClearPointer(g) \/ AlreadyClosed(g) \/ UnlockClose(g)

Goroutine(g) ==
  \/ Generate(g) \/ Lock(g) \/ Close(g) \/ LockClose(g) \/ Proceed(g)

Next ==
  \/ (\E g \in Threads : Goroutine(g)) /\ UNCHANGED <<wall, peak>>
  \/ ClockNext /\ UNCHANGED <<callVars, goVars>>

Spec == Init /\ [][Next]_vars

\* Goroutines that run keep running, a waiting one gets the mutex in the end
\* (a sync.Mutex passes over nobody for ever) and time keeps passing.
Fairness ==
  /\ \A g \in Threads :
       /\ WF_vars(Proceed(g) /\ UNCHANGED <<wall, peak>>)
       /\ SF_vars((Lock(g) \/ LockClose(g)) /\ UNCHANGED <<wall, peak>>)
  /\ WF_vars(Advance /\ UNCHANGED <<callVars, goVars>>)

FairSpec == Spec /\ Fairness

=============================================================================
