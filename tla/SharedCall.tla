----------------------------- MODULE SharedCall -----------------------------
(***************************************************************************)
(* uuid7_generate (src/uuid7.c) run by several threads on one context, the *)
(* situation the language bindings create.  What keeps the threads apart,  *)
(* if anything does, is added by the module of each binding.               *)
(*                                                                         *)
(* A call reads the clock, loads the context, stores what it changes in it *)
(* and reads the context back to write the identifier; another thread may  *)
(* run between any two of these.  The machine's accesses are finer still:  *)
(* with a data race the model has some of the outcomes and no others, with *)
(* a lock held over the call there is nothing finer to see.                *)
(***************************************************************************)
EXTENDS Clock, Uuid7Context

CONSTANTS
  Threads,
  NoId     \* the zeroed buffer a caller passes in

ASSUME NoIdAssumption == NoId \notin Identifier \cup Context

VARIABLES
  ctx,   \* the context in memory, NoId before there is one
  pc,    \* where each thread is; the steps of the call are listed in Body
  now,   \* the reading each call works on, 0 when it is done with it
  reg,   \* what each call has loaded of the context, NoId when nothing
  buf,   \* the buffer of each caller
  last   \* history: the identifier written last, by any thread

callVars == <<ctx, pc, now, reg, buf, last>>

\* Inside uuid7_generate, past the null check.
Body == {"load", "store", "spin", "write"}

Goto(t, there) == pc' = [pc EXCEPT ![t] = there]

\* Nobody is in a call.
CallInit ==
  /\ ClockInit
  /\ pc = [t \in Threads |-> "idle"]
  /\ now = [t \in Threads |-> 0]
  /\ reg = [t \in Threads |-> NoId]
  /\ buf = [t \in Threads |-> NoId]
  /\ last = NoId

-----------------------------------------------------------------------------

\* The null check of uuid7_generate: the buffer is left as it was.
ReturnEarly(t) ==
  /\ pc[t] = "enter"
  /\ Goto(t, "returned")
  /\ UNCHANGED <<ctx, now, reg, buf, last>>

\* Past the null check: the clock is read as the argument of the call below.
ReadClock(t) ==
  /\ pc[t] = "enter"
  /\ \E r \in os_time_ms(wall) : now' = [now EXCEPT ![t] = r]
  /\ Goto(t, "load")
  /\ UNCHANGED <<ctx, reg, buf, last>>

Load(t) ==
  /\ pc[t] = "load"
  /\ reg' = [reg EXCEPT ![t] = ctx]
  /\ Goto(t, "store")
  /\ UNCHANGED <<ctx, now, buf, last>>

\* The context in memory once the counters bumped in a register are stored:
\* the timestamp and rand_a_high are not written, counter_high only on a
\* carry.  Threads that race can carry it past HighLimit, up to its 16 bits.
Counted(c, r) ==
  [c EXCEPT !.counter_low  = Bumped(r).counter_low,
            !.counter_high = IF Bumped(r).counter_low = 0
                             THEN Bumped(r).counter_high % (4 * HighLimit)
                             ELSE @]

\* The context is stored: the call is done with its reading and registers.
Done(t) ==
  /\ now' = [now EXCEPT ![t] = 0]
  /\ reg' = [reg EXCEPT ![t] = NoId]
  /\ Goto(t, "write")

\* A new millisecond or a large regression: all four fields are written.
StoreReseeded(t) ==
  /\ pc[t] = "store"
  /\ ~IsSameOrSmallRegress(reg[t], now[t])
  /\ \E d \in Draw : ctx' = Reseeded(now[t], d)
  /\ Done(t)
  /\ UNCHANGED <<buf, last>>

StoreCounted(t) ==
  /\ pc[t] = "store"
  /\ IsSameOrSmallRegress(reg[t], now[t])
  /\ ~IsExhausted(Bumped(reg[t]))
  /\ ctx' = Counted(ctx, reg[t])
  /\ Done(t)
  /\ UNCHANGED <<buf, last>>

StoreExhausted(t) ==
  /\ pc[t] = "store"
  /\ IsSameOrSmallRegress(reg[t], now[t])
  /\ IsExhausted(Bumped(reg[t]))
  /\ ctx' = Counted(ctx, reg[t])
  /\ reg' = [reg EXCEPT ![t] = NoId]
  /\ Goto(t, "spin")
  /\ UNCHANGED <<now, buf, last>>

\* The loop compares with the timestamp in memory.
SpinAgain(t) ==
  /\ pc[t] = "spin"
  /\ ctx.last_timestamp_ms \in os_time_ms(wall)
  /\ UNCHANGED callVars

SpinExit(t) ==
  /\ pc[t] = "spin"
  /\ \E r \in os_time_ms(wall), d \in Draw :
       /\ r # ctx.last_timestamp_ms
       /\ ctx' = Reseeded(r, d)
  /\ Done(t)
  /\ UNCHANGED <<buf, last>>

\* Mutant: the call is handed a copy of the caller's buffer.
WriteLost(t) ==
  /\ pc[t] = "write"
  /\ last' = Serialised(ctx)
  /\ Goto(t, "returned")
  /\ UNCHANGED <<ctx, now, reg, buf>>

\* Serialisation reads the context back from memory.
Write(t) ==
  /\ pc[t] = "write"
  /\ buf' = [buf EXCEPT ![t] = Serialised(ctx)]
  /\ last' = Serialised(ctx)
  /\ Goto(t, "returned")
  /\ UNCHANGED <<ctx, now, reg>>

\* The call from its first load to its last store.
Run(t) ==
  \/ Load(t) \/ StoreReseeded(t) \/ StoreCounted(t) \/ StoreExhausted(t)
  \/ SpinAgain(t) \/ SpinExit(t) \/ Write(t)

=============================================================================
