---------------------------- MODULE DefaultProofs ----------------------------
(***************************************************************************)
(* The default generators of Python, Go and Rust, for any number of        *)
(* threads and of failed creations.                                        *)
(*                                                                         *)
(* Creation follows the one context from the step that makes it, seen only *)
(* by the holder of the lock, to the step that shows it to everyone.       *)
(* Calls is what the mutex adds in Go and Rust: that a thread in the C     *)
(* call is alone in it and works on the context as it is.                  *)
(***************************************************************************)
EXTENDS DefaultOrdering, SharedViewProofs, TLAPS

\* Under the lock over the creation.
Creating == {"recheck", "created", "assigned", "release", "unwinding"}

\* Under the mutex of the generator.
InCall == Body \cup {"enter", "returned"}

DefTypeOK ==
  /\ pc \in [Threads -> {"idle", "acquire", "ready", "unlocked"} \cup Creating \cup InCall]
  /\ binding \in {"python", "go", "rust"}
  /\ done \in BOOLEAN /\ default_gen \in BOOLEAN
  /\ made \in Nat /\ failures \in Nat

Creation ==
  /\ \A t \in Threads : pc[t] \in Creating => lock = t
  /\ default_gen => made = 1
  /\ done => default_gen \/ binding = "go"
  /\ made = 0 \/ made = 1
  /\ made # 0 /\ ~done => \E t \in Threads : pc[t] \in {"created", "assigned"}
  /\ \A t \in Threads :
       /\ pc[t] = "created" => made = 1 /\ ~default_gen /\ ~done
       /\ pc[t] = "assigned" => default_gen /\ ~done
       /\ pc[t] \in {"release", "ready", "unwinding"} => done
       /\ pc[t] \in InCall => default_gen /\ done
  /\ binding = "go" /\ failures # 0 => failures = 1 /\ made = 0 /\ done

Calls ==
  /\ ClockTypeOK
  /\ now \in [Threads -> 0..MaxTime]
  /\ reg \in [Threads -> Context \cup {NoId}]
  /\ made # 0 => ctx \in Context
  /\ made = 0 => ctx = NoId /\ last = NoId
  /\ \A t \in Threads : pc[t] \in InCall => mu = t
  /\ \A t \in Threads : pc[t] = "store" => reg[t] = ctx
  /\ made # 0 => ctx.counter_high < HighLimit \/ \E t \in Threads : pc[t] = "spin"

DefInv == DefTypeOK /\ Creation /\ (binding # "python" => Calls)

-----------------------------------------------------------------------------

LEMMA DefInit == Init => DefInv
<1> SUFFICES ASSUME Init PROVE DefInv
  OBVIOUS
<1>1. wall \in 0..MaxTime /\ peak = wall /\ 0 \in 0..MaxTime
  BY ClockAssumption DEF Init, CallInit, ClockInit
<1>2. pc = [t \in Threads |-> "idle"] /\ made = 0 /\ failures = 0
  BY DEF Init, CallInit
<1>3. binding \in {"python", "go", "rust"}
  BY BindingsAssumption DEF Init
<1>a. done \in BOOLEAN /\ default_gen \in BOOLEAN
  BY Zenon DEF Init
<1>4. DefTypeOK
  BY <1>2, <1>3, <1>a DEF DefTypeOK
<1>5. Creation
  BY <1>2 DEF Init, Creation, Creating, InCall, Body
<1>6. Calls
  BY <1>1, <1>2 DEF Init, CallInit, Calls, ClockTypeOK, InCall, Body
<1> QED
  BY <1>4, <1>5, <1>6 DEF DefInv

\* Nobody makes a second context or sees one that is not complete.
LEMMA CreationStep ==
  ASSUME DefTypeOK, Creation, NEW t \in Threads, Check(t) \/ Proceed(t)
  PROVE  DefTypeOK' /\ Creation'
<1> USE NobodyAssumption
    DEF DefTypeOK, Creation, Creating, InCall, Body, Goto, defaultVars, onceVars,
        history, callVars
<1>1. CASE Check(t)
  BY <1>1 DEF Check
<1>2. CASE Acquire(t)
  BY <1>2 DEF Acquire
<1>3. CASE FoundDone(t)
  BY <1>3 DEF FoundDone
<1>4. CASE Create(t)
  BY <1>4 DEF Create
<1>5. CASE Publish(t)
  BY <1>5 DEF Publish
<1>6. CASE Assign(t)
  BY <1>6 DEF Assign
<1>7. CASE Complete(t)
  BY <1>7 DEF Complete
<1>8. CASE Release(t)
  BY <1>8 DEF Release
<1>9. CASE MemoryError(t) \/ ClosurePanics(t)
  BY <1>9 DEF MemoryError, ClosurePanics, CreateFails
<1>10. CASE OncePanics(t)
  BY <1>10 DEF OncePanics, CreateFails
<1>11. CASE Unwind(t)
  BY <1>11 DEF Unwind
<1>12. CASE NilPanics(t)
  BY <1>12 DEF NilPanics
<1>13. CASE Enter(t)
  BY <1>13 DEF Enter
<1>14. CASE CallC(t)
  <2>1. CASE ReadClock(t)
    BY <1>14, <2>1 DEF CallC, ReadClock
  <2>2. CASE Run(t)
    BY <1>14, <2>2
       DEF CallC, Run, Load, StoreReseeded, StoreCounted, StoreExhausted,
           SpinAgain, SpinExit, Write, Done
  <2> QED
    BY <1>14, <2>1, <2>2 DEF CallC
<1>15. CASE Unlock(t) \/ Deliver(t)
  BY <1>15 DEF Unlock, Deliver
<1> QED
  BY <1>1, <1>2, <1>3, <1>4, <1>5, <1>6, <1>7, <1>8, <1>9, <1>10, <1>11, <1>12,
     <1>13, <1>14, <1>15 DEF Proceed

\* The steps around the C call that leave context and registers alone.
Around(t) ==
  \/ Check(t) \/ Acquire(t) \/ FoundDone(t) \/ Publish(t) \/ Assign(t)
  \/ Complete(t) \/ Release(t) \/ MemoryError(t) \/ ClosurePanics(t)
  \/ OncePanics(t) \/ Unwind(t) \/ NilPanics(t) \/ Enter(t) \/ Unlock(t) \/ Deliver(t)

LEMMA AroundFrame ==
  ASSUME DefTypeOK, NEW t \in Threads, Around(t)
  PROVE  /\ UNCHANGED <<ctx, now, reg, last, made>>
         /\ \A u \in Threads : u # t => pc'[u] = pc[u]
         /\ {pc[t], pc'[t]} \cap Body = {}
         /\ pc'[t] \in InCall => pc[t] = "ready" /\ Enter(t)
         /\ Enter(t) \/ Unlock(t) \/ UNCHANGED mu
  BY DEF Around, DefTypeOK, Check, Acquire, FoundDone, Publish, Assign, Complete,
         Release, MemoryError, ClosurePanics, OncePanics, CreateFails, Unwind,
         NilPanics, Enter, Unlock, Deliver, Goto, Body, InCall, Creating, defaultVars, onceVars,
         history

\* With a mutex over the C call, whoever is in it is alone.
LEMMA CallsAround ==
  ASSUME DefTypeOK, Calls, binding # "python", NEW t \in Threads, Around(t),
         UNCHANGED <<wall, peak>>
  PROVE  Calls'
<1>1. /\ UNCHANGED <<ctx, now, reg, last, made>>
      /\ \A u \in Threads : u # t => pc'[u] = pc[u]
      /\ {pc[t], pc'[t]} \cap Body = {}
      /\ pc'[t] \in InCall => pc[t] = "ready" /\ Enter(t)
      /\ Enter(t) \/ Unlock(t) \/ UNCHANGED mu
  BY AroundFrame
<1>2. \A u \in Threads : pc'[u] \in InCall => mu' = u
  <2>1. CASE Enter(t)
    BY <1>1, <2>1, NobodyAssumption DEF Enter, Calls
  <2>2. CASE Unlock(t)
    BY <1>1, <2>2 DEF Unlock, Calls, InCall, Goto, DefTypeOK
  <2>3. CASE UNCHANGED mu /\ ~Enter(t)
    BY <1>1, <2>3 DEF Calls
  <2> QED
    BY <1>1, <2>1, <2>2, <2>3
<1>3. \A u \in Threads : pc'[u] = "store" => reg'[u] = ctx'
  BY <1>1 DEF Calls, Body
<1>4. (\E u \in Threads : pc[u] = "spin") => \E u \in Threads : pc'[u] = "spin"
  BY <1>1 DEF Body
<1> QED
  BY <1>1, <1>2, <1>3, <1>4 DEF Calls, ClockTypeOK

LEMMA CallsCreate ==
  ASSUME DefTypeOK, Creation, Calls, NEW t \in Threads, Create(t),
         UNCHANGED <<wall, peak>>
  PROVE  Calls'
<1>1. PICK r \in os_time_ms(wall), d \in Draw : ctx' = Reseeded(r, d)
  BY DEF Create
<1>2. ctx' \in Context /\ ctx'.counter_high < HighLimit
  BY <1>1, ReadingBounds, ReseededType, ClockAssumption DEF Calls, ClockTypeOK
<1>3. \A u \in Threads : pc[u] \notin InCall /\ pc'[u] \notin InCall
  BY DEF Create, Creation, Goto, DefTypeOK, InCall, Body
<1> QED
  BY <1>2, <1>3 DEF Create, Calls, ClockTypeOK, DefTypeOK, InCall, Body, onceVars

LEMMA CallsInside ==
  ASSUME DefTypeOK, Creation, Calls, NEW t \in Threads, CallC(t),
         UNCHANGED <<wall, peak>>
  PROVE  Calls'
<1>a. /\ wall \in Nat /\ \A r \in os_time_ms(wall) : r \in 0..MaxTime /\ r \in Nat
      /\ 0 \in 0..MaxTime /\ 0..MaxTime \subseteq Nat
  BY ReadingBounds, ClockAssumption DEF Calls, ClockTypeOK
<1>b. pc[t] \in InCall /\ UNCHANGED <<made, mu>>
  BY DEF CallC, ReadClock, Run, Load, StoreReseeded, StoreCounted, StoreExhausted,
         SpinAgain, SpinExit, Write, InCall, Body, defaultVars, history
<1>c. made # 0 /\ ctx \in Context
  BY <1>b DEF Creation, Calls
<1>d. \A u \in Threads : pc[u] \in InCall => u = t
  BY <1>b DEF Calls
<1>e. pc[t] = "store" => reg[t] = ctx /\ ctx.counter_high < HighLimit
  BY <1>c, <1>d DEF Calls, InCall, Body
<1> USE DEF Goto, DefTypeOK, Calls, ClockTypeOK, InCall, Body
<1>1. CASE ReadClock(t)
  BY <1>1, <1>a, <1>b, <1>d DEF ReadClock
<1>2. CASE Load(t)
  BY <1>2, <1>b, <1>d DEF Load
<1>3. CASE SpinAgain(t)
  BY <1>3, <1>b DEF SpinAgain, callVars
<1>4. CASE Write(t)
  BY <1>4, <1>b, <1>c, <1>d DEF Write
<1>5. CASE StoreReseeded(t) \/ SpinExit(t) \/ StoreCounted(t)
  <2>1. ctx' \in Context /\ ctx'.counter_high < HighLimit
    <3>1. CASE StoreReseeded(t)
      BY <1>a, <3>1, ReseededType DEF StoreReseeded
    <3>2. CASE SpinExit(t)
      BY <1>a, <3>2, ReseededType DEF SpinExit
    <3>3. CASE StoreCounted(t)
      BY <1>c, <1>e, <3>3, CountedIsBumped, BumpedType DEF StoreCounted
    <3> QED
      BY <1>5, <3>1, <3>2, <3>3
  <2>2. Done(t) /\ UNCHANGED <<buf, last>>
    BY <1>5 DEF StoreReseeded, SpinExit, StoreCounted
  <2> QED
    BY <1>a, <1>b, <1>c, <1>d, <2>1, <2>2 DEF Done
<1>6. CASE StoreExhausted(t)
  <2>1. ctx' \in Context
    BY <1>6, <1>c, <1>e, CountedIsBumped, BumpedType DEF StoreExhausted
  <2> QED
    BY <1>6, <1>b, <1>c, <1>d, <2>1 DEF StoreExhausted
<1> QED
  BY <1>1, <1>2, <1>3, <1>4, <1>5, <1>6 DEF CallC, Run

LEMMA DefStep == DefInv /\ [Next]_vars => DefInv'
<1> SUFFICES ASSUME DefInv, [Next]_vars PROVE DefInv'
  OBVIOUS
<1>1. ASSUME NEW t \in Threads, Check(t) \/ Proceed(t), UNCHANGED <<wall, peak>>
      PROVE  DefInv'
  <2>1. DefTypeOK' /\ Creation'
    BY <1>1, CreationStep DEF DefInv
  <2>2. binding' = binding
    BY <1>1 DEF Check, Proceed, Acquire, FoundDone, Create, Publish, Assign, Complete,
                Release, MemoryError, ClosurePanics, OncePanics, CreateFails, Unwind,
                NilPanics, Enter, CallC, Unlock, Deliver, defaultVars
  <2>3. ASSUME binding # "python"
        PROVE  Calls'
    <3>1. Create(t) \/ CallC(t) \/ Around(t)
      BY <1>1 DEF Proceed, Around
    <3> QED
      BY <1>1, <2>3, <3>1, CallsCreate, CallsInside, CallsAround DEF DefInv
  <2> QED
    BY <2>1, <2>2, <2>3 DEF DefInv
<1>2. ASSUME ClockTypeOK => ClockTypeOK', UNCHANGED <<callVars, defaultVars>>
      PROVE  DefInv'
  <2> USE DEF callVars, defaultVars, onceVars, history
  <2>1. DefTypeOK' /\ Creation'
    BY <1>2 DEF DefInv, DefTypeOK, Creation
  <2>2. Calls => Calls'
    BY <1>2 DEF Calls
  <2> QED
    BY <1>2, <2>1, <2>2 DEF DefInv
<1>3. CASE ClockNext /\ UNCHANGED <<callVars, defaultVars>>
  <2>1. ClockTypeOK => ClockTypeOK'
    BY <1>3, ClockAssumption DEF ClockTypeOK, ClockNext, Advance, StepBack
  <2> QED
    BY <1>2, <1>3, <2>1
<1>4. CASE UNCHANGED vars
  BY <1>2, <1>4 DEF vars, ClockTypeOK
<1> QED
  BY <1>1, <1>3, <1>4 DEF Next

\* Creation and use of the default generator, in every state of every run.
THEOREM DefInvariance == Spec => []DefInv
  BY DefInit, DefStep, PTL DEF Spec

\* However threads race through the two checks, they end up with one context.
THEOREM DefOneDefault == Spec => []OneDefault
<1>1. DefInv => OneDefault
  BY DEF DefInv, DefTypeOK, Creation, InCall, OneDefault
<1> QED
  BY <1>1, DefInvariance, PTL

-----------------------------------------------------------------------------

\* Outside the C call nothing is seen to happen.
LEMMA AroundSeen ==
  ASSUME DefInv, NEW t \in Threads, Around(t)
  PROVE  UNCHANGED <<ctx, SeqPc, SeqNow, SeqOut>>
<1>1. /\ UNCHANGED <<ctx, now, reg, last, made>>
      /\ \A u \in Threads : u # t => pc'[u] = pc[u]
      /\ {pc[t], pc'[t]} \cap Body = {}
  BY AroundFrame DEF DefInv
<1> QED
  BY <1>1, Unseen

\* The step that makes the context is the start of a sequential generator.
LEMMA CreateSeen ==
  ASSUME DefInv, DefInv', binding # "python", NEW t \in Threads, Create(t)
  PROVE  /\ ctx = NoId
         /\ \E r \in os_time_ms(wall), d \in Draw : ctx' = Reseeded(r, d)
         /\ SeqPc' = "idle" /\ SeqNow' = 0 /\ SeqOut' = NoId
<1>1. made = 0 /\ ctx = NoId /\ last' = NoId
  BY DEF Create, DefInv, Creation, Calls, DefTypeOK, Creating
<1>2. ~default_gen' 
  BY DEF Create, DefInv, Creation, onceVars
<1>3. \A u \in Threads : pc'[u] \notin Body
  BY <1>2 DEF DefInv, Creation, InCall
<1>4. At({"spin"})' = {} /\ At({"load", "store"})' = {} /\ At({"write"})' = {}
      /\ At({"load", "store", "spin"})' = {}
  BY <1>3 DEF At, Body
<1> QED
  BY <1>1, <1>4 DEF Create, SeqPc, SeqNow, SeqOut

\* The C call of the holder of the mutex is that of the sequential generator.
LEMMA CallSeen ==
  ASSUME DefInv, DefInv', binding # "python", NEW t \in Threads, CallC(t),
         UNCHANGED <<wall, peak>>
  PROVE  ctx # NoId /\ [Seq!Next]_(Seq!vars)
<1>1. /\ pc = [u \in Threads |-> pc[u]] /\ now \in [Threads -> 0..MaxTime]
      /\ binding' = binding
  BY DEF DefInv, DefTypeOK, Calls, CallC, defaultVars
<1>2. pc[t] \in InCall /\ pc'[t] \in InCall /\ (ReadClock(t) \/ Run(t))
  BY <1>1 DEF CallC, ReadClock, Run, Load, StoreReseeded, StoreCounted, StoreExhausted,
              SpinAgain, SpinExit, Write, Done, callVars, Goto, InCall, Body
<1>3. ctx \in Context /\ ctx # NoId
  BY <1>2, NoIdAssumption DEF DefInv, Creation, Calls
<1>4. /\ \A u \in Threads : pc[u] \in Body => u = t
      /\ \A u \in Threads : pc'[u] \in Body => u = t
  BY <1>1, <1>2 DEF DefInv, Calls, InCall
<1>5. pc[t] = "store" =>
        reg[t] = ctx /\ ctx \in Context /\ ctx.counter_high < HighLimit
  BY <1>2, <1>3, <1>4 DEF DefInv, Creation, Calls, Body
<1> QED
  BY <1>1, <1>2, <1>3, <1>4, <1>5, BodySeen

\* In Go and Rust a step leaves the generator unmade, makes it or is one of the
\* sequential generator.
LEMMA DefSeen ==
  ASSUME DefInv, DefInv', [Next]_vars, binding # "python"
  PROVE  \/ ctx = NoId /\ UNCHANGED <<ctx, SeqPc, SeqOut>>
         \/ /\ ctx = NoId
            /\ \E r \in os_time_ms(wall), d \in Draw : ctx' = Reseeded(r, d)
            /\ SeqPc' = "idle" /\ SeqNow' = 0 /\ SeqOut' = NoId
            /\ UNCHANGED <<wall, peak>>
         \/ ctx # NoId /\ (Seq!Next \/ UNCHANGED Seq!vars)
<1> DEFINE Seen ==
      \/ ctx = NoId /\ UNCHANGED <<ctx, SeqPc, SeqOut>>
      \/ /\ ctx = NoId
         /\ \E r \in os_time_ms(wall), d \in Draw : ctx' = Reseeded(r, d)
         /\ SeqPc' = "idle" /\ SeqNow' = 0 /\ SeqOut' = NoId
         /\ UNCHANGED <<wall, peak>>
      \/ ctx # NoId /\ (Seq!Next \/ UNCHANGED Seq!vars)
<1>1. ASSUME NEW t \in Threads, Check(t) \/ Proceed(t), UNCHANGED <<wall, peak>>
      PROVE  Seen
  <2>1. CASE Create(t)
    BY <1>1, <2>1, CreateSeen
  <2>2. CASE CallC(t)
    BY <1>1, <2>2, CallSeen
  <2>3. CASE Around(t)
    BY <1>1, <2>3, AroundSeen DEF Seq!vars
  <2> QED
    BY <1>1, <2>1, <2>2, <2>3 DEF Proceed, Around
<1>2. ASSUME UNCHANGED callVars
      PROVE  UNCHANGED <<ctx, SeqPc, SeqNow, SeqOut>>
  BY <1>2, Unseen DEF callVars
<1>3. CASE ClockNext /\ UNCHANGED <<callVars, defaultVars>>
  <2>1. UNCHANGED <<ctx, SeqPc, SeqNow, SeqOut>>
    BY <1>2, <1>3
  <2>2. Seq!ClockNext
    BY <1>3 DEF ClockNext, Advance, StepBack, Seq!ClockNext, Seq!Advance, Seq!StepBack
  <2> QED
    BY <2>1, <2>2 DEF Seq!Next, Seq!genVars
<1>4. CASE UNCHANGED vars
  <2>1. UNCHANGED callVars /\ UNCHANGED <<wall, peak>>
    BY <1>4 DEF vars
  <2> QED
    BY <1>2, <2>1 DEF Seq!vars
<1> QED
  BY <1>1, <1>3, <1>4 DEF Next

\* In Go and Rust, whatever is known of the sequential generator holds of the
\* default one, for any number of threads.
THEOREM DefSequential == Spec => LockedIsSequential
<1>1. DefInv /\ DefInv' /\ [Next]_vars =>
        [binding # "python" =>
           \/ ctx = NoId /\ UNCHANGED <<ctx, SeqPc, SeqOut>>
           \/ /\ ctx = NoId
              /\ \E r \in os_time_ms(wall), d \in Draw : ctx' = Reseeded(r, d)
              /\ SeqPc' = "idle" /\ SeqOut' = NoId
           \/ ctx # NoId /\ (Seq!Next \/ UNCHANGED Seq!vars)]_vars
  BY DefSeen
<1> QED
  BY <1>1, DefInvariance, PTL DEF Spec, LockedIsSequential

-----------------------------------------------------------------------------

\* On a steady clock, from the creation on: what is known of one caller, and
\* that the context about to be written is above the identifier before it.
OrderInv ==
  /\ DefInv
  /\ ClockTypeOK /\ wall = peak
  /\ DOMAIN buf = Threads
  /\ binding # "python" /\ ctx # NoId => SeqProofs!SteadyInv
  /\ \A t \in Threads :
       binding # "python" /\ pc[t] = "write" /\ last # NoId =>
         Precedes(last, Serialised(ctx))

LEMMA OrderInit == Init => OrderInv
<1> SUFFICES ASSUME Init PROVE OrderInv
  OBVIOUS
<1>1. ClockTypeOK /\ wall = peak /\ ctx = NoId /\ last = NoId
  BY ClockAssumption DEF Init, CallInit, ClockInit, ClockTypeOK
<1> QED
  BY <1>1, DefInit DEF OrderInv, Init, CallInit

\* The clock stays at its peak and the buffers at their threads.
LEMMA SteadyFrame ==
  ASSUME Steady, OrderInv, [Next]_vars
  PROVE  /\ ClockTypeOK' /\ wall' = peak'
         /\ DOMAIN buf' = Threads
         /\ binding' = binding
<1>1. ASSUME NEW t \in Threads, Check(t) \/ Proceed(t), UNCHANGED <<wall, peak>>
      PROVE  DOMAIN buf' = Threads /\ binding' = binding
  BY <1>1
     DEF OrderInv, Check, Proceed, Acquire, FoundDone, Create, Publish, Assign, Complete,
         Release, MemoryError, ClosurePanics, OncePanics, CreateFails, Unwind,
         NilPanics, Enter, CallC, Unlock, Deliver, ReadClock, Run, Load, StoreReseeded,
         StoreCounted, StoreExhausted, SpinAgain, SpinExit, Write, defaultVars, callVars
<1>2. CASE ClockNext /\ UNCHANGED <<callVars, defaultVars>>
  <2>1. wall \in Nat /\ wall = peak /\ wall \in 0..MaxTime
    BY ClockAssumption DEF OrderInv, ClockTypeOK
  <2>2. Advance
    BY <1>2, <2>1 DEF ClockNext, StepBack, Steady
  <2> QED
    BY <1>2, <2>1, <2>2, ClockAssumption
       DEF Advance, ClockTypeOK, OrderInv, callVars, defaultVars
<1>3. CASE UNCHANGED vars
  BY <1>3 DEF vars, callVars, defaultVars, OrderInv, ClockTypeOK
<1>4. CASE (\E t \in Threads : Check(t) \/ Proceed(t)) /\ UNCHANGED <<wall, peak>>
  BY <1>1, <1>4 DEF OrderInv, ClockTypeOK
<1> QED
  BY <1>2, <1>3, <1>4 DEF Next

LEMMA SteadyKept ==
  ASSUME MaxTime < TsLimit, Steady, OrderInv, DefInv', [Next]_vars,
         binding # "python", ctx' # NoId
  PROVE  SeqProofs!SteadyInv'
<1>1. CASE ctx # NoId /\ (Seq!Next \/ UNCHANGED Seq!vars)
  BY <1>1, SteadyView DEF OrderInv
<1>2. CASE /\ \E r \in os_time_ms(wall), d \in Draw : ctx' = Reseeded(r, d)
           /\ SeqPc' = "idle" /\ SeqNow' = 0 /\ SeqOut' = NoId
           /\ UNCHANGED <<wall, peak>>
  <2>1. PICK r \in os_time_ms(wall), d \in Draw : ctx' = Reseeded(r, d)
    BY <1>2
  <2>2. r \in Seq!os_time_ms(wall) /\ d \in Seq!Draw /\ ctx' = Seq!Reseeded(r, d)
    BY <2>1, SameOperators
  <2>3. Seq!os_time_ms(wall)' = Seq!os_time_ms(wall)
    <3>1. wall' = wall
      BY <1>2
    <3>2. PICK w : w = wall
      OBVIOUS
    <3>3. wall' = w
      BY <3>1, <3>2
    <3>4. Seq!os_time_ms(wall)' = Seq!os_time_ms(w)
      BY <3>3 DEF Seq!os_time_ms, Seq!FloorToSecond
    <3> QED
      BY <3>2, <3>4
  <2>4. Seq!ClockInit'
    BY <1>2 DEF Seq!ClockInit, OrderInv, ClockTypeOK
  <2>5. Seq!Init'
    BY <1>2, <2>2, <2>3, <2>4 DEF Seq!Init
  <2> QED
    BY <2>5, SteadyBegins
<1> QED
  BY <1>1, <1>2, DefSeen DEF OrderInv

\* Where a call's store ends and what a step leaves of one that has yet to
\* write.
LEMMA WriteOnly ==
  ASSUME DefInv, DefInv', [Next]_vars, binding # "python", NEW t \in Threads
  PROVE  /\ pc[t] = "write" /\ pc'[t] # "write" => Write(t)
         /\ pc[t] = "write" /\ pc'[t] = "write" => UNCHANGED <<ctx, last>>
         /\ pc[t] # "write" /\ pc'[t] = "write" =>
              /\ pc[t] \in {"store", "spin"}
              /\ UNCHANGED last
<1>1. /\ pc \in [Threads -> {"idle", "acquire", "ready", "unlocked"} \cup Creating \cup InCall]
      /\ pc[t] \in InCall => done /\ \A u \in Threads : pc[u] \in InCall => u = t
  BY DEF DefInv, DefTypeOK, Creation, Calls
<1>2. ASSUME NEW u \in Threads, Around(u)
      PROVE  UNCHANGED <<ctx, last>> /\ (pc'[t] = pc[t] \/ {pc[t], pc'[t]} \cap Body = {})
  BY <1>2, AroundFrame DEF DefInv
<1>3. ASSUME NEW u \in Threads, Create(u)
      PROVE  ~done /\ UNCHANGED last /\ (pc'[t] = pc[t] \/ {pc[t], pc'[t]} \cap Body = {})
  BY <1>1, <1>3 DEF Create, Goto, Body
<1>4. ASSUME NEW u \in Threads, CallC(u), u = t
      PROVE  /\ pc[t] = "write" => Write(t)
             /\ pc'[t] = "write" => pc[t] \in {"store", "spin"} /\ UNCHANGED last
  BY <1>1, <1>4
     DEF CallC, ReadClock, Run, Load, StoreReseeded, StoreCounted, StoreExhausted,
         SpinAgain, SpinExit, Write, Done, callVars, Goto
<1>5. ASSUME NEW u \in Threads, CallC(u), u # t
      PROVE  pc'[t] = pc[t] /\ pc[u] \in InCall
  BY <1>1, <1>5
     DEF CallC, ReadClock, Run, Load, StoreReseeded, StoreCounted, StoreExhausted,
         SpinAgain, SpinExit, Write, Done, callVars, Goto, InCall, Body
<1>6. Write(t) => pc[t] = "write" /\ pc'[t] # "write"
  BY <1>1 DEF Write, Goto
<1>7. ASSUME NEW u \in Threads, Check(u) \/ Proceed(u)
      PROVE  Create(u) \/ CallC(u) \/ Around(u)
  BY <1>7 DEF Proceed, Around
<1>8. CASE \E u \in Threads : Check(u) \/ Proceed(u)
  <2>1. PICK u \in Threads : Create(u) \/ CallC(u) \/ Around(u)
    BY <1>7, <1>8
  <2>2. CASE Create(u)
    BY <1>1, <1>3, <2>2 DEF InCall, Body
  <2>3. CASE CallC(u) /\ u = t
    BY <1>4, <1>6, <2>3
  <2>4. CASE CallC(u) /\ u # t
    BY <1>1, <1>5, <2>4 DEF InCall, Body
  <2>5. CASE Around(u)
    BY <1>2, <2>5 DEF Body
  <2> QED
    BY <2>1, <2>2, <2>3, <2>4, <2>5
<1>9. CASE UNCHANGED callVars
  BY <1>9 DEF callVars
<1> QED
  BY <1>8, <1>9 DEF Next, vars

LEMMA OrderStep ==
  ASSUME MaxTime < TsLimit, Steady
  PROVE  OrderInv /\ [Next]_vars => OrderInv'
<1> SUFFICES ASSUME OrderInv, [Next]_vars PROVE OrderInv'
  OBVIOUS
<1>1. DefInv /\ DefInv'
  BY DefStep DEF OrderInv
<1>2. ASSUME NEW t \in Threads, binding # "python", pc'[t] = "write", last' # NoId
      PROVE  Precedes(last', Serialised(ctx)')
  <2>1. CASE pc[t] = "write"
    <3>1. UNCHANGED <<ctx, last>>
      BY <1>1, <1>2, <2>1, WriteOnly
    <3> QED
      BY <1>2, <2>1, <3>1 DEF OrderInv, Serialised
  <2>2. CASE pc[t] # "write"
    <3>1. pc[t] \in {"store", "spin"} /\ UNCHANGED last
      BY <1>1, <1>2, <2>2, WriteOnly
    <3>2. /\ \A u \in Threads : pc[u] \in Body => u = t
          /\ \A u \in Threads : pc'[u] \in Body => u = t
          /\ ctx # NoId
      BY <1>1, <1>2, <3>1, SteadyFrame, NoIdAssumption
         DEF OrderInv, DefInv, Creation, Calls, InCall, Body
    <3>3. /\ SeqPc # "idle" /\ SeqPc' = "idle"
          /\ SeqOut = last /\ SeqOut' = Serialised(ctx)'
      BY <1>2, <3>1, <3>2, View, ViewNext DEF PcOf
    <3>4. [Seq!Next]_(Seq!vars) /\ SeqProofs!SteadyInv
      BY <1>1, <1>2, <3>2, DefSeen DEF OrderInv
    <3> QED
      BY <1>2, <3>1, <3>3, <3>4, SteadyView
  <2> QED
    BY <2>1, <2>2
<1> QED
  BY <1>1, <1>2, SteadyFrame, SteadyKept DEF OrderInv

\* On a clock that is never corrected backward, Go's and Rust's functions hand
\* out identifiers in order, whichever threads call them.
THEOREM DefInOrder ==
  ASSUME MaxTime < TsLimit, Steady
  PROVE  Spec => LockedInOrder
<1>1. Spec => []OrderInv
  BY OrderInit, OrderStep, PTL DEF Spec
<1>2. ASSUME OrderInv, DefInv', [Next]_vars, NEW t \in Threads, binding # "python",
             pc[t] = "write", pc'[t] # "write", last # NoId
      PROVE  Precedes(last, buf'[t])
  <2>1. Write(t)
    BY <1>2, WriteOnly DEF OrderInv
  <2>2. buf'[t] = Serialised(ctx)
    BY <1>2, <2>1 DEF Write, OrderInv
  <2> QED
    BY <1>2, <2>2 DEF OrderInv
<1>3. OrderInv /\ DefInv' /\ [Next]_vars =>
        [\A t \in Threads :
           binding # "python" /\ pc[t] = "write" /\ pc'[t] # "write" /\ last # NoId =>
             Precedes(last, buf'[t])]_vars
  BY <1>2
<1> QED
  BY <1>1, <1>3, DefInvariance, PTL DEF Spec, LockedInOrder

=============================================================================
