----------------------------- MODULE GoProofs -----------------------------
(***************************************************************************)
(* Proofs about the Go binding, for any number of goroutines.              *)
(*                                                                         *)
(* None of the properties is inductive alone.  The counters stay in range  *)
(* only because what a goroutine stores was loaded from the context as it  *)
(* still is, which needs the mutex; and that nobody touches freed memory   *)
(* needs to be known of everyone between Lock and Unlock.                  *)
(***************************************************************************)
EXTENDS GoOrdering, SharedViewProofs, TLAPS

\* Between Lock and Unlock there is the holder of the mutex and nobody else.
MutualExclusion ==
  \A g \in Threads : pc[g] \in Generating \cup Closing => mu = g

\* The memory is freed just before the pointer is cleared, and whoever works
\* on it has seen a pointer that is still there.
Lifetime ==
  /\ ptr = "nil" => freed
  /\ freed /\ ptr # "nil" => \E g \in Threads : pc[g] = "destroyed"
  /\ \A g \in Threads : pc[g] \in Body \cup {"destroyed"} => ptr # "nil"
  /\ \A g \in Threads : pc[g] = "destroyed" => freed

\* What a call has loaded is still the context when it stores.
LoadedIsCurrent == \A g \in Threads : pc[g] = "store" => reg[g] = ctx

\* A carry out of counter_high is only there while a call waits for the clock.
CarryOnlyInSpin ==
  ctx.counter_high < HighLimit \/ \E g \in Threads : pc[g] = "spin"

\* A buffer left alone is the mark of a closed generator.
Answered ==
  \A g \in Threads :
    pc[g] \in {"returned", "unlocked"} /\ buf[g] = NoId => ptr = "nil"

GoInv ==
  /\ TypeOK
  /\ MutualExclusion
  /\ Lifetime
  /\ LoadedIsCurrent
  /\ CarryOnlyInSpin
  /\ Answered

-----------------------------------------------------------------------------

LEMMA GoInit == Init => GoInv
<1> SUFFICES ASSUME Init PROVE GoInv
  OBVIOUS
<1>1. PICK r \in os_time_ms(wall), d \in Draw : ctx = Reseeded(r, d)
  BY DEF Init
<1>2. wall \in 0..MaxTime /\ peak = wall /\ 0 \in 0..MaxTime
  BY ClockAssumption DEF Init, CallInit, ClockInit
<1>3. ctx \in Context /\ ctx.counter_high < HighLimit
  BY <1>1, <1>2, ReadingBounds, ReseededType
<1> QED
  BY <1>2, <1>3
     DEF Init, CallInit, GoInv, TypeOK, ClockTypeOK, MutualExclusion, Lifetime,
         LoadedIsCurrent, CarryOnlyInSpin, Answered, Generating, Closing, Body

\* What a goroutine does outside the C call.
LEMMA BindingStep ==
  ASSUME GoInv, NEW g \in Threads, UNCHANGED <<wall, peak>>,
         \/ Generate(g) \/ Lock(g) \/ Unlock(g) \/ Deliver(g)
         \/ Close(g) \/ LockClose(g) \/ Destroy(g) \/ ClearPointer(g)
         \/ AlreadyClosed(g) \/ UnlockClose(g)
  PROVE  GoInv'
<1> USE NobodyAssumption
    DEF Goto, goVars, GoInv, TypeOK, ClockTypeOK, MutualExclusion, Lifetime,
        LoadedIsCurrent, CarryOnlyInSpin, Answered, Generating, Closing, Body
<1>1. CASE Generate(g)
  BY <1>1 DEF Generate
<1>2. CASE Lock(g)
  BY <1>2 DEF Lock
<1>3. CASE Unlock(g)
  BY <1>3 DEF Unlock
<1>4. CASE Deliver(g)
  BY <1>4 DEF Deliver
<1>5. CASE Close(g)
  BY <1>5 DEF Close
<1>6. CASE LockClose(g)
  BY <1>6 DEF LockClose
<1>7. CASE Destroy(g)
  BY <1>7 DEF Destroy
<1>8. CASE ClearPointer(g)
  BY <1>8 DEF ClearPointer
<1>9. CASE AlreadyClosed(g)
  BY <1>9 DEF AlreadyClosed
<1>10. CASE UnlockClose(g)
  BY <1>10 DEF UnlockClose
<1> QED
  BY <1>1, <1>2, <1>3, <1>4, <1>5, <1>6, <1>7, <1>8, <1>9, <1>10

\* What a goroutine does inside it.
LEMMA BodyStep ==
  ASSUME GoInv, NEW g \in Threads, UNCHANGED <<wall, peak>>, CallC(g)
  PROVE  GoInv'
<1>a. /\ wall \in 0..MaxTime /\ wall \in Nat
      /\ \A r \in os_time_ms(wall) : r \in 0..MaxTime /\ r \in Nat
  BY ReadingBounds, ClockAssumption DEF GoInv, TypeOK, ClockTypeOK
<1>b. \A h \in Threads : pc[h] \in {"spin"} /\ pc[g] \in Body => h = g
  BY DEF GoInv, MutualExclusion, Generating, Body
<1> USE NobodyAssumption
    DEF Goto, goVars, GoInv, TypeOK, ClockTypeOK, MutualExclusion, Lifetime,
        LoadedIsCurrent, CarryOnlyInSpin, Answered, Generating, Closing, Body
<1>1. CASE ptr = "nil" /\ ReturnEarly(g)
  BY <1>1 DEF CallC, ReturnEarly
<1>2. CASE ptr # "nil" /\ ReadClock(g)
  BY <1>2, <1>a DEF CallC, ReadClock
<1>3. CASE Load(g)
  BY <1>3 DEF CallC, Load
<1>4. CASE SpinAgain(g)
  BY <1>4 DEF CallC, SpinAgain, callVars
<1>5. CASE StoreReseeded(g)
  <2>1. PICK d \in Draw : ctx' = Reseeded(now[g], d)
    BY <1>5 DEF StoreReseeded
  <2>2. ctx' \in Context /\ ctx'.counter_high < HighLimit
    BY <2>1, ReseededType
  <2> QED
    BY <1>5, <2>2, ClockAssumption DEF CallC, StoreReseeded, Done
<1>6. CASE SpinExit(g)
  <2>1. PICK r \in os_time_ms(wall), d \in Draw : ctx' = Reseeded(r, d)
    BY <1>6 DEF SpinExit
  <2>2. ctx' \in Context /\ ctx'.counter_high < HighLimit
    BY <2>1, <1>a, ReseededType
  <2> QED
    BY <1>6, <2>2, ClockAssumption DEF CallC, SpinExit, Done
<1>7. CASE Write(g)
  <2>1. Serialised(ctx) \in Identifier /\ Serialised(ctx) # NoId
    BY SerialisedType, NoIdAssumption
  <2> QED
    BY <1>7, <2>1 DEF CallC, Write
<1>8. CASE StoreCounted(g)
  <2>1. ctx' \in Context /\ ctx'.counter_high < HighLimit
    BY <1>8, <1>b, CountedIsBumped, BumpedType DEF StoreCounted
  <2> QED
    BY <1>8, <2>1, ClockAssumption DEF CallC, StoreCounted, Done
<1>9. CASE StoreExhausted(g)
  <2>1. ctx' \in Context
    BY <1>9, <1>b, CountedIsBumped, BumpedType DEF StoreExhausted
  <2> QED
    BY <1>9, <2>1 DEF CallC, StoreExhausted
<1> QED
  BY <1>1, <1>2, <1>3, <1>4, <1>5, <1>6, <1>7, <1>8, <1>9 DEF CallC, Run

LEMMA GoStep == GoInv /\ [Next]_vars => GoInv'
<1> SUFFICES ASSUME GoInv, [Next]_vars PROVE GoInv'
  OBVIOUS
<1>1. ASSUME NEW g \in Threads, Goroutine(g), UNCHANGED <<wall, peak>>
      PROVE  GoInv'
  BY <1>1, BindingStep, BodyStep DEF Goroutine, Proceed
<1>2. CASE ClockNext /\ UNCHANGED <<callVars, goVars>>
  <2>1. ClockTypeOK'
    BY <1>2, ClockAssumption
       DEF GoInv, TypeOK, ClockTypeOK, ClockNext, Advance, StepBack
  <2> QED
    BY <1>2, <2>1
       DEF callVars, goVars, GoInv, TypeOK, MutualExclusion, Lifetime,
           LoadedIsCurrent, CarryOnlyInSpin, Answered
<1>3. CASE UNCHANGED vars
  BY <1>3 DEF vars, callVars, goVars, GoInv, TypeOK, ClockTypeOK,
              MutualExclusion, Lifetime, LoadedIsCurrent, CarryOnlyInSpin,
              Answered
<1> QED
  BY <1>1, <1>2, <1>3 DEF Next

\* The mutex and what it protects, in every state of every run.
THEOREM GoInvariance == Spec => []GoInv
  BY GoInit, GoStep, PTL DEF Spec

\* The types hold with any number of goroutines: their counters never leave
\* the fields of the context.
THEOREM GoTypeCorrect == Spec => []TypeOK
<1>1. GoInv => TypeOK
  BY DEF GoInv
<1> QED
  BY <1>1, GoInvariance, PTL

\* Close never frees the context under a call and never frees it twice.
THEOREM GoMemorySafe == Spec => []NoUseAfterFree
<1>1. GoInv => NoUseAfterFree
  BY DEF GoInv, MutualExclusion, Lifetime, NoUseAfterFree, At, Generating,
         Closing, Body
<1> QED
  BY <1>1, GoInvariance, PTL

\* An open generator answers every call of Generate.
THEOREM GoAnswers == Spec => []ZeroOnlyWhenClosed
<1>1. GoInv => ZeroOnlyWhenClosed
  BY DEF GoInv, Lifetime, Answered, ZeroOnlyWhenClosed, At
<1> QED
  BY <1>1, GoInvariance, PTL

-----------------------------------------------------------------------------

\* Who is in the C call is in it alone, before a step and after it.
LEMMA Alone ==
  ASSUME GoInv, GoInv', NEW g \in Threads
  PROVE  /\ pc[g] \in Generating => \A h \in Threads : pc[h] \in Body => h = g
         /\ pc'[g] \in Generating => \A h \in Threads : pc'[h] \in Body => h = g
  BY DEF GoInv, MutualExclusion, Generating

LEMMA SeqInit == Init => Seq!Init
<1> SUFFICES ASSUME Init PROVE Seq!Init
  OBVIOUS
<1>1. PICK r \in os_time_ms(wall), d \in Draw : ctx = Reseeded(r, d)
  BY DEF Init
<1>2. \E r0 \in Seq!os_time_ms(wall), d0 \in Seq!Draw : ctx = Seq!Reseeded(r0, d0)
  BY <1>1, SameOperators
<1>3. \A S \in SUBSET Body : At(S) = {}
  BY DEF Init, CallInit, At, Body
<1>4. SeqPc = "idle" /\ SeqNow = 0 /\ SeqOut = NoId
  <2>1. At({"spin"}) = {} /\ At({"load", "store"}) = {}
        /\ At({"load", "store", "spin"}) = {} /\ At({"write"}) = {}
    BY <1>3 DEF Body
  <2> QED
    BY <2>1 DEF Init, CallInit, SeqPc, SeqNow, SeqOut
<1> QED
  BY <1>2, <1>4 DEF Init, CallInit, ClockInit, Seq!Init, Seq!ClockInit

\* Steps outside the C call are stutters of the sequential generator.
LEMMA BindingUnseen ==
  ASSUME GoInv, NEW g \in Threads, UNCHANGED <<wall, peak>>,
         \/ Generate(g) \/ Lock(g) \/ Unlock(g) \/ Deliver(g)
         \/ Close(g) \/ LockClose(g) \/ Destroy(g) \/ ClearPointer(g)
         \/ AlreadyClosed(g) \/ UnlockClose(g)
  PROVE  UNCHANGED Seq!vars
<1>1. UNCHANGED <<ctx, now, last>>
  BY DEF Generate, Lock, Unlock, Deliver, Close, LockClose, Destroy,
         ClearPointer, AlreadyClosed, UnlockClose
<1>2. \A h \in Threads : pc'[h] = pc[h] \/ {pc[h], pc'[h]} \cap Body = {}
  BY DEF Generate, Lock, Unlock, Deliver, Close, LockClose, Destroy,
         ClearPointer, AlreadyClosed, UnlockClose, Goto, GoInv, TypeOK, Body
<1> QED
  BY <1>1, <1>2, Unseen DEF Seq!vars

\* The C call of the holder of the mutex is that of the sequential generator.
LEMMA CallSeen ==
  ASSUME GoInv, GoInv', NEW g \in Threads, UNCHANGED <<wall, peak>>, CallC(g)
  PROVE  [Seq!Next]_(Seq!vars)
<1>1. CASE ReturnEarly(g)
  <2>1. UNCHANGED <<ctx, now, last>>
    BY <1>1 DEF ReturnEarly
  <2>2. \A h \in Threads : pc'[h] = pc[h] \/ {pc[h], pc'[h]} \cap Body = {}
    BY <1>1 DEF ReturnEarly, Goto, Body, GoInv, TypeOK
  <2> QED
    BY <2>1, <2>2, Unseen DEF Seq!vars
<1>2. CASE ReadClock(g) \/ Run(g)
  <2>1. /\ pc = [h \in Threads |-> pc[h]]
        /\ now \in [Threads -> 0..MaxTime]
    BY DEF GoInv, TypeOK
  <2>2. pc[g] \in Generating /\ pc'[g] \in Generating
    BY <1>2, <2>1 DEF ReadClock, Run, Load, StoreReseeded, StoreCounted, StoreExhausted,
                      SpinAgain, SpinExit, Write, Done, callVars, Goto, Generating, Body
  <2>3. /\ \A h \in Threads : pc[h] \in Body => h = g
        /\ \A h \in Threads : pc'[h] \in Body => h = g
    BY <2>2, Alone
  <2>4. pc[g] = "store" =>
          reg[g] = ctx /\ ctx \in Context /\ ctx.counter_high < HighLimit
    BY <2>3 DEF GoInv, TypeOK, LoadedIsCurrent, CarryOnlyInSpin, Body
  <2> QED
    BY <1>2, <2>1, <2>3, <2>4, BodySeen
<1> QED
  BY <1>1, <1>2 DEF CallC

LEMMA SeqStep == GoInv /\ GoInv' /\ [Next]_vars => [Seq!Next]_(Seq!vars)
<1> SUFFICES ASSUME GoInv, GoInv', [Next]_vars PROVE [Seq!Next]_(Seq!vars)
  OBVIOUS
<1>1. ASSUME NEW g \in Threads, Goroutine(g), UNCHANGED <<wall, peak>>
      PROVE  [Seq!Next]_(Seq!vars)
  BY <1>1, BindingUnseen, CallSeen DEF Goroutine, Proceed
<1>2. CASE ClockNext /\ UNCHANGED <<callVars, goVars>>
  <2>1. UNCHANGED <<SeqPc, SeqNow, SeqOut, ctx>>
    BY <1>2, Unseen DEF callVars
  <2>2. Seq!ClockNext
    BY <1>2 DEF ClockNext, Advance, StepBack, Seq!ClockNext, Seq!Advance,
                Seq!StepBack
  <2> QED
    BY <2>1, <2>2 DEF Seq!Next, Seq!genVars
<1>3. CASE UNCHANGED vars
  <2>1. UNCHANGED <<SeqPc, SeqNow, SeqOut>>
    BY <1>3, Unseen DEF vars, callVars
  <2> QED
    BY <1>3, <2>1 DEF vars, callVars, Seq!vars
<1> QED
  BY <1>1, <1>2, <1>3 DEF Next

\* Any number of goroutines with one mutex are one sequential caller.
THEOREM GoSequential == Spec => IsSequential
  BY SeqInit, SeqStep, GoInvariance, PTL DEF Spec, IsSequential, Seq!Spec

-----------------------------------------------------------------------------

\* What is proved of one caller holds of the goroutines together: on any clock
\* an identifier that is not above the one before it carries an earlier time.
THEOREM GoOrder ==
  ASSUME MaxTime < TsLimit
  PROVE  Spec => SeqProofs!OrderBreaksOnlyBackInTime
<1>1. SeqProofs!Init <=> Seq!Init
  BY SameGenerator
<1>2. [Seq!Next]_(Seq!vars) => [SeqProofs!Next]_(SeqProofs!vars)
  BY SameSteps
<1>3. SeqProofs!Spec => SeqProofs!OrderBreaksOnlyBackInTime
  BY SeqAssumptions, SeqProofs!Order
<1> QED
  BY <1>1, <1>2, <1>3, GoSequential, PTL DEF IsSequential, Seq!Spec, SeqProofs!Spec

\* On a steady clock the buffers still held lie at or below the identifier
\* written last, and that lies below the context about to be written.
HeldInv ==
  /\ GoInv
  /\ SeqProofs!SteadyInv
  /\ \A g \in Threads : buf[g] # NoId =>
       last # NoId /\ (buf[g] = last \/ Precedes(buf[g], last))
  /\ \A g \in Threads :
       pc[g] = "write" /\ last # NoId => Precedes(last, Serialised(ctx))
  /\ NoDuplicates

LEMMA HeldInit == ASSUME MaxTime < TsLimit, Steady PROVE Init => HeldInv
  BY GoInit, SeqInit, SteadyView DEF HeldInv, NoDuplicates, Init, CallInit

\* A call ends where its store does, and what it will write is above the
\* identifier before it.
LEMMA StoreAbove ==
  ASSUME MaxTime < TsLimit, Steady, HeldInv, [Next]_vars, NEW g \in Threads,
         pc'[g] = "write", pc[g] # "write", last # NoId
  PROVE  Precedes(last, Serialised(ctx)')
<1>1. GoInv' /\ [Seq!Next]_(Seq!vars) /\ SeqProofs!SteadyInv
  BY GoStep, SeqStep DEF HeldInv
<1>2. PICK h \in Threads : Goroutine(h)
  BY DEF Next, vars, callVars, goVars
<1>3. /\ h = g
      /\ pc[g] \in {"store", "spin"}
      /\ UNCHANGED last
  BY <1>1, <1>2
     DEF GoInv, TypeOK, Generating, Closing, Body, Goroutine, Proceed, CallC, Run, Goto, Done,
         Generate, Lock, Unlock, Deliver, Close, LockClose, Destroy, ClearPointer, AlreadyClosed,
         UnlockClose, ReturnEarly, ReadClock, Load, StoreReseeded, StoreCounted,
         StoreExhausted, SpinAgain, SpinExit, Write, callVars
<1>4. /\ \A k \in Threads : pc[k] \in Body => k = g
      /\ \A k \in Threads : pc'[k] \in Body => k = g
  BY <1>1, <1>3, Alone DEF HeldInv, Generating, Body
<1>5. SeqPc # "idle" /\ SeqPc' = "idle" /\ SeqOut = last /\ SeqOut' = Serialised(ctx)'
  BY <1>3, <1>4, View, ViewNext DEF PcOf
<1> QED
  BY <1>1, <1>5, SteadyView

\* Only the end of a call writes a buffer or the identifier written last, and
\* a context that waits to be written stays as it is.
LEMMA StepWrites ==
  ASSUME GoInv, GoInv', [Next]_vars
  PROVE  \/ \E g \in Threads : Write(g)
         \/ /\ UNCHANGED last
            /\ \A h \in Threads : buf'[h] \in {buf[h], NoId}
            /\ \A h \in Threads : pc[h] = "write" => UNCHANGED ctx
<1>1. ASSUME NEW g \in Threads, Goroutine(g), ~Write(g)
      PROVE  /\ UNCHANGED last
             /\ \A h \in Threads : buf'[h] \in {buf[h], NoId}
             /\ \A h \in Threads : pc[h] = "write" => UNCHANGED ctx
  <2>1. ASSUME NEW h \in Threads, pc[h] = "write", pc[g] \in Body
        PROVE  h = g
    BY <2>1, Alone DEF Generating, Body
  <2> QED
    BY <1>1, <2>1
       DEF GoInv, TypeOK, Body, Goroutine, Proceed, CallC, Run, Goto, Done, Generate, Lock,
           Unlock, Deliver, Close, LockClose, Destroy, ClearPointer, AlreadyClosed,
           UnlockClose, ReturnEarly, ReadClock, Load, StoreReseeded, StoreCounted,
           StoreExhausted, SpinAgain, SpinExit, callVars
<1> QED
  BY <1>1 DEF Next, vars, callVars

LEMMA HeldStep ==
  ASSUME MaxTime < TsLimit, Steady
  PROVE  HeldInv /\ [Next]_vars => HeldInv'
<1> SUFFICES ASSUME HeldInv, [Next]_vars PROVE HeldInv'
  OBVIOUS
<1>1. GoInv /\ GoInv' /\ SeqProofs!SteadyInv'
  BY GoStep, SeqStep, SteadyView DEF HeldInv
<1>2. Serialised(ctx) \in Identifier /\ Serialised(ctx) # NoId
  BY <1>1, SerialisedType, NoIdAssumption DEF GoInv, TypeOK
<1>3. ASSUME NEW g \in Threads, Write(g)
      PROVE  HeldInv'
  <2>1. pc[g] = "write" /\ last' = Serialised(ctx)
        /\ buf' = [buf EXCEPT ![g] = Serialised(ctx)]
    BY <1>3 DEF Write
  <2>2. ASSUME NEW h \in Threads, buf'[h] # NoId
        PROVE  buf'[h] = last' \/ Precedes(buf'[h], last')
    <3>1. CASE h = g
      BY <1>1, <2>1, <3>1 DEF GoInv, TypeOK
    <3>2. CASE h # g
      <4>1. buf'[h] = buf[h] /\ buf[h] \in Identifier /\ last \in Identifier
            /\ (buf[h] = last \/ Precedes(buf[h], last))
        BY <1>1, <2>1, <2>2, <3>2 DEF HeldInv, GoInv, TypeOK
      <4>2. Precedes(last, Serialised(ctx))
        BY <2>1, <4>1, NoIdAssumption DEF HeldInv
      <4> QED
        BY <1>2, <2>1, <4>1, <4>2, PrecedesTransitive
    <3> QED
      BY <3>1, <3>2
  <2>3. \A h \in Threads : pc'[h] # "write"
    <3>1. pc' = [pc EXCEPT ![g] = "returned"]
      BY <1>3 DEF Write, Goto
    <3> QED
      BY <1>1, <2>1, <3>1, Alone DEF GoInv, TypeOK, Generating, Body
  <2>4. ASSUME NEW h \in Threads, h # g, buf[h] # NoId
        PROVE  buf[h] # Serialised(ctx)
    <3>1. buf[h] \in Identifier /\ last \in Identifier
          /\ (buf[h] = last \/ Precedes(buf[h], last))
      BY <1>1, <2>4 DEF HeldInv, GoInv, TypeOK
    <3>2. Precedes(last, Serialised(ctx))
      BY <2>1, <3>1, NoIdAssumption DEF HeldInv
    <3>3. Precedes(buf[h], Serialised(ctx))
      BY <1>2, <3>1, <3>2, PrecedesTransitive
    <3> QED
      BY <1>2, <3>3, PrecedesIrreflexive
  <2>5. NoDuplicates'
    BY <1>1, <1>2, <2>1, <2>4 DEF HeldInv, NoDuplicates, GoInv, TypeOK
  <2> QED
    BY <1>1, <1>2, <2>1, <2>2, <2>3, <2>5 DEF HeldInv
<1>4. CASE /\ UNCHANGED last
           /\ \A h \in Threads : buf'[h] \in {buf[h], NoId}
           /\ \A h \in Threads : pc[h] = "write" => UNCHANGED ctx
  <2>1. ASSUME NEW h \in Threads, pc'[h] = "write", last' # NoId
        PROVE  Precedes(last', Serialised(ctx)')
    <3>1. CASE pc[h] = "write"
      BY <1>4, <2>1, <3>1 DEF HeldInv, Serialised
    <3>2. CASE pc[h] # "write"
      BY <1>4, <2>1, <3>2, StoreAbove
    <3> QED
      BY <3>1, <3>2
  <2>2. NoDuplicates'
    BY <1>4 DEF HeldInv, NoDuplicates
  <2> QED
    BY <1>1, <1>4, <2>1, <2>2 DEF HeldInv
<1> QED
  BY <1>1, <1>3, <1>4, StepWrites

LEMMA HeldInvariance ==
  ASSUME MaxTime < TsLimit, Steady
  PROVE  Spec => []HeldInv
  BY HeldInit, HeldStep, PTL DEF Spec

\* No two goroutines ever hold the same identifier, as two threads of a Python
\* program may.
THEOREM GoNoDuplicates ==
  ASSUME MaxTime < TsLimit, Steady
  PROVE  Spec => []NoDuplicates
<1>1. HeldInv => NoDuplicates
  BY DEF HeldInv
<1> QED
  BY <1>1, HeldInvariance, PTL

\* On a clock that is never corrected backward the goroutines are handed
\* identifiers in the order their calls end, whatever they still hold, and no
\* two of them the same one.
THEOREM GoHandedOutInOrder ==
  ASSUME MaxTime < TsLimit, Steady
  PROVE  Spec => HandedOutInOrder
<1>1. Spec => []HeldInv
  BY HeldInvariance
<1>2. HeldInv /\ [Next]_vars =>
        [\A g \in Threads :
           buf'[g] \notin {buf[g], NoId} =>
             \A u \in ({last} \cup {buf[h] : h \in Threads}) \ {NoId} :
               Precedes(u, buf'[g])]_vars
  <2> SUFFICES ASSUME HeldInv, [Next]_vars, NEW g \in Threads,
                      buf'[g] \notin {buf[g], NoId},
                      NEW u \in ({last} \cup {buf[h] : h \in Threads}) \ {NoId}
               PROVE  Precedes(u, buf'[g])
    OBVIOUS
  <2>1. GoInv /\ GoInv'
    BY GoStep DEF HeldInv
  <2>2. PICK k \in Threads : Write(k)
    BY <2>1, StepWrites
  <2>3. /\ pc[g] = "write" /\ buf'[g] = Serialised(ctx)
        /\ u \in Identifier /\ last \in Identifier
        /\ (u = last \/ Precedes(u, last))
    BY <2>1, <2>2 DEF Write, HeldInv, GoInv, TypeOK
  <2>4. Precedes(last, Serialised(ctx))
    BY <2>3, NoIdAssumption DEF HeldInv
  <2>5. Serialised(ctx) \in Identifier
    BY <2>1, SerialisedType DEF GoInv, TypeOK
  <2> QED
    BY <2>3, <2>4, <2>5, PrecedesTransitive
<1> QED
  BY <1>1, <1>2, PTL DEF Spec, HandedOutInOrder

=============================================================================
