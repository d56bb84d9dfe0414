----------------------------- MODULE WasmProofs -----------------------------
(***************************************************************************)
(* Proofs about the JavaScript binding, for any number of objects and any  *)
(* memory.                                                                 *)
(*                                                                         *)
(* That an object is a generator of its own needs to be known of the       *)
(* memory as a whole: that no block has two owners, so that what one       *)
(* object writes lies outside what every other reads.                      *)
(***************************************************************************)
EXTENDS WasmOrdering, Uuid7ContextProofs, TLAPS

\* An object that can be asked for anything has been constructed, and one
\* without a context has no buffer either.
Handles ==
  \A g \in Objects :
    /\ ptr[g].ctx = Null => ptr[g].buf = Null
    /\ g \notin made => ptr[g].ctx = Null /\ Seen(mem, held[g]) = NoId

\* The memory holds a context where an object expects one, with no carry in
\* counter_high unless the object's call waits; address 0 is never written.
Contents ==
  /\ mem[Null] = NoId
  /\ \A g \in Objects :
       ptr[g].ctx # Null =>
         /\ mem[ptr[g].ctx] \in Context
         /\ mem[ptr[g].ctx].counter_high < HighLimit \/ (running = g /\ pc = "spin")

\* Nobody holds an array on the module's memory.
Copies == \A g \in Objects : ~held[g].shared

\* A call is in progress or not, of an object that exists.
OneCall ==
  /\ running = Nobody <=> pc = "idle"
  /\ running # Nobody => running \in made
  /\ running = Nobody => now = 0
  /\ pc = "spin" => Backed(running)

WasmInv ==
  /\ TypeOK
  /\ BlocksOwnedOnce
  /\ Handles
  /\ Contents
  /\ Copies
  /\ OneCall

-----------------------------------------------------------------------------

\* The bytes of a copied array do not depend on the memory.
LEMMA SliceIsCopy ==
  ASSUME NEW m, NEW a, m[a] \in Bytes
  PROVE  /\ slice(m, Uint8Array(a)) \in Array
         /\ ~slice(m, Uint8Array(a)).shared
         /\ \A n : Seen(n, slice(m, Uint8Array(a))) = m[a]
<1>1. Seen(m, Uint8Array(a)) = m[a]
  BY DEF Seen, Uint8Array
<1>2. slice(m, Uint8Array(a)) = [shared |-> FALSE, at |-> Null, bytes |-> m[a]]
  BY <1>1 DEF slice
<1> QED
  BY <1>2 DEF Array, Seen

LEMMA WasmInit == Init => WasmInv
<1> SUFFICES ASSUME Init PROVE WasmInv
  OBVIOUS
<1> USE WasmAssumption
<1>1. wall \in 0..MaxTime /\ peak = wall /\ 0 \in 0..MaxTime
  BY ClockAssumption DEF Init, ClockInit
<1>2. mem[Null] = NoId /\ mem \in [Addresses \cup {Null} -> Bytes]
  BY DEF Init, Bytes
<1>3. held \in [Objects -> Array]
  BY <1>2, SliceIsCopy DEF Init, Bytes
<1>4. \A g \in Objects : held[g] = slice(mem, Uint8Array(Null))
  BY DEF Init
<1>5. \A g \in Objects : ~held[g].shared /\ Seen(mem, held[g]) = NoId
  BY <1>2, <1>4, SliceIsCopy DEF Bytes
<1>6. TypeOK
  BY <1>1, <1>2, <1>3 DEF Init, TypeOK, ClockTypeOK
<1>7. \A g \in Objects : Blocks(g) = {} /\ ~Backed(g)
  BY DEF Init, Blocks, Backed
<1>8. BlocksOwnedOnce
  BY <1>7 DEF Init, BlocksOwnedOnce, Owned
<1> QED
  BY <1>1, <1>2, <1>5, <1>6, <1>8
     DEF Init, WasmInv, Handles, Contents, Copies, OneCall

-----------------------------------------------------------------------------

\* What one object writes to is not what another reads.
LEMMA Apart ==
  ASSUME WasmInv, NEW g \in Objects, NEW h \in Objects, g # h
  PROVE  /\ ptr[g].ctx # Null => ptr[g].ctx \notin {ptr[h].ctx, ptr[h].buf}
         /\ ptr[g].buf # Null => ptr[g].buf \notin {ptr[h].ctx, ptr[h].buf}
  BY DEF WasmInv, BlocksOwnedOnce, Blocks

\* The memory after context and buffer of an object have been written.
LEMMA WrittenFacts ==
  ASSUME WasmInv, NEW g \in Objects, Backed(g), NEW c \in Context
  PROVE  /\ Written(g, c) \in [Addresses \cup {Null} -> Bytes]
         /\ Written(g, c)[ptr[g].ctx] = c
         /\ Written(g, c)[ptr[g].buf] = Serialised(c)
         /\ Written(g, c)[Null] = mem[Null]
         /\ \A h \in Objects \ {g} : Written(g, c)[ptr[h].ctx] = mem[ptr[h].ctx]
<1>1. /\ ptr[g].ctx \in Addresses \cup {Null} /\ ptr[g].buf \in Addresses \cup {Null}
      /\ ptr[g].ctx # Null /\ ptr[g].buf # Null /\ ptr[g].ctx # ptr[g].buf
      /\ mem \in [Addresses \cup {Null} -> Bytes]
  BY DEF WasmInv, TypeOK, BlocksOwnedOnce, Backed
<1>2. c \in Bytes /\ Serialised(c) \in Bytes
  BY SerialisedType DEF Bytes
<1>3. \A h \in Objects \ {g} : /\ ptr[h].ctx \in Addresses \cup {Null}
                               /\ ptr[h].ctx \notin {ptr[g].ctx, ptr[g].buf}
  BY <1>1, Apart DEF WasmInv, TypeOK
<1> QED
  BY <1>1, <1>2, <1>3 DEF Written

\* A call comes back with the memory at m, in which only the blocks of g have
\* changed.
LEMMA AnswerKeeps ==
  ASSUME WasmInv, NEW g \in Objects, running = g,
         NEW m \in [Addresses \cup {Null} -> Bytes], Answer(g, m),
         m[Null] = NoId,
         \A h \in Objects \ {g} : m[ptr[h].ctx] = mem[ptr[h].ctx],
         ptr[g].ctx # Null => /\ m[ptr[g].ctx] \in Context
                              /\ m[ptr[g].ctx].counter_high < HighLimit
  PROVE  WasmInv'
<1> USE WasmAssumption DEF Answer
<1>1. /\ mem' = m /\ UNCHANGED <<wall, peak, taken, lost, made, ptr, default>>
      /\ running' = Nobody /\ pc' = "idle" /\ now' = 0
  OBVIOUS
<1>2. ptr[g].buf \in Addresses \cup {Null} /\ held \in [Objects -> Array]
  BY DEF WasmInv, TypeOK
<1> DEFINE array == slice(m, Uint8Array(ptr[g].buf))
<1>3. array \in Array /\ ~array.shared
  BY <1>2, SliceIsCopy
<1>4. held' = [held EXCEPT ![g] = array]
  OBVIOUS
<1> HIDE DEF array
<1>5. held' \in [Objects -> Array] /\ Copies'
  BY <1>2, <1>3, <1>4 DEF WasmInv, Copies
<1>6. TypeOK'
  BY <1>1, <1>5, ClockAssumption DEF WasmInv, TypeOK, ClockTypeOK
<1>7. BlocksOwnedOnce'
  BY <1>1 DEF WasmInv, BlocksOwnedOnce, Owned, Blocks, Backed
<1>8. Handles'
  <2>1. g \in made
    BY DEF WasmInv, OneCall
  <2>2. \A h \in Objects \ {g} : held'[h] = held[h] /\ ~held[h].shared
    BY <1>2, <1>4 DEF WasmInv, Copies
  <2> QED
    BY <1>1, <2>1, <2>2 DEF WasmInv, Handles, Seen
<1>9. Contents'
  BY <1>1 DEF WasmInv, Contents
<1>10. OneCall'
  BY <1>1 DEF OneCall
<1> QED
  BY <1>5, <1>6, <1>7, <1>8, <1>9, <1>10 DEF WasmInv

\* uuid7_generate_ex has a context to leave behind.
LEMMA ReturnKeeps ==
  ASSUME WasmInv, NEW g \in Objects, running = g, Backed(g),
         NEW c \in Context, c.counter_high < HighLimit, Return(g, c)
  PROVE  WasmInv'
<1>1. PICK m : m = Written(g, c)
  OBVIOUS
<1>2. /\ m \in [Addresses \cup {Null} -> Bytes]
      /\ m[ptr[g].ctx] = c
      /\ m[Null] = NoId
      /\ \A h \in Objects \ {g} : m[ptr[h].ctx] = mem[ptr[h].ctx]
  BY <1>1, WrittenFacts DEF WasmInv, Contents
<1>3. Answer(g, m)
  BY <1>1 DEF Return
<1> QED
  BY <1>2, <1>3, AnswerKeeps

\* The readings a call can make.
LEMMA Readings ==
  ASSUME WasmInv
  PROVE  wall \in Nat /\ \A r \in os_time_ms(wall) : r \in 0..MaxTime /\ r \in Nat
  BY ReadingBounds, ClockAssumption DEF WasmInv, TypeOK, ClockTypeOK

\* The context of an object in a call.
LEMMA Working ==
  ASSUME WasmInv, NEW g \in Objects, Backed(g)
  PROVE  /\ mem[ptr[g].ctx] \in Context
         /\ pc # "spin" => mem[ptr[g].ctx].counter_high < HighLimit
  BY DEF WasmInv, Contents, Backed

\* A call that comes back with an identifier leaves a context behind it.
LEMMA Returns ==
  ASSUME WasmInv, NEW g \in Objects, Generate(g) \/ SpinExit(g)
  PROVE  /\ running = g /\ Backed(g)
         /\ \E c \in Context : c.counter_high < HighLimit /\ Return(g, c)
<1> DEFINE old == mem[ptr[g].ctx]
<1>1. CASE Generate(g)
  <2>1. /\ running = g /\ pc = "called" /\ Backed(g) /\ now \in Nat
        /\ old \in Context /\ old.counter_high < HighLimit
    BY <1>1, Working, ClockAssumption DEF Generate, WasmInv, TypeOK
  <2>2. PICK c \in Nexts(old) : Return(g, c)
    BY <1>1 DEF Generate
  <2> HIDE DEF old
  <2>3. c \in Context /\ c.counter_high < HighLimit
    <3>1. CASE IsSameOrSmallRegress(old, now)
      BY <2>1, <2>2, <3>1, BumpedType DEF Nexts
    <3>2. CASE ~IsSameOrSmallRegress(old, now)
      BY <2>1, <2>2, <3>2, ReseededType DEF Nexts
    <3> QED
      BY <3>1, <3>2
  <2> QED
    BY <2>1, <2>2, <2>3
<1>2. CASE SpinExit(g)
  <2>1. running = g /\ Backed(g)
    BY <1>2 DEF SpinExit, WasmInv, OneCall
  <2>2. PICK r \in os_time_ms(wall), d \in Draw : Return(g, Reseeded(r, d))
    BY <1>2 DEF SpinExit
  <2>3. Reseeded(r, d) \in Context /\ Reseeded(r, d).counter_high < HighLimit
    BY Readings, ReseededType
  <2> QED
    BY <2>1, <2>2, <2>3
<1> QED
  BY <1>1, <1>2

LEMMA GenerateKeeps ==
  ASSUME WasmInv, NEW g \in Objects, Generate(g) \/ SpinExit(g)
  PROVE  WasmInv'
  BY Returns, ReturnKeeps

LEMMA ReturnEarlyKeeps ==
  ASSUME WasmInv, NEW g \in Objects, ReturnEarly(g)
  PROVE  WasmInv'
<1>1. running = g /\ ~Backed(g) /\ Answer(g, mem) /\ pc # "spin"
  BY DEF ReturnEarly, WasmInv, OneCall
<1>2. /\ mem \in [Addresses \cup {Null} -> Bytes] /\ mem[Null] = NoId
      /\ ptr[g].ctx # Null => /\ mem[ptr[g].ctx] \in Context
                              /\ mem[ptr[g].ctx].counter_high < HighLimit
  BY <1>1 DEF WasmInv, TypeOK, Contents
<1> QED
  BY <1>1, <1>2, AnswerKeeps

LEMMA ExhaustKeeps ==
  ASSUME WasmInv, NEW g \in Objects, Exhaust(g)
  PROVE  WasmInv'
<1> DEFINE old == mem[ptr[g].ctx]
<1>1. /\ running = g /\ pc = "called" /\ Backed(g)
      /\ old \in Context /\ old.counter_high < HighLimit
  BY Working DEF Exhaust
<1>2. Bumped(old) \in Context /\ Bumped(old) \in Bytes
  BY <1>1, BumpedType DEF Bytes
<1>3. /\ mem' = [mem EXCEPT ![ptr[g].ctx] = Bumped(old)]
      /\ pc' = "spin"
      /\ UNCHANGED <<wall, peak, taken, lost, objVars, running, now>>
  BY DEF Exhaust
<1> HIDE DEF old
<1>4. /\ ptr[g].ctx \in Addresses /\ mem \in [Addresses \cup {Null} -> Bytes]
      /\ \A h \in Objects \ {g} : ptr[h].ctx # ptr[g].ctx
  BY <1>1, Apart DEF WasmInv, TypeOK, Backed
<1>5. /\ mem'[Null] = mem[Null] /\ mem'[ptr[g].ctx] = Bumped(old)
      /\ mem' \in [Addresses \cup {Null} -> Bytes]
      /\ \A h \in Objects \ {g} : mem'[ptr[h].ctx] = mem[ptr[h].ctx]
  BY <1>2, <1>3, <1>4, WasmAssumption DEF WasmInv, TypeOK
<1>6. TypeOK'
  BY <1>3, <1>5 DEF objVars, WasmInv, TypeOK, ClockTypeOK
<1>7. BlocksOwnedOnce' /\ Backed(g)'
  BY <1>1, <1>3 DEF objVars, WasmInv, BlocksOwnedOnce, Owned, Blocks, Backed
<1>8. Handles' /\ Copies'
  BY <1>1, <1>3 DEF objVars, WasmInv, Handles, Copies, OneCall, Seen
<1>9. Contents'
  BY <1>1, <1>2, <1>3, <1>5 DEF objVars, WasmInv, Contents
<1>10. OneCall'
  BY <1>1, <1>3, <1>7 DEF objVars, WasmInv, OneCall
<1> QED
  BY <1>6, <1>7, <1>8, <1>9, <1>10 DEF WasmInv

-----------------------------------------------------------------------------

\* A fresh context in a free block.
LEMMA Created ==
  ASSUME WasmInv, NEW a \in Free, Create(a)
  PROVE  /\ mem' \in [Addresses \cup {Null} -> Bytes]
         /\ mem'[a] \in Context /\ mem'[a].counter_high < HighLimit
         /\ mem'[Null] = mem[Null]
         /\ \A h \in Objects : mem'[ptr[h].ctx] = mem[ptr[h].ctx] /\ a \notin Blocks(h)
<1>1. PICK r \in os_time_ms(wall), d \in Draw : mem' = [mem EXCEPT ![a] = Reseeded(r, d)]
  BY DEF Create
<1>2. Reseeded(r, d) \in Context /\ Reseeded(r, d).counter_high < HighLimit
  BY Readings, ReseededType
<1>3. a \in Addresses /\ a # Null /\ mem \in [Addresses \cup {Null} -> Bytes]
  BY WasmAssumption DEF Free, WasmInv, TypeOK
<1>4. \A h \in Objects : a \notin Blocks(h)
  BY DEF Free, WasmInv, BlocksOwnedOnce, Owned
<1>5. \A h \in Objects : ptr[h].ctx \in Addresses \cup {Null} /\ a # ptr[h].ctx
  BY <1>3, <1>4 DEF Blocks, WasmInv, TypeOK
<1> HIDE DEF Create
<1>6. mem'[a] = Reseeded(r, d) /\ \A b \in Addresses \cup {Null} : b # a => mem'[b] = mem[b]
  BY <1>1, <1>3
<1> QED
  BY <1>1, <1>2, <1>3, <1>4, <1>5, <1>6 DEF Bytes

\* A constructor ends with an object, with or without a buffer.
LEMMA HoldKeeps ==
  ASSUME WasmInv, NEW g \in Objects, Quiet, g \notin made,
         NEW c \in Free, NEW b \in (Free \ {c}) \cup {Null},
         Create(c), Hold(g, c, b),
         default' \in made' \cup {Nobody},
         UNCHANGED <<wall, peak, held, callVars>>
  PROVE  WasmInv'
<1> USE WasmAssumption DEF Quiet, callVars
<1>1. /\ ptr' = [ptr EXCEPT ![g] = [ctx |-> c, buf |-> b]]
      /\ made' = made \cup {g} /\ lost' = lost
      /\ taken' = taken \cup ({c, b} \ {Null})
  BY DEF Hold
<1>2. /\ c \in Addresses \ taken /\ b \in (Addresses \ taken) \cup {Null}
      /\ c # Null /\ b # c
  BY DEF Free
<1>3. /\ ptr \in [Objects -> [ctx : Addresses \cup {Null}, buf : Addresses \cup {Null}]]
      /\ ptr' \in [Objects -> [ctx : Addresses \cup {Null}, buf : Addresses \cup {Null}]]
      /\ ptr'[g].ctx = c /\ ptr'[g].buf = b
      /\ \A h \in Objects \ {g} : ptr'[h] = ptr[h]
  BY <1>1, <1>2 DEF WasmInv, TypeOK
<1>4. ptr[g].ctx = Null /\ ptr[g].buf = Null /\ Blocks(g) = {}
  BY DEF WasmInv, Handles, Blocks
<1>5. TypeOK'
  BY <1>1, <1>2, <1>3, Created DEF WasmInv, TypeOK, ClockTypeOK
<1>6. /\ Blocks(g)' = {c, b} \ {Null}
      /\ \A h \in Objects \ {g} : Blocks(h)' = Blocks(h) /\ Backed(h)' = Backed(h)
  BY <1>3 DEF Blocks, Backed
<1>7. BlocksOwnedOnce'
  <2>1. Owned' = Owned \cup ({c, b} \ {Null})
    <3>1. \A a : a \in Owned' <=> \E h \in Objects : a \in Blocks(h)'
      BY DEF Owned
    <3>2. \A a : a \in Owned <=> \E h \in Objects : a \in Blocks(h)
      BY DEF Owned
    <3> QED
      BY <1>4, <1>6, <3>1, <3>2
  <2>2. \A h \in Objects : Blocks(h) \subseteq taken
    BY DEF WasmInv, BlocksOwnedOnce, Owned
  <2>3. lost \subseteq taken
    BY DEF WasmInv, BlocksOwnedOnce
  <2>4. \A h \in Objects \ {g} : Blocks(h) \cap ({c, b} \ {Null}) = {}
    BY <1>2, <2>2
  <2>5. taken' = lost' \cup Owned'
    BY <1>1, <2>1 DEF WasmInv, BlocksOwnedOnce
  <2>6. \A h \in Objects : (Blocks(h) \cap lost)' = {}
    BY <1>1, <1>2, <1>6, <2>3 DEF WasmInv, BlocksOwnedOnce
  <2>7. \A h \in Objects : Backed(h)' => ptr'[h].ctx # ptr'[h].buf
    BY <1>2, <1>3, <1>6 DEF WasmInv, BlocksOwnedOnce
  <2>8. \A h, i \in Objects : h # i => Blocks(h)' \cap Blocks(i)' = {}
    BY <1>6, <2>4 DEF WasmInv, BlocksOwnedOnce
  <2> QED
    BY <2>5, <2>6, <2>7, <2>8 DEF BlocksOwnedOnce
<1>8. Handles' /\ Copies'
  BY <1>1, <1>2, <1>3 DEF WasmInv, Handles, Copies, Seen
<1>9. Contents'
  BY <1>3, Created DEF WasmInv, Contents
<1>10. OneCall'
  BY <1>1 DEF WasmInv, OneCall
<1> QED
  BY <1>5, <1>7, <1>8, <1>9, <1>10 DEF WasmInv

\* A constructor throws and its context is lost.
LEMMA AbortKeeps ==
  ASSUME WasmInv, Quiet, ConstructorAborts, UNCHANGED default,
         UNCHANGED <<wall, peak, held, callVars>>
  PROVE  WasmInv'
<1> USE DEF callVars
<1>1. PICK c \in Free : Create(c) /\ taken' = taken \cup {c} /\ lost' = lost \cup {c}
  BY DEF ConstructorAborts
<1>2. UNCHANGED <<made, ptr>> /\ c \in Addresses
  BY DEF ConstructorAborts, Free
<1>3. TypeOK'
  BY <1>1, <1>2, Created DEF WasmInv, TypeOK, ClockTypeOK
<1>4. BlocksOwnedOnce'
  <2>1. \A h \in Objects : /\ Blocks(h)' = Blocks(h) /\ (Backed(h)' <=> Backed(h))
                            /\ ptr'[h] = ptr[h] /\ c \notin Blocks(h)
    BY <1>1, <1>2, Created DEF Blocks, Backed
  <2>2. Owned' = Owned
    BY <1>2 DEF Owned, Blocks
  <2>3. taken' = lost' \cup Owned'
    BY <1>1, <2>2 DEF WasmInv, BlocksOwnedOnce
  <2>4. \A h \in Objects : Blocks(h)' \cap lost' = {}
    BY <1>1, <2>1 DEF WasmInv, BlocksOwnedOnce
  <2>5. \A h \in Objects : Backed(h)' => ptr'[h].ctx # ptr'[h].buf
    BY <2>1 DEF WasmInv, BlocksOwnedOnce
  <2>6. \A h, i \in Objects : h # i => Blocks(h)' \cap Blocks(i)' = {}
    BY <2>1 DEF WasmInv, BlocksOwnedOnce
  <2> QED
    BY <2>3, <2>4, <2>5, <2>6 DEF BlocksOwnedOnce
<1>5. Contents'
  BY <1>1, <1>2, Created DEF WasmInv, Contents
<1>6. Handles' /\ Copies' /\ OneCall'
  BY <1>2 DEF WasmInv, Handles, Copies, OneCall, Backed, Seen
<1> QED
  BY <1>3, <1>4, <1>5, <1>6 DEF WasmInv

LEMMA ConstructorKeeps ==
  ASSUME WasmInv, NEW g \in Objects, New(g) \/ init(g)
  PROVE  WasmInv'
<1>1. /\ Quiet /\ g \notin made
      /\ UNCHANGED <<wall, peak, held, callVars>>
      /\ Construct(g) \/ ConstructWithoutBuffer(g) \/ ConstructorAborts
  BY DEF New, init
<1>2. /\ Construct(g) \/ ConstructWithoutBuffer(g) => default' \in {default, g}
      /\ ConstructorAborts /\ ~Construct(g) /\ ~ConstructWithoutBuffer(g) => default' = default
  BY DEF New, init
<1>3. default \in made \cup {Nobody}
  BY DEF WasmInv, TypeOK
<1>4. CASE Construct(g)
  <2>1. PICK c \in Free : \E b \in Free \ {c} : Create(c) /\ Hold(g, c, b)
    BY <1>4 DEF Construct
  <2>2. PICK b \in Free \ {c} : Create(c) /\ Hold(g, c, b)
    BY <2>1
  <2>3. default' \in made' \cup {Nobody}
    BY <1>2, <1>3, <1>4, <2>2 DEF Hold
  <2> QED
    BY <1>1, <2>2, <2>3, HoldKeeps
<1>5. CASE ConstructWithoutBuffer(g)
  <2>1. PICK c \in Free : Create(c) /\ Hold(g, c, Null)
    BY <1>5 DEF ConstructWithoutBuffer
  <2>2. default' \in made' \cup {Nobody}
    BY <1>2, <1>3, <1>5, <2>1 DEF Hold
  <2> QED
    BY <1>1, <2>1, <2>2, HoldKeeps
<1>6. CASE ConstructorAborts /\ ~Construct(g) /\ ~ConstructWithoutBuffer(g)
  BY <1>1, <1>2, <1>6, AbortKeeps
<1> QED
  BY <1>1, <1>4, <1>5, <1>6

LEMMA CallKeeps ==
  ASSUME WasmInv, NEW g \in Objects, Call(g)
  PROVE  WasmInv'
<1> USE WasmAssumption DEF heapVars, objVars
<1>1. now' \in 0..MaxTime
  BY Readings, ClockAssumption DEF Call
<1>2. TypeOK'
  BY <1>1 DEF Call, WasmInv, TypeOK, ClockTypeOK
<1>3. BlocksOwnedOnce' /\ Handles' /\ Copies'
  BY DEF Call, WasmInv, BlocksOwnedOnce, Owned, Blocks, Backed, Handles, Copies, Seen
<1>4. Contents' /\ OneCall'
  BY DEF Call, Quiet, WasmInv, Contents, OneCall
<1> QED
  BY <1>2, <1>3, <1>4 DEF WasmInv

LEMMA DestroyKeeps ==
  ASSUME WasmInv, NEW g \in Objects, Destroy(g)
  PROVE  WasmInv'
<1> USE WasmAssumption DEF callVars
<1>1. /\ Quiet /\ taken' = taken \ Blocks(g) /\ mem' = Cleared(g)
      /\ ptr' = [ptr EXCEPT ![g] = [ctx |-> Null, buf |-> Null]]
      /\ UNCHANGED <<wall, peak, lost, made, default, held, callVars>>
      /\ g \in made
  BY DEF Destroy
<1>2. /\ ptr' \in [Objects -> [ctx : Addresses \cup {Null}, buf : Addresses \cup {Null}]]
      /\ ptr'[g].ctx = Null /\ ptr'[g].buf = Null
      /\ \A h \in Objects \ {g} : ptr'[h] = ptr[h]
      /\ ptr[g].ctx \in Addresses \cup {Null}
      /\ mem \in [Addresses \cup {Null} -> Bytes]
  BY <1>1 DEF WasmInv, TypeOK
<1>3. /\ mem' \in [Addresses \cup {Null} -> Bytes]
      /\ mem'[Null] = NoId
      /\ \A a \in Addresses \cup {Null} : a # ptr[g].ctx => mem'[a] = mem[a]
  BY <1>1, <1>2 DEF Cleared, Bytes, WasmInv, Contents
<1>4. TypeOK'
  BY <1>1, <1>2, <1>3 DEF WasmInv, TypeOK, ClockTypeOK
<1>5. /\ Blocks(g)' = {} /\ ~Backed(g)'
      /\ \A h \in Objects \ {g} : Blocks(h)' = Blocks(h) /\ Backed(h)' = Backed(h)
  BY <1>2 DEF Blocks, Backed
<1>6. BlocksOwnedOnce'
  <2>1. Owned' = Owned \ Blocks(g)
    <3>1. \A a : a \in Owned' <=> \E h \in Objects : a \in Blocks(h)'
      BY DEF Owned
    <3>2. \A a : a \in Owned <=> \E h \in Objects : a \in Blocks(h)
      BY DEF Owned
    <3>3. \A h \in Objects \ {g} : Blocks(h) \cap Blocks(g) = {}
      BY DEF WasmInv, BlocksOwnedOnce
    <3> QED
      BY <1>5, <3>1, <3>2, <3>3
  <2>2. lost \cap Blocks(g) = {}
    BY DEF WasmInv, BlocksOwnedOnce
  <2>3. taken' = lost' \cup Owned'
    BY <1>1, <2>1, <2>2 DEF WasmInv, BlocksOwnedOnce
  <2>4. \A h \in Objects : Blocks(h)' \cap lost' = {}
    BY <1>1, <1>5 DEF WasmInv, BlocksOwnedOnce
  <2>6. \A h \in Objects : Backed(h)' => ptr'[h].ctx # ptr'[h].buf
    BY <1>2, <1>5 DEF WasmInv, BlocksOwnedOnce
  <2>5. \A h, i \in Objects : h # i => Blocks(h)' \cap Blocks(i)' = {}
    BY <1>5 DEF WasmInv, BlocksOwnedOnce
  <2> QED
    BY <2>3, <2>4, <2>5, <2>6 DEF BlocksOwnedOnce
<1>7. Handles' /\ Copies'
  BY <1>1, <1>2 DEF WasmInv, Handles, Copies, Seen
<1>8. Contents'
  <2>1. \A h \in Objects \ {g} :
          ptr[h].ctx # Null => ptr[h].ctx \in Addresses /\ ptr[h].ctx # ptr[g].ctx
    BY <1>2, Apart DEF WasmInv, TypeOK
  <2> QED
    BY <1>1, <1>2, <1>3, <2>1 DEF WasmInv, Contents
<1>9. OneCall'
  BY <1>1 DEF Quiet, WasmInv, OneCall
<1> QED
  BY <1>4, <1>6, <1>7, <1>8, <1>9 DEF WasmInv

LEMMA ClockKeeps ==
  ASSUME WasmInv, ClockTypeOK', UNCHANGED <<heapVars, objVars, callVars>>
  PROVE  WasmInv'
<1> USE DEF heapVars, objVars, callVars
<1>1. TypeOK'
  BY DEF WasmInv, TypeOK
<1>2. BlocksOwnedOnce'
  BY DEF WasmInv, BlocksOwnedOnce, Owned, Blocks, Backed
<1>3. Handles' /\ Copies'
  BY DEF WasmInv, Handles, Copies, Seen
<1>4. Contents' /\ OneCall'
  BY DEF WasmInv, Contents, OneCall, Backed
<1> QED
  BY <1>1, <1>2, <1>3, <1>4 DEF WasmInv

LEMMA WasmStep == WasmInv /\ [Next]_vars => WasmInv'
<1> SUFFICES ASSUME WasmInv, [Next]_vars PROVE WasmInv'
  OBVIOUS
<1>1. ASSUME NEW g \in Objects,
             \/ New(g) \/ init(g) \/ Call(g) \/ Destroy(g)
             \/ ReturnEarly(g) \/ Generate(g) \/ Exhaust(g) \/ SpinExit(g)
      PROVE  WasmInv'
  BY <1>1, ConstructorKeeps, CallKeeps, DestroyKeeps, ReturnEarlyKeeps, GenerateKeeps,
     ExhaustKeeps
<1>2. CASE generate
  <2>1. default \in Objects
    BY <1>2 DEF generate, WasmInv, TypeOK
  <2> QED
    BY <1>2, <2>1, CallKeeps DEF generate
<1>3. CASE ClockNext /\ UNCHANGED <<heapVars, objVars, callVars>>
  <2>1. ClockTypeOK'
    BY <1>3, ClockAssumption DEF WasmInv, TypeOK, ClockTypeOK, ClockNext, Advance, StepBack
  <2> QED
    BY <1>3, <2>1, ClockKeeps
<1>4. CASE UNCHANGED vars
  <2>1. ClockTypeOK'
    BY <1>4 DEF vars, WasmInv, TypeOK, ClockTypeOK
  <2> QED
    BY <1>4, <2>1, ClockKeeps DEF vars
<1> QED
  BY <1>1, <1>2, <1>3, <1>4 DEF Next

\* The memory and what the objects know of it, in every state of every run.
THEOREM WasmInvariance == Spec => []WasmInv
  BY WasmInit, WasmStep, PTL DEF Spec

\* The types hold with any number of objects and blocks.
THEOREM WasmTypeCorrect == Spec => []TypeOK
<1>1. WasmInv => TypeOK
  BY DEF WasmInv
<1> QED
  BY <1>1, WasmInvariance, PTL

\* No block is freed twice, used after it was freed, shared or - but for a
\* constructor that throws half way - forgotten.
THEOREM WasmMemorySafe == Spec => []BlocksOwnedOnce
<1>1. WasmInv => BlocksOwnedOnce
  BY DEF WasmInv
<1> QED
  BY <1>1, WasmInvariance, PTL

\* The half of DefaultKeepsContext that does not follow from who owns what.
DefaultHasContext == default # Nobody => ptr[default].ctx # Null

\* Ownership of the blocks makes the context nobody else's.
LEMMA ContextIsOwn ==
  ASSUME WasmInv, DefaultHasContext
  PROVE  DefaultKeepsContext
<1> SUFFICES ASSUME default # Nobody PROVE DefaultKeepsContext
  BY DEF DefaultKeepsContext
<1>1. default \in Objects /\ ptr[default].ctx # Null
  BY DEF WasmInv, TypeOK, DefaultHasContext
<1>2. ptr[default].ctx \in Blocks(default)
  BY <1>1 DEF Blocks
<1>3. ptr[default].ctx \in taken \ lost
  BY <1>1, <1>2 DEF WasmInv, BlocksOwnedOnce, Owned
<1>4. \A g \in Objects \ {default} : ptr[default].ctx \notin Blocks(g)
  BY <1>1, <1>2 DEF WasmInv, BlocksOwnedOnce
<1> QED
  BY <1>3, <1>4 DEF DefaultKeepsContext

\* Only init assigns the default generator, with a context, and only what
\* cannot be the default is constructed or destroyed otherwise.
LEMMA DefaultStep ==
  ASSUME WasmInv, [Next]_vars, DefaultHasContext
  PROVE  DefaultHasContext'
<1> USE WasmAssumption DEF DefaultHasContext
<1>1. default # Nobody => default \in made /\ ptr[default].ctx # Null
  BY DEF WasmInv, TypeOK
<1>2. ptr \in [Objects -> [ctx : Addresses \cup {Null}, buf : Addresses \cup {Null}]]
      /\ made \subseteq Objects
  BY DEF WasmInv, TypeOK
<1>3. UNCHANGED <<default, ptr>> => DefaultHasContext'
  BY <1>1
<1>4. ASSUME NEW g \in Objects, Construct(g) \/ ConstructWithoutBuffer(g)
      PROVE  \E c \in Addresses, b \in Addresses \cup {Null} :
               ptr' = [ptr EXCEPT ![g] = [ctx |-> c, buf |-> b]]
  BY <1>4 DEF Construct, ConstructWithoutBuffer, Hold, Free
<1>5. ASSUME NEW g \in Objects, New(g) PROVE DefaultHasContext'
  <2>1. g # default /\ UNCHANGED default
    BY <1>1, <1>5, WasmAssumption DEF New
  <2>2. default # Nobody => ptr'[default] = ptr[default]
    BY <1>1, <1>2, <1>4, <1>5, <2>1 DEF New, ConstructorAborts
  <2> QED
    BY <1>1, <2>1, <2>2
<1>6. ASSUME NEW g \in Objects, init(g) PROVE DefaultHasContext'
  <2>1. CASE (Construct(g) \/ ConstructWithoutBuffer(g)) /\ default' = g
    BY <1>2, <1>4, <2>1
  <2>2. CASE UNCHANGED default
    BY <1>6, <2>2 DEF init
  <2> QED
    BY <1>6, <2>1, <2>2 DEF init
<1>7. ASSUME NEW g \in Objects, Destroy(g) PROVE DefaultHasContext'
  <2>1. g # default /\ UNCHANGED default
    BY <1>7 DEF Destroy
  <2>2. default # Nobody => ptr'[default] = ptr[default]
    BY <1>1, <1>2, <1>7, <2>1 DEF Destroy
  <2> QED
    BY <1>1, <2>1, <2>2
<1>8. ASSUME NEW g \in Objects,
             Call(g) \/ ReturnEarly(g) \/ Generate(g) \/ Exhaust(g) \/ SpinExit(g)
      PROVE  UNCHANGED <<default, ptr>>
  BY <1>8 DEF Call, ReturnEarly, Generate, Exhaust, SpinExit, Return, Answer, objVars
<1>9. CASE generate \/ (ClockNext /\ UNCHANGED <<heapVars, objVars, callVars>>)
           \/ UNCHANGED vars
  BY <1>3, <1>9 DEF generate, Call, vars, objVars
<1> QED
  BY <1>3, <1>5, <1>6, <1>7, <1>8, <1>9 DEF Next

\* A default generator has a context, in a block that no other object knows
\* and no throwing constructor has lost.
THEOREM WasmDefault == Spec => []DefaultKeepsContext
<1>1. Init => DefaultHasContext
  BY DEF Init, DefaultHasContext
<1> QED
  BY <1>1, DefaultStep, ContextIsOwn, WasmInvariance, PTL DEF Spec

-----------------------------------------------------------------------------

\* Nobody but the call of an object itself changes what its caller holds.
LEMMA HeldFrame ==
  ASSUME WasmInv, [Next]_vars, NEW g \in Objects, ~Answers(g)
  PROVE  held'[g] = held[g] /\ Seen(mem, held[g])' = Seen(mem, held[g])
<1> USE WasmAssumption
<1>1. held \in [Objects -> Array] /\ ~held[g].shared
  BY DEF WasmInv, TypeOK, Copies
<1>2. ASSUME NEW h \in Objects, NEW m, running = h, Answer(h, m)
      PROVE  held'[g] = held[g]
  BY <1>1, <1>2 DEF Answer, Answers
<1>3. ASSUME NEW h \in Objects,
             \/ New(h) \/ init(h) \/ Call(h) \/ Destroy(h)
             \/ ReturnEarly(h) \/ Generate(h) \/ Exhaust(h) \/ SpinExit(h)
      PROVE  held'[g] = held[g]
  <2>1. CASE ReturnEarly(h)
    BY <1>2, <2>1 DEF ReturnEarly
  <2>2. CASE Generate(h) \/ SpinExit(h)
    BY <1>2, <2>2, Returns DEF Return
  <2> QED
    BY <1>3, <2>1, <2>2 DEF New, init, Call, Destroy, Exhaust, objVars
<1>4. held'[g] = held[g]
  BY <1>3 DEF Next, generate, Call, objVars, vars
<1> QED
  BY <1>1, <1>4 DEF Seen

\* What the call of an object comes back with.
LEMMA Outcome ==
  ASSUME WasmInv, [Next]_vars, NEW g \in Objects, Answers(g)
  PROVE  Seen(mem, held[g])' \in Identifier <=> Backed(g)
<1> USE WasmAssumption
<1>1. held \in [Objects -> Array] /\ running = g /\ running' = Nobody /\ running' # running
  BY DEF WasmInv, TypeOK, Answers
<1>2. ReturnEarly(g) \/ Generate(g) \/ SpinExit(g)
  BY <1>1 DEF Next, generate, New, init, Call, Destroy, ReturnEarly, Generate, Exhaust,
              SpinExit, Return, Answer, Quiet, callVars, vars
<1>3. ASSUME NEW m, m[ptr[g].buf] \in Bytes, Answer(g, m)
      PROVE  Seen(mem, held[g])' = m[ptr[g].buf]
  <2>1. held'[g] = slice(m, Uint8Array(ptr[g].buf))
    BY <1>1, <1>3 DEF Answer
  <2> QED
    BY <1>3, <2>1, SliceIsCopy
<1>4. CASE ReturnEarly(g)
  <2>1. ~Backed(g) /\ Answer(g, mem) /\ ptr[g].buf = Null /\ mem[Null] = NoId
    BY <1>4 DEF ReturnEarly, WasmInv, Handles, Contents, Backed
  <2>2. Seen(mem, held[g])' = NoId
    BY <1>3, <2>1 DEF Bytes
  <2> QED
    BY <2>1, <2>2, NoIdAssumption
<1>5. CASE Generate(g) \/ SpinExit(g)
  <2>1. PICK c \in Context : Return(g, c) /\ Backed(g)
    BY <1>5, Returns
  <2>2. PICK m : m = Written(g, c)
    OBVIOUS
  <2>3. m[ptr[g].buf] \in Identifier
    BY <2>1, <2>2, WrittenFacts, SerialisedType
  <2>4. Seen(mem, held[g])' = m[ptr[g].buf]
    BY <1>3, <2>1, <2>2, <2>3 DEF Return, Bytes
  <2> QED
    BY <2>1, <2>3, <2>4
<1> QED
  BY <1>2, <1>4, <1>5

\* A caller's sixteen bytes are its own to keep, whatever becomes of the
\* memory they were copied from.
THEOREM WasmHeldStay == Spec => HeldBytesStay
<1>1. ASSUME WasmInv, [Next]_vars
      PROVE  \A g \in Objects : Answers(g) \/ Seen(mem, held[g])' = Seen(mem, held[g])
  BY <1>1, HeldFrame
<1> QED
  BY <1>1, WasmInvariance, PTL DEF Spec, HeldBytesStay

\* An object without both blocks answers with no identifier, one with both
\* always with an identifier.
THEOREM WasmAnswersOwn == Spec => AnswersAreOwn
<1>1. ASSUME WasmInv, [Next]_vars
      PROVE  \A g \in Objects :
               Answers(g) => (Seen(mem, held[g])' \in Identifier <=> Backed(g))
  BY <1>1, Outcome
<1> QED
  BY <1>1, WasmInvariance, PTL DEF Spec, AnswersAreOwn

-----------------------------------------------------------------------------

\* The operators of Uuid7Generator mean the same in the view of an object.
LEMMA SameOperators ==
  ASSUME NEW g \in Objects, NEW c, NEW t, NEW d
  PROVE  /\ Gen(g)!os_time_ms(t) = os_time_ms(t)
         /\ Gen(g)!Draw = Draw
         /\ Gen(g)!Reseeded(t, d) = Reseeded(t, d)
         /\ Gen(g)!Serialised(c) = Serialised(c)
         /\ Gen(g)!Bumped(c) = Bumped(c)
         /\ Gen(g)!IsExhausted(c) <=> IsExhausted(c)
         /\ Gen(g)!IsNewMillisecond(c, t) <=> IsNewMillisecond(c, t)
         /\ Gen(g)!IsSameOrSmallRegress(c, t) <=> IsSameOrSmallRegress(c, t)
         /\ Gen(g)!IsLargeRegress(c, t) <=> IsLargeRegress(c, t)
         /\ Gen(g)!ClockNext <=> ClockNext
<1>1. Gen(g)!os_time_ms(t) = os_time_ms(t)
  BY Zenon DEF Gen!os_time_ms, os_time_ms, Gen!FloorToSecond, FloorToSecond
<1>2. Gen(g)!Draw = Draw
  BY Zenon DEF Gen!Draw, Draw
<1>3. Gen(g)!Reseeded(t, d) = Reseeded(t, d)
  BY Zenon DEF Gen!Reseeded, Reseeded
<1>4. Gen(g)!Serialised(c) = Serialised(c)
  BY Zenon DEF Gen!Serialised, Serialised
<1>5. Gen(g)!Bumped(c) = Bumped(c)
  BY Zenon DEF Gen!Bumped, Bumped
<1>6. Gen(g)!IsExhausted(c) <=> IsExhausted(c)
  BY Zenon DEF Gen!IsExhausted, IsExhausted
<1>7. Gen(g)!IsNewMillisecond(c, t) <=> IsNewMillisecond(c, t)
  BY Zenon DEF Gen!IsNewMillisecond, IsNewMillisecond, Gen!Delta, Delta
<1>8. Gen(g)!IsSameOrSmallRegress(c, t) <=> IsSameOrSmallRegress(c, t)
  BY Zenon DEF Gen!IsSameOrSmallRegress, IsSameOrSmallRegress, Gen!Delta, Delta
<1>9. Gen(g)!IsLargeRegress(c, t) <=> IsLargeRegress(c, t)
  BY <1>7, <1>8, Zenon DEF Gen!IsLargeRegress, IsLargeRegress
<1>10. Gen(g)!ClockNext <=> ClockNext
  BY Zenon DEF Gen!ClockNext, ClockNext, Gen!Advance, Advance, Gen!StepBack, StepBack
<1> QED
  BY <1>1, <1>2, <1>3, <1>4, <1>5, <1>6, <1>7, <1>8, <1>9, <1>10

\* The identifier in a caller's hands depends on the array alone.
LEMMA SeenIsBytes ==
  ASSUME WasmInv, NEW g \in Objects
  PROVE  Seen(mem, held[g]) = held[g].bytes
  BY DEF WasmInv, Copies, Seen

\* A step that leaves an object's context, array and call alone.
LEMMA Undisturbed ==
  ASSUME WasmInv, WasmInv', NEW g \in Objects,
         ptr'[g] = ptr[g], mem'[ptr[g].ctx] = mem[ptr[g].ctx], held'[g] = held[g],
         running' = g <=> running = g,
         running = g => pc' = pc /\ now' = now
  PROVE  UNCHANGED Gen(g)!genVars
<1>1. Seen(mem, held[g])' = Seen(mem, held[g])
  BY SeenIsBytes DEF WasmInv, Copies, Seen
<1>2. mem'[ptr'[g].ctx] = mem[ptr[g].ctx]
  OBVIOUS
<1> QED
  BY <1>1, <1>2 DEF Gen!genVars

\* A call that comes back leaves its context and its identifier where they are
\* found again.
LEMMA ReturnShows ==
  ASSUME WasmInv, NEW g \in Objects, running = g, Backed(g),
         NEW c \in Context, Return(g, c)
  PROVE  /\ mem'[ptr'[g].ctx] = c
         /\ Seen(mem, held[g])' = Serialised(c)
         /\ running' = Nobody
<1>1. PICK m : m = Written(g, c)
  OBVIOUS
<1>2. m[ptr[g].ctx] = c /\ m[ptr[g].buf] = Serialised(c) /\ Serialised(c) \in Bytes
  BY <1>1, WrittenFacts, SerialisedType DEF Bytes
<1>3. /\ mem' = m /\ held' = [held EXCEPT ![g] = slice(m, Uint8Array(ptr[g].buf))]
      /\ running' = Nobody /\ UNCHANGED ptr
  BY <1>1 DEF Return, Answer
<1>4. held'[g] = slice(m, Uint8Array(ptr[g].buf))
  BY <1>3 DEF WasmInv, TypeOK
<1>5. Seen(mem, held[g])' = Serialised(c)
  BY <1>2, <1>4, SliceIsCopy
<1> QED
  BY <1>2, <1>3, <1>5

\* A call that comes back is seen to return the context it leaves.
LEMMA ReturnSeen ==
  ASSUME WasmInv, NEW g \in Objects, running = g, Backed(g),
         NEW c \in Context, Return(g, c)
  PROVE  Gen(g)!Return(c)
<1>1. /\ mem'[ptr'[g].ctx] = c
      /\ Seen(mem, held[g])' = Serialised(c)
  BY ReturnShows
<1>2. running' = Nobody /\ pc' = "idle" /\ now' = 0 /\ UNCHANGED <<wall, peak>>
  BY DEF Return, Answer
<1>3. Gen(g)!Serialised(c) = Serialised(c)
  BY SameOperators
<1> QED
  BY <1>1, <1>2, <1>3, WasmAssumption DEF Gen!Return

\* The steps of an object's own call are those of Uuid7Generator.
LEMMA OwnCall ==
  ASSUME WasmInv, NEW g \in Objects, Backed(g), Call(g)
  PROVE  Gen(g)!Next
<1> USE WasmAssumption
<1>1. /\ running = Nobody /\ running' = g /\ pc' = "called" /\ g # Nobody
      /\ now' \in os_time_ms(wall)
      /\ UNCHANGED <<wall, peak, mem, ptr, held>>
  BY DEF Call, Quiet, heapVars, objVars
<1>2. UNCHANGED <<mem[ptr[g].ctx], Seen(mem, held[g])>>
  BY <1>1 DEF Seen
<1>3. now' \in Gen(g)!os_time_ms(wall)
  BY <1>1, SameOperators
<1>4. Gen(g)!Call
  BY <1>1, <1>2, <1>3 DEF Gen!Call
<1> QED
  BY <1>4 DEF Gen!Next, Gen!Generate

LEMMA OwnGenerate ==
  ASSUME WasmInv, NEW g \in Objects, Generate(g)
  PROVE  Gen(g)!Next
<1> DEFINE old == mem[ptr[g].ctx]
<1>1. PICK c \in Nexts(old) : Return(g, c)
  BY DEF Generate
<1>2. /\ running = g /\ pc = "called" /\ Backed(g) /\ now \in Nat
      /\ old \in Context /\ old.counter_high < HighLimit
  BY Working, ClockAssumption DEF Generate, WasmInv, TypeOK
<1>3. /\ Gen(g)!IsSameOrSmallRegress(old, now) <=> IsSameOrSmallRegress(old, now)
      /\ Gen(g)!IsNewMillisecond(old, now) <=> IsNewMillisecond(old, now)
      /\ Gen(g)!IsLargeRegress(old, now) <=> IsLargeRegress(old, now)
      /\ Gen(g)!Bumped(old) = Bumped(old)
      /\ Gen(g)!IsExhausted(Bumped(old)) <=> IsExhausted(Bumped(old))
      /\ Gen(g)!Draw = Draw
  <2> HIDE DEF old
  <2> QED
    BY SameOperators
<1>4. CASE IsSameOrSmallRegress(old, now)
  <2>1. c = Bumped(old) /\ ~IsExhausted(c)
    BY <1>1, <1>4 DEF Nexts
  <2>2. c \in Context
    BY <1>2, <2>1, BumpedType
  <2>3. Gen(g)!Return(c)
    BY <1>1, <1>2, <2>2, ReturnSeen
  <2>4. Gen(g)!CountUp
    BY <1>2, <1>3, <1>4, <2>1, <2>3 DEF Gen!CountUp
  <2> QED
    BY <2>4 DEF Gen!Next, Gen!Generate
<1>5. CASE ~IsSameOrSmallRegress(old, now)
  <2>1. PICK d \in Draw : c = Reseeded(now, d)
    BY <1>1, <1>5 DEF Nexts
  <2>2. c \in Context
    BY <1>2, <2>1, ReseededType
  <2>3. Gen(g)!Return(c)
    BY <1>1, <1>2, <2>2, ReturnSeen
  <2>4. Gen(g)!Reseeded(now, d) = c /\ d \in Gen(g)!Draw
    BY <1>3, <2>1, SameOperators
  <2>5. IsNewMillisecond(old, now) \/ IsLargeRegress(old, now)
    BY <1>5 DEF IsLargeRegress
  <2>6. Gen(g)!NewMillisecond \/ Gen(g)!LargeRegress
    BY <1>2, <1>3, <2>3, <2>4, <2>5 DEF Gen!NewMillisecond, Gen!LargeRegress
  <2> QED
    BY <2>6 DEF Gen!Next, Gen!Generate
<1> QED
  BY <1>4, <1>5

LEMMA OwnExhaust ==
  ASSUME WasmInv, NEW g \in Objects, Exhaust(g)
  PROVE  Gen(g)!Next
<1> DEFINE old == mem[ptr[g].ctx]
<1>1. /\ running = g /\ pc = "called" /\ Backed(g)
      /\ IsSameOrSmallRegress(old, now) /\ IsExhausted(Bumped(old))
      /\ mem' = [mem EXCEPT ![ptr[g].ctx] = Bumped(old)] /\ pc' = "spin"
      /\ UNCHANGED <<wall, peak, ptr, held, running, now>>
  BY DEF Exhaust, objVars
<1>2. /\ Gen(g)!IsSameOrSmallRegress(old, now) <=> IsSameOrSmallRegress(old, now)
      /\ Gen(g)!Bumped(old) = Bumped(old)
      /\ Gen(g)!IsExhausted(Bumped(old)) <=> IsExhausted(Bumped(old))
  <2> HIDE DEF old
  <2> QED
    BY SameOperators
<1>3. mem'[ptr'[g].ctx] = Bumped(old)
  <2> HIDE DEF old
  <2> QED
    BY <1>1 DEF WasmInv, TypeOK
<1>4. Seen(mem, held[g])' = Seen(mem, held[g])
  BY <1>1 DEF WasmInv, Copies, Seen
<1>5. Gen(g)!Exhaust
  BY <1>1, <1>2, <1>3, <1>4 DEF Gen!Exhaust
<1> QED
  BY <1>5 DEF Gen!Next, Gen!Generate

LEMMA OwnSpinExit ==
  ASSUME WasmInv, NEW g \in Objects, SpinExit(g)
  PROVE  Gen(g)!Next
<1>1. PICK r \in os_time_ms(wall), d \in Draw :
        r # mem[ptr[g].ctx].last_timestamp_ms /\ Return(g, Reseeded(r, d))
  BY DEF SpinExit
<1>2. running = g /\ pc = "spin" /\ Backed(g)
  BY DEF SpinExit, WasmInv, OneCall
<1>3. Reseeded(r, d) \in Context
  BY Readings, ReseededType
<1>4. Gen(g)!Return(Reseeded(r, d))
  BY <1>1, <1>2, <1>3, ReturnSeen
<1>5. Gen(g)!Reseeded(r, d) = Reseeded(r, d) /\ r \in Gen(g)!os_time_ms(wall) /\ d \in Gen(g)!Draw
  BY SameOperators
<1>6. Gen(g)!SpinExit
  BY <1>1, <1>2, <1>4, <1>5 DEF Gen!SpinExit
<1> QED
  BY <1>6 DEF Gen!Next, Gen!Generate

\* What a step of another object leaves of this one.
LEMMA OthersStep ==
  ASSUME WasmInv, WasmInv', NEW g \in Objects, NEW h \in Objects \ {g},
         \/ New(h) \/ init(h) \/ Call(h) \/ Destroy(h)
         \/ ReturnEarly(h) \/ Generate(h) \/ Exhaust(h) \/ SpinExit(h)
  PROVE  ptr'[g] = ptr[g] /\ UNCHANGED Gen(g)!genVars
<1> USE WasmAssumption
<1>1. /\ ptr \in [Objects -> [ctx : Addresses \cup {Null}, buf : Addresses \cup {Null}]]
      /\ held \in [Objects -> Array] /\ mem \in [Addresses \cup {Null} -> Bytes]
      /\ ptr[g].ctx \in Addresses \cup {Null} /\ mem[Null] = NoId
  BY DEF WasmInv, TypeOK, Contents
<1>2. ptr[h].ctx # Null => ptr[g].ctx # ptr[h].ctx
  BY Apart
<1>3. CASE New(h) \/ init(h)
  <2>1. PICK c \in Free : Create(c)
    BY <1>3 DEF New, init, Construct, ConstructWithoutBuffer, ConstructorAborts
  <2>2. mem'[ptr[g].ctx] = mem[ptr[g].ctx]
    BY <2>1, Created
  <2>3. ptr'[g] = ptr[g] /\ UNCHANGED <<held, callVars>>
    BY <1>1, <1>3 DEF New, init, Construct, ConstructWithoutBuffer, ConstructorAborts, Hold
  <2> QED
    BY <2>2, <2>3, Undisturbed DEF callVars
<1>4. CASE Call(h)
  BY <1>4, Undisturbed DEF Call, Quiet, heapVars, objVars
<1>5. CASE Destroy(h)
  <2>1. mem'[ptr[g].ctx] = mem[ptr[g].ctx]
    BY <1>1, <1>2, <1>5 DEF Destroy, Cleared
  <2>2. ptr'[g] = ptr[g] /\ UNCHANGED <<held, callVars>>
    BY <1>1, <1>5 DEF Destroy
  <2> QED
    BY <2>1, <2>2, Undisturbed DEF callVars
<1>6. ASSUME NEW m, Answer(h, m), running = h, m[ptr[g].ctx] = mem[ptr[g].ctx]
      PROVE  ptr'[g] = ptr[g] /\ UNCHANGED Gen(g)!genVars
  BY <1>1, <1>6, Undisturbed DEF Answer
<1>7. CASE ReturnEarly(h)
  BY <1>6, <1>7 DEF ReturnEarly
<1>8. CASE Generate(h) \/ SpinExit(h)
  <2>1. PICK c \in Context : running = h /\ Backed(h) /\ Return(h, c)
    BY <1>8, Returns
  <2>2. PICK m : m = Written(h, c)
    OBVIOUS
  <2>3. m[ptr[g].ctx] = mem[ptr[g].ctx]
    BY <2>1, <2>2, WrittenFacts
  <2> QED
    BY <1>6, <2>1, <2>2, <2>3 DEF Return
<1>9. CASE Exhaust(h)
  <2>1. mem'[ptr[g].ctx] = mem[ptr[g].ctx]
    BY <1>1, <1>2, <1>9 DEF Exhaust, Backed
  <2>2. UNCHANGED <<ptr, held, running, now>> /\ running = h
    BY <1>9 DEF Exhaust, objVars
  <2> QED
    BY <2>1, <2>2, Undisturbed
<1> QED
  BY <1>3, <1>4, <1>5, <1>7, <1>8, <1>9

\* The constructor leaves an object as uuid7_init does.
LEMMA Constructed ==
  ASSUME WasmInv, NEW g \in Objects, New(g) \/ init(g), Backed(g)'
  PROVE  /\ ~Backed(g)
         /\ \E r \in os_time_ms(wall), d \in Draw : (mem[ptr[g].ctx])' = Reseeded(r, d)
         /\ Seen(mem, held[g])' = NoId
<1>1. g \notin made /\ held' = held
  BY DEF New, init
<1>2. ptr[g].ctx = Null /\ ~Backed(g) /\ held[g].bytes = NoId /\ ~held[g].shared
  BY <1>1, SeenIsBytes DEF WasmInv, Handles, Copies, Backed
<1>3. PICK c \in Free : \E b \in (Free \ {c}) \cup {Null} : Create(c) /\ Hold(g, c, b)
  BY <1>2 DEF New, init, Construct, ConstructWithoutBuffer, ConstructorAborts, Backed
<1>4. ptr'[g].ctx = c
  BY <1>3 DEF Hold, WasmInv, TypeOK
<1>5. PICK r \in os_time_ms(wall), d \in Draw : mem' = [mem EXCEPT ![c] = Reseeded(r, d)]
  BY <1>3 DEF Create
<1>6. mem'[c] = Reseeded(r, d)
  BY <1>5 DEF Free, WasmInv, TypeOK
<1> QED
  BY <1>1, <1>2, <1>4, <1>6 DEF Seen

\* Each object is a generator of its own: no step of the others is a step of
\* it, and its own steps are those of the sequential generator.
THEOREM WasmIsolated == Spec => IsolatedState
<1> DEFINE Fresh(g) == /\ \E r \in os_time_ms(wall), d \in Draw :
                              (mem[ptr[g].ctx])' = Reseeded(r, d)
                       /\ Seen(mem, held[g])' = NoId
           Step(g) == IF Backed(g) THEN Gen(g)!Next \/ UNCHANGED Gen(g)!vars ELSE Fresh(g)
           Own(g) == \/ New(g) \/ init(g) \/ Call(g) \/ Destroy(g)
                     \/ ReturnEarly(g) \/ Generate(g) \/ Exhaust(g) \/ SpinExit(g)
<1>1. ASSUME WasmInv, WasmInv', [Next]_vars, NEW g \in Objects, Backed(g)'
      PROVE  Step(g)
  <2>1. ASSUME Own(g)
        PROVE  Step(g)
    <3>1. CASE New(g) \/ init(g)
      BY <1>1, <3>1, Constructed
    <3>2. CASE Call(g)
      <4>1. Backed(g)
        BY <1>1, <3>2 DEF Call, objVars, Backed
      <4> QED
        BY <1>1, <3>2, <4>1, OwnCall
    <3>3. CASE Destroy(g)
      BY <1>1, <3>3 DEF Destroy, WasmInv, TypeOK, Backed
    <3>4. CASE ReturnEarly(g)
      BY <1>1, <3>4 DEF ReturnEarly, Answer, Backed
    <3>5. CASE Generate(g)
      BY <1>1, <3>5, OwnGenerate DEF Generate
    <3>6. CASE Exhaust(g)
      BY <1>1, <3>6, OwnExhaust DEF Exhaust
    <3>7. CASE SpinExit(g)
      BY <1>1, <3>7, OwnSpinExit, Returns
    <3> QED
      BY <2>1, <3>1, <3>2, <3>3, <3>4, <3>5, <3>6, <3>7
  <2>2. ASSUME NEW h \in Objects \ {g}, Own(h)
        PROVE  Step(g)
    <3>1. ptr'[g] = ptr[g] /\ UNCHANGED Gen(g)!genVars
      BY <1>1, <2>2, OthersStep
    <3>2. UNCHANGED <<wall, peak>>
      BY <2>2 DEF New, init, Call, Destroy, ReturnEarly, Generate, Exhaust, SpinExit,
                  Return, Answer
    <3>3. Backed(g)
      BY <1>1, <3>1 DEF Backed
    <3>4. UNCHANGED Gen(g)!vars
      BY <3>1, <3>2 DEF Gen!vars, Gen!genVars
    <3> QED
      BY <3>3, <3>4
  <2>3. ASSUME UNCHANGED <<heapVars, objVars, callVars>>
        PROVE  Backed(g) /\ UNCHANGED Gen(g)!genVars
    BY <1>1, <2>3 DEF heapVars, objVars, callVars, Backed, Gen!genVars, Seen
  <2>4. CASE generate
    <3>1. default \in Objects /\ Own(default)
      BY <1>1, <2>4 DEF generate, WasmInv, TypeOK
    <3> HIDE DEF Own
    <3> QED
      BY <2>1, <2>2, <3>1
  <2>5. CASE ClockNext /\ UNCHANGED <<heapVars, objVars, callVars>>
    <3>1. Gen(g)!ClockNext
      BY <2>5, SameOperators
    <3> QED
      BY <2>3, <2>5, <3>1 DEF Gen!Next
  <2>6. CASE UNCHANGED vars
    <3>1. UNCHANGED <<heapVars, objVars, callVars>> /\ UNCHANGED <<wall, peak>>
      BY <2>6 DEF vars
    <3> QED
      BY <2>3, <3>1 DEF Gen!vars, Gen!genVars
  <2>7. CASE \E h \in Objects : Own(h)
    <3> HIDE DEF Own, Step
    <3> QED
      BY <2>1, <2>2, <2>7
  <2> QED
    BY <1>1, <2>4, <2>5, <2>6, <2>7 DEF Next
<1>2. WasmInv /\ WasmInv' /\ [Next]_vars => \A g \in Objects : Backed(g)' => Step(g)
  <2> HIDE DEF Step
  <2> QED
    BY <1>1
<1>3. WasmInv /\ WasmInv' /\ [Next]_vars =>
        [\A g \in Objects :
           Backed(g)' =>
             IF Backed(g)
             THEN Gen(g)!Next \/ UNCHANGED Gen(g)!vars
             ELSE /\ \E r \in os_time_ms(wall), d \in Draw :
                       (mem[ptr[g].ctx])' = Reseeded(r, d)
                  /\ Seen(mem, held[g])' = NoId]_vars
  BY <1>2
<1> QED
  BY <1>3, WasmInvariance, PTL DEF Spec, IsolatedState

-----------------------------------------------------------------------------

\* Context c is the one that wrote u, if anything was written: it agrees with
\* it field by field, or in the timestamp alone while the counter is spent.
Agrees(c, u, spent) ==
  /\ c.last_timestamp_ms <= MaxTime
  /\ u # NoId => /\ u \in Identifier
                 /\ IF spent THEN u.unix_ts_ms = c.last_timestamp_ms
                             ELSE u = Serialised(c)

\* That holds of the context at an object's address and the identifier its
\* caller holds, whoever else has used the memory before.
Remembered ==
  \A g \in Objects :
    Backed(g) =>
      Agrees(mem[ptr[g].ctx], Seen(mem, held[g]), running = g /\ pc = "spin")

\* v may follow u.
Follows(u, v) == u # NoId => Precedes(u, v) \/ v.unix_ts_ms < u.unix_ts_ms

LEMMA OtherTime ==
  ASSUME NEW u \in Identifier, NEW c \in Context, MaxTime < TsLimit,
         c.last_timestamp_ms <= MaxTime, u.unix_ts_ms # c.last_timestamp_ms
  PROVE  Follows(u, Serialised(c))
<1>1. c.last_timestamp_ms < TsLimit
  BY ClockAssumption, ContextAssumption DEF Context
<1>2. Serialised(c) \in Identifier /\ Serialised(c).unix_ts_ms = c.last_timestamp_ms
  BY <1>1, SerialisedType, SerialisedTimestamp
<1> QED
  BY <1>2, OtherTimestamp DEF Follows

\* The context a call leaves is within the clock's range, and what it writes
\* may follow what was written before.
LEMMA LeavesInOrder ==
  ASSUME MaxTime < TsLimit, WasmInv, Remembered, NEW g \in Objects,
         Generate(g) \/ SpinExit(g)
  PROVE  \E c \in Context : /\ Return(g, c)
                            /\ c.last_timestamp_ms <= MaxTime
                            /\ Follows(Seen(mem, held[g]), Serialised(c))
<1>1. PICK old, u : old = mem[ptr[g].ctx] /\ u = Seen(mem, held[g])
  OBVIOUS
<1>2. running = g /\ Backed(g) /\ old \in Context /\ old.last_timestamp_ms \in Nat
  BY <1>1, Returns, Working DEF Context
<1>3. Agrees(old, u, pc = "spin")
  BY <1>1, <1>2 DEF Remembered
<1>4. now \in Nat /\ now <= MaxTime
  BY ClockAssumption DEF WasmInv, TypeOK
<1>5. old.last_timestamp_ms < TsLimit
  BY <1>2, <1>3, ClockAssumption, ContextAssumption DEF Agrees
<1>6. ASSUME NEW t \in Nat, NEW d \in Draw, t <= MaxTime, t # old.last_timestamp_ms
      PROVE  /\ Reseeded(t, d) \in Context
             /\ Reseeded(t, d).last_timestamp_ms <= MaxTime
             /\ Follows(u, Serialised(Reseeded(t, d)))
  <2>1. PICK c : c = Reseeded(t, d)
    OBVIOUS
  <2>2. c \in Context /\ c.last_timestamp_ms = t
    BY <2>1, ReseededType
  <2>3. u # NoId => u \in Identifier /\ u.unix_ts_ms = old.last_timestamp_ms
    BY <1>2, <1>3, <1>5, SerialisedTimestamp DEF Agrees
  <2>4. CASE u # NoId
    BY <1>6, <2>2, <2>3, <2>4, OtherTime, <2>1
  <2>5. CASE u = NoId
    BY <1>6, <2>1, <2>2, <2>5 DEF Follows
  <2> QED
    BY <2>4, <2>5
<1>7. CASE SpinExit(g)
  <2>1. PICK r \in os_time_ms(wall), d \in Draw :
          r # old.last_timestamp_ms /\ Return(g, Reseeded(r, d))
    BY <1>1, <1>7 DEF SpinExit
  <2>2. r \in Nat /\ r <= MaxTime
    BY <2>1, Readings, ClockAssumption
  <2> QED
    BY <1>1, <1>6, <2>1, <2>2
<1>8. CASE Generate(g)
  <2>1. PICK c \in Nexts(old) : Return(g, c)
    BY <1>1, <1>8 DEF Generate
  <2>2. pc = "called" /\ old.counter_high < HighLimit
    BY <1>1, <1>2, <1>8, Working DEF Generate
  <2>3. CASE IsSameOrSmallRegress(old, now)
    <3>1. c = Bumped(old) /\ ~IsExhausted(Bumped(old))
      BY <2>1, <2>3 DEF Nexts
    <3>2. c \in Context /\ c.last_timestamp_ms = old.last_timestamp_ms
      BY <1>2, <2>2, <3>1, BumpedType
    <3>3. Precedes(Serialised(old), Serialised(c))
      BY <1>2, <2>2, <3>1, BumpedIsAbove
    <3>4. u # NoId => u = Serialised(old)
      BY <1>3, <2>2 DEF Agrees
    <3>5. old.last_timestamp_ms <= MaxTime
      BY <1>3 DEF Agrees
    <3> QED
      BY <1>1, <2>1, <3>2, <3>3, <3>4, <3>5 DEF Follows
  <2>4. CASE ~IsSameOrSmallRegress(old, now)
    <3>1. PICK d \in Draw : c = Reseeded(now, d)
      BY <2>1, <2>4 DEF Nexts
    <3>2. now # old.last_timestamp_ms
      BY <1>2, <1>4, <2>4 DEF IsSameOrSmallRegress, Delta
    <3> QED
      BY <1>1, <1>4, <1>6, <2>1, <3>1, <3>2
  <2> QED
    BY <2>3, <2>4
<1> QED
  BY <1>7, <1>8

\* The step of one object keeps what is remembered of it.
LEMMA OwnRemembered ==
  ASSUME MaxTime < TsLimit, WasmInv, WasmInv', Remembered, NEW g \in Objects, Backed(g)',
         \/ New(g) \/ init(g) \/ Call(g) \/ Destroy(g)
         \/ ReturnEarly(g) \/ Generate(g) \/ Exhaust(g) \/ SpinExit(g)
  PROVE  Agrees(mem[ptr[g].ctx], Seen(mem, held[g]), running = g /\ pc = "spin")'
<1> USE WasmAssumption
<1>1. CASE New(g) \/ init(g)
  <2>1. /\ \E r \in os_time_ms(wall), d \in Draw : (mem[ptr[g].ctx])' = Reseeded(r, d)
        /\ Seen(mem, held[g])' = NoId
    BY <1>1, Constructed
  <2>2. (mem[ptr[g].ctx])'.last_timestamp_ms <= MaxTime
    BY <2>1, Readings, ReseededType, ClockAssumption
  <2> QED
    BY <2>1, <2>2 DEF Agrees
<1>2. CASE Call(g)
  <2>1. UNCHANGED <<mem, ptr, held>> /\ running = Nobody /\ pc' = "called"
    BY <1>2 DEF Call, Quiet, heapVars, objVars
  <2>2. Agrees(mem[ptr[g].ctx], Seen(mem, held[g]), FALSE)
    BY <2>1 DEF Remembered, Backed
  <2> QED
    BY <2>1, <2>2 DEF Agrees, Seen
<1>3. CASE Destroy(g)
  BY <1>3 DEF Destroy, WasmInv, TypeOK, Backed
<1>4. CASE ReturnEarly(g)
  BY <1>4 DEF ReturnEarly, Answer, Backed
<1>5. CASE Generate(g) \/ SpinExit(g)
  <2>1. PICK c \in Context : Return(g, c) /\ c.last_timestamp_ms <= MaxTime
    BY <1>5, LeavesInOrder
  <2>2. running = g /\ Backed(g)
    BY <1>5, Returns
  <2>3. /\ mem'[ptr'[g].ctx] = c
        /\ Seen(mem, held[g])' = Serialised(c)
        /\ running' = Nobody
    BY <2>1, <2>2, ReturnShows
  <2> QED
    BY <2>1, <2>3, SerialisedType DEF Agrees
<1>6. CASE Exhaust(g)
  <2>1. PICK old, u : old = mem[ptr[g].ctx] /\ u = Seen(mem, held[g])
    OBVIOUS
  <2>2. /\ running = g /\ pc = "called" /\ Backed(g)
        /\ mem' = [mem EXCEPT ![ptr[g].ctx] = Bumped(old)] /\ pc' = "spin"
        /\ UNCHANGED <<ptr, held, running>>
    BY <1>6, <2>1 DEF Exhaust, objVars
  <2>3. mem'[ptr'[g].ctx] = Bumped(old) /\ Seen(mem, held[g])' = u
    BY <2>1, <2>2 DEF WasmInv, TypeOK, Copies, Seen
  <2>4. old \in Context /\ old.counter_high < HighLimit /\ old.last_timestamp_ms \in Nat
    BY <2>1, <2>2, Working DEF Context
  <2>5. Agrees(old, u, FALSE)
    BY <2>1, <2>2 DEF Remembered
  <2>6. Bumped(old).last_timestamp_ms = old.last_timestamp_ms
    BY <2>4, BumpedType
  <2>7. Serialised(old).unix_ts_ms = old.last_timestamp_ms
    BY <2>4, <2>5, SerialisedTimestamp, ClockAssumption, ContextAssumption DEF Agrees
  <2> QED
    BY <2>2, <2>3, <2>5, <2>6, <2>7 DEF Agrees
<1> QED
  BY <1>1, <1>2, <1>3, <1>4, <1>5, <1>6

\* The steps of others and of the clock do.
LEMMA FrameRemembered ==
  ASSUME Remembered, NEW g \in Objects, ptr'[g] = ptr[g], UNCHANGED Gen(g)!genVars,
         Backed(g)'
  PROVE  Agrees(mem[ptr[g].ctx], Seen(mem, held[g]), running = g /\ pc = "spin")'
<1>1. Agrees(mem[ptr[g].ctx], Seen(mem, held[g]), running = g /\ pc = "spin")
  BY DEF Remembered, Backed
<1>2. /\ mem'[ptr'[g].ctx] = mem[ptr[g].ctx]
      /\ Seen(mem, held[g])' = Seen(mem, held[g])
      /\ (IF running' = g THEN pc' ELSE "idle") = (IF running = g THEN pc ELSE "idle")
  BY DEF Gen!genVars
<1>3. (running' = g /\ pc' = "spin") <=> (running = g /\ pc = "spin")
  BY <1>2
<1> QED
  BY <1>1, <1>2, <1>3 DEF Agrees

LEMMA RememberedStep ==
  ASSUME MaxTime < TsLimit
  PROVE  WasmInv /\ WasmInv' /\ Remembered /\ [Next]_vars => Remembered'
<1> DEFINE Own(g) == \/ New(g) \/ init(g) \/ Call(g) \/ Destroy(g)
                     \/ ReturnEarly(g) \/ Generate(g) \/ Exhaust(g) \/ SpinExit(g)
<1> SUFFICES ASSUME WasmInv, WasmInv', Remembered, [Next]_vars,
                    NEW g \in Objects, Backed(g)'
             PROVE  Agrees(mem[ptr[g].ctx], Seen(mem, held[g]),
                           running = g /\ pc = "spin")'
  BY DEF Remembered
<1>1. CASE Own(g)
  BY <1>1, OwnRemembered
<1>2. ASSUME NEW h \in Objects \ {g}, Own(h)
      PROVE  ptr'[g] = ptr[g] /\ UNCHANGED Gen(g)!genVars
  BY <1>2, OthersStep
<1>3. CASE UNCHANGED <<heapVars, objVars, callVars>>
  <2>1. ptr'[g] = ptr[g] /\ UNCHANGED Gen(g)!genVars
    BY <1>3 DEF heapVars, objVars, callVars, Gen!genVars, Seen
  <2> QED
    BY <2>1, FrameRemembered
<1>4. CASE \E h \in Objects : Own(h)
  <2> HIDE DEF Own
  <2> QED
    BY <1>1, <1>2, <1>4, FrameRemembered
<1>5. CASE generate
  <2>1. default \in Objects /\ Own(default)
    BY <1>5 DEF generate, WasmInv, TypeOK
  <2> QED
    BY <1>4, <2>1
<1> QED
  BY <1>3, <1>4, <1>5 DEF Next, vars

\* On any clock, each object's identifiers are in order or say in their
\* timestamps that they are not, in memory that has had other owners.
THEOREM WasmInOrder ==
  ASSUME MaxTime < TsLimit
  PROVE  Spec => AnswersInOrder
<1>1. Init => Remembered
  BY DEF Init, Remembered, Backed
<1>2. Spec => [](WasmInv /\ Remembered)
  BY <1>1, RememberedStep, WasmInvariance, PTL DEF Spec
<1>3. ASSUME WasmInv, Remembered, [Next]_vars, NEW g \in Objects, Answers(g), Backed(g)
      PROVE  Follows(Seen(mem, held[g]), Seen(mem, held[g])')
  <2>1. Generate(g) \/ SpinExit(g)
    BY <1>3, WasmAssumption
       DEF WasmInv, TypeOK, Answers, Next, generate, New, init, Call, Destroy, ReturnEarly,
           Generate, Exhaust, SpinExit, Return, Answer, Quiet, callVars, vars
  <2>2. PICK c \in Context : Return(g, c) /\ Follows(Seen(mem, held[g]), Serialised(c))
    BY <1>3, <2>1, LeavesInOrder
  <2>3. Seen(mem, held[g])' = Serialised(c)
    BY <1>3, <2>2, ReturnShows DEF Answers
  <2> QED
    BY <2>2, <2>3
<1>4. WasmInv /\ Remembered /\ [Next]_vars =>
        [\A g \in Objects :
           Answers(g) /\ Backed(g) /\ Seen(mem, held[g]) # NoId =>
             \/ Precedes(Seen(mem, held[g]), Seen(mem, held[g])')
             \/ (Seen(mem, held[g])').unix_ts_ms < Seen(mem, held[g]).unix_ts_ms]_vars
  BY <1>3 DEF Follows
<1> QED
  BY <1>2, <1>4, PTL DEF Spec, AnswersInOrder

=============================================================================
