--------------------------- MODULE WasmGenerator ---------------------------
(***************************************************************************)
(* The JavaScript binding (bindings/wasm/uuid7_wasm.js): UUID7Generator    *)
(* objects that hold addresses in the memory of a WebAssembly module, and  *)
(* the default one behind the module-level functions.                      *)
(*                                                                         *)
(* JavaScript runs one call at a time and a call into the module does not  *)
(* return before it is done, so objects interleave by whole calls.  What   *)
(* they share is the memory: blocks that malloc hands out, takes back and  *)
(* hands out again, and an address 0 that reads like any other.  The       *)
(* module is ready: before it is, it exports no function to call, and a    *)
(* constructor that calls one throws with nothing changed.                 *)
(***************************************************************************)
EXTENDS Clock, Uuid7Context

CONSTANTS
  Objects,    \* the UUID7Generator objects a program may make
  Nobody,     \* no object
  Addresses,  \* where malloc may put a block
  Null,       \* address 0, which is also what null and undefined become
  Failures,   \* what malloc may do without memory: return 0 ("null"), as in a
              \* build whose memory grows, or throw ("abort"), as in uuid7.js
  NoId        \* sixteen bytes that are no identifier

ASSUME NoIdAssumption == NoId \notin Identifier \cup Context

ASSUME WasmAssumption ==
  /\ Nobody \notin Objects
  /\ Null \notin Addresses
  /\ Failures \subseteq {"null", "abort"}

VARIABLES
  mem,      \* what lies at each address
  taken,    \* the addresses malloc has handed out
  lost,     \* history: blocks of a constructor that threw half way
  made,     \* the objects constructed so far
  ptr,      \* _ctx and _bufPtr of each object
  default,  \* _defaultGen
  held,     \* the array each object returned last
  running,  \* the object whose generate() is running
  pc, now   \* as in Uuid7Generator

heapVars == <<mem, taken, lost>>
objVars == <<made, ptr, default, held>>
callVars == <<running, pc, now>>
vars == <<wall, peak, heapVars, objVars, callVars>>

Bytes == Identifier \cup Context \cup {NoId}

\* A Uint8Array of sixteen bytes: on the module's memory, or with its own.
Array == [shared : BOOLEAN, at : Addresses \cup {Null}, bytes : Bytes]

TypeOK ==
  /\ ClockTypeOK
  /\ mem \in [Addresses \cup {Null} -> Bytes]
  /\ taken \subseteq Addresses /\ lost \subseteq Addresses
  /\ made \subseteq Objects
  /\ ptr \in [Objects -> [ctx : Addresses \cup {Null}, buf : Addresses \cup {Null}]]
  /\ default \in made \cup {Nobody}
  /\ held \in [Objects -> Array]
  /\ running \in Objects \cup {Nobody}
  /\ pc \in {"idle", "called", "spin"}
  /\ now \in 0..MaxTime

-----------------------------------------------------------------------------

Uint8Array(a) == [shared |-> TRUE, at |-> a, bytes |-> NoId]

\* What an array shows while the module's memory is m.
Seen(m, array) == IF array.shared THEN m[array.at] ELSE array.bytes

\* Mutant: the array is handed out as it is.
slice_omitted(m, array) == array

\* A copy that the module's memory no longer reaches.
slice(m, array) == [shared |-> FALSE, at |-> Null, bytes |-> Seen(m, array)]

\* g has a context and a buffer to pass to the C library.
Backed(g) == ptr[g].ctx # Null /\ ptr[g].buf # Null

Free == Addresses \ taken

\* No JavaScript is on the stack.
Quiet == running = Nobody

-----------------------------------------------------------------------------

Init ==
  /\ ClockInit
  /\ mem = [a \in Addresses \cup {Null} |-> NoId]
  /\ taken = {} /\ lost = {}
  /\ made = {} /\ default = Nobody
  /\ ptr = [g \in Objects |-> [ctx |-> Null, buf |-> Null]]
  /\ held = [g \in Objects |-> slice(mem, Uint8Array(Null))]
  /\ running = Nobody /\ pc = "idle" /\ now = 0

\* uuid7_create at a free address a: allocated and initialised.
Create(a) ==
  \E r \in os_time_ms(wall), d \in Draw : mem' = [mem EXCEPT ![a] = Reseeded(r, d)]

\* The constructor comes to its end with context c and buffer b.
Hold(g, c, b) ==
  /\ ptr' = [ptr EXCEPT ![g] = [ctx |-> c, buf |-> b]]
  /\ made' = made \cup {g}
  /\ taken' = taken \cup ({c, b} \ {Null})
  /\ UNCHANGED lost

\* Both allocations succeed.
Construct(g) == \E c \in Free : \E b \in Free \ {c} : Create(c) /\ Hold(g, c, b)

\* The second returns 0, which nobody looks at.
ConstructWithoutBuffer(g) ==
  "null" \in Failures /\ \E c \in Free : Create(c) /\ Hold(g, c, Null)

\* The second throws, out of the constructor: there is no object, and nobody
\* is left who could free the context.
ConstructorAborts ==
  /\ "abort" \in Failures
  /\ \E c \in Free :
       /\ Create(c)
       /\ taken' = taken \cup {c}
       /\ lost' = lost \cup {c}
  /\ UNCHANGED <<made, ptr>>

\* new UUID7Generator(module).  When the first allocation fails, either way,
\* the constructor throws before anything has changed.
New(g) ==
  /\ Quiet /\ g \notin made
  /\ Construct(g) \/ ConstructWithoutBuffer(g) \/ ConstructorAborts
  /\ UNCHANGED <<wall, peak, default, held, callVars>>

\* Mutant: _defaultGen is the object before its constructor is through, and
\* stays so if that throws.
initTooEarly(g) ==
  /\ Quiet /\ g \notin made
  /\ default = Nobody
  /\ default' = g
  /\ \/ Construct(g) \/ ConstructWithoutBuffer(g)
     \/ /\ "abort" \in Failures
        /\ \E c \in Free :
             /\ Create(c)
             /\ taken' = taken \cup {c}
             /\ lost' = lost \cup {c}
        /\ made' = made \cup {g}
        /\ UNCHANGED ptr
  /\ UNCHANGED <<wall, peak, held, callVars>>

\* init(module): _defaultGen is assigned when a constructor has returned, and
\* stays unassigned when it throws.  Once assigned, init does nothing.
init(g) ==
  /\ Quiet /\ g \notin made
  /\ default = Nobody
  /\ \/ (Construct(g) \/ ConstructWithoutBuffer(g)) /\ default' = g
     \/ ConstructorAborts /\ UNCHANGED default
  /\ UNCHANGED <<wall, peak, held, callVars>>

-----------------------------------------------------------------------------

\* g.generate(): into uuid7_generate, which reads the clock unless it was
\* handed a null pointer.
Call(g) ==
  /\ Quiet /\ g \in made
  /\ running' = g
  /\ pc' = "called"
  /\ IF Backed(g) THEN now' \in os_time_ms(wall) ELSE now' = 0
  /\ UNCHANGED <<wall, peak, heapVars, objVars>>

\* The module-level generate(), generateHex() and generateString(), which are
\* calls of the default generator and throw without one.  What the last two
\* make of the bytes is TextForm.
generate == default # Nobody /\ Call(default)

\* Back in JavaScript with the memory at m: a copy of what is at _bufPtr now.
Answer(g, m) ==
  /\ mem' = m
  /\ held' = [held EXCEPT ![g] = slice(m, Uint8Array(ptr[g].buf))]
  /\ running' = Nobody /\ pc' = "idle" /\ now' = 0
  /\ UNCHANGED <<wall, peak, taken, lost, made, ptr, default>>

\* The memory once uuid7_generate_ex has left the context at c and written it
\* to the buffer.
Written(g, c) == [mem EXCEPT ![ptr[g].ctx] = c, ![ptr[g].buf] = Serialised(c)]

Return(g, c) == Answer(g, Written(g, c))

\* uuid7_generate returns early: a pointer is null.
ReturnEarly(g) ==
  /\ running = g /\ ~Backed(g)
  /\ Answer(g, mem)

\* The contexts uuid7_generate_ex may leave for its reading, unless the
\* counter runs out.
Nexts(c) ==
  IF IsSameOrSmallRegress(c, now)
  THEN {b \in {Bumped(c)} : ~IsExhausted(b)}
  ELSE {Reseeded(now, d) : d \in Draw}

Generate(g) ==
  /\ running = g /\ pc = "called" /\ Backed(g)
  /\ \E c \in Nexts(mem[ptr[g].ctx]) : Return(g, c)

\* The counter has run out; JavaScript waits in the loop.
Exhaust(g) ==
  /\ running = g /\ pc = "called" /\ Backed(g)
  /\ IsSameOrSmallRegress(mem[ptr[g].ctx], now)
  /\ IsExhausted(Bumped(mem[ptr[g].ctx]))
  /\ mem' = [mem EXCEPT ![ptr[g].ctx] = Bumped(@)]
  /\ pc' = "spin"
  /\ UNCHANGED <<wall, peak, taken, lost, objVars, running, now>>

SpinExit(g) ==
  /\ running = g /\ pc = "spin"
  /\ \E r \in os_time_ms(wall), d \in Draw :
       /\ r # mem[ptr[g].ctx].last_timestamp_ms
       /\ Return(g, Reseeded(r, d))

-----------------------------------------------------------------------------

\* What is freed: the buffer, then the context, each unless it is null.
Blocks(g) == {ptr[g].ctx, ptr[g].buf} \ {Null}

\* uuid7_destroy clears the context; free leaves the buffer's bytes.
Cleared(g) ==
  IF ptr[g].ctx = Null THEN mem ELSE [mem EXCEPT ![ptr[g].ctx] = NoId]

\* Mutant: destroy() keeps the address of the context.
DestroyKeepingContext(g) ==
  /\ Quiet /\ g \in made \ {default}
  /\ taken' = taken \ Blocks(g)
  /\ mem' = Cleared(g)
  /\ ptr' = [ptr EXCEPT ![g].buf = Null]
  /\ UNCHANGED <<wall, peak, lost, made, default, held, callVars>>

\* Mutant: destroy() keeps the address of the buffer.
DestroyKeepingBuffer(g) ==
  /\ Quiet /\ g \in made \ {default}
  /\ taken' = taken \ Blocks(g)
  /\ mem' = Cleared(g)
  /\ ptr' = [ptr EXCEPT ![g].ctx = Null]
  /\ UNCHANGED <<wall, peak, lost, made, default, held, callVars>>

\* Mutant: destroy() keeps both.
DestroyKeepingBoth(g) ==
  /\ Quiet /\ g \in made \ {default}
  /\ taken' = taken \ Blocks(g)
  /\ mem' = Cleared(g)
  /\ UNCHANGED <<wall, peak, lost, made, ptr, default, held, callVars>>

\* destroy(), any number of times.  The module does not export its default
\* generator, so nobody can destroy that one.
Destroy(g) ==
  /\ Quiet /\ g \in made \ {default}
  /\ taken' = taken \ Blocks(g)
  /\ mem' = Cleared(g)
  /\ ptr' = [ptr EXCEPT ![g] = [ctx |-> Null, buf |-> Null]]
  /\ UNCHANGED <<wall, peak, lost, made, default, held, callVars>>

-----------------------------------------------------------------------------

Next ==
  \/ \E g \in Objects :
       \/ New(g) \/ init(g) \/ Call(g) \/ Destroy(g)
       \/ ReturnEarly(g) \/ Generate(g) \/ Exhaust(g) \/ SpinExit(g)
  \/ generate
  \/ ClockNext /\ UNCHANGED <<heapVars, objVars, callVars>>

Spec == Init /\ [][Next]_vars

=============================================================================
