# uuid7: TLA+ models, model checking and proofs

uuid7 is a C library that makes UUIDs of version 7 - 48 bits of Unix time in
milliseconds, then 4 random bits and a 70-bit counter that starts at a random
value in each millisecond - with bindings for Go, Rust, Python and WebAssembly.
Its promise is order: identifiers of one context sort in the order they were
made. The code is short, and what can go wrong in it takes a clock that is
corrected at the wrong moment, a counter of 2^70 that runs out, two threads in the
same function, or an allocation that fails half way. Tests do not reach these; the
modules here do.

Source paths below are relative to the repository. `src/uuid7.c` is the library,
`bindings/golang/uuid7.go` the Go binding, and so on.

## The system

| component | code | state | operations | modelled by |
|---|---|---|---|---|
| generator core | `src/uuid7.c:47-116`, `src/internal.h` | `uuid7_ctx`: last timestamp, `rand_a_high`, `counter_high`, `counter_low` | `uuid7_init`, `uuid7_generate`, `uuid7_generate_ex` | `Uuid7Context`, `Uuid7Generator`, `Uuid7Ordering` |
| wall clock | `src/clock.c` | the host's clock | `os_time_ms` | `Clock` |
| identifier layout | `src/uuid7.c:13-30,104-109` | the sixteen bytes | `write_be48`, `write_be56`, bytes 6 to 8 | `UuidLayout` |
| one context, several threads | the C copy of each binding | the context, each thread's registers and buffer | `uuid7_generate` in steps | `SharedCall` |
| Go `Generator` | `bindings/golang/uuid7.go:22-50` | mutex, pointer to the context | `NewGenerator`, `Generate`, `Close` | `GoGenerator`, `GoOrdering` |
| default generators | `bindings/python/uuid7/__init__.py`, `bindings/golang/uuid7.go:54-70`, `bindings/rust/src/lib.rs:52-64` | the lock of the creation, whether it is done, the generator, its mutex | `generate`, `_default`, `default_gen` | `DefaultGenerator`, `DefaultOrdering` |
| WASM binding | `bindings/wasm/uuid7_wasm.js`, `.c` | context and buffer addresses of each object, `_defaultGen`, the module's memory | constructor, `generate`, `destroy`, `init` | `WasmGenerator`, `WasmOrdering` |
| random state | `src/prng.c` | four words of xoshiro256** | `prng_seed`, `prng_fill` | `Seeding`, `Xoshiro` |
| text form | `UUIDToString`, `to_string`, `generate_str`, `generateString` | none | formatting | `TextForm` |
| Rust `Generator` | `bindings/rust/src/lib.rs:10-50` | pointer to the context | `new`, `generate`, `drop` | `&mut self` makes it `Uuid7Generator` |
| Python generator objects | `_ffi.py` | `_ctx`, `_heap` | `generate`, `close`, `__exit__`, `__del__` | not modelled, see below |
| context on the heap | `src/uuid7.c:32-45` | allocated or not | `uuid7_create`, `uuid7_destroy` | in `GoGenerator`, `DefaultGenerator`, `WasmGenerator` |
| C copies in the bindings | `uuid7_core.c`, `prng.c`, `clock.c` | as `src/` | as `src/` | the modules of `src/` |
| tests, benchmarks, examples, build, CI | | none | | not modelled |

How the parts meet. A call of `uuid7_generate` reads the clock and passes the
reading to `uuid7_generate_ex`, which compares it with the context's last
timestamp and takes one of three branches: a new millisecond (take it, draw the
random fields), the same one or a step back of at most
`UUID7_CLOCK_BACKWARD_THRESHOLD_MS` (keep the timestamp, count up), a larger step
back (follow the clock, draw). When the counter runs out in the middle branch, the
call reads the clock again until it shows another millisecond. The context is the
only state and nothing guards it: whoever shares one has to. The bindings share
one - Go under a mutex per generator, Rust under a mutex around the default,
Python under nothing but the lock that guards its creation - and own its memory.
JavaScript runs one call at a time, but its objects hold bare addresses in a memory
that they share, where a freed block soon belongs to another object and address 0
reads like any other.

What is hard, and what makes each part correct:

- *The clock moves between any two steps*, in both directions, and is read a
  second time by a call that waits. Order must survive what it can survive, and
  where it cannot, the break must be visible in the timestamps.
- *The counter's ends*: the wrap of 56 bits, the carry into 14, the value 0x4000
  that fits 16 bits and must never be written, once in 2^56 or 2^70 calls.
- *Small corrections add up*; the whole-second fallback of `os_time_ms` is a
  correction of up to 999 ms that nobody made.
- *Waiting* for the clock must end, with a mutex held, too.
- *Threads* in one context: identifiers must be those of some sequential use.
- *Lifetime*: closing while others call; creating once, and again after a failure;
  a second allocation that fails when the first has succeeded; a block that has
  found a new owner.
- *Seeding without entropy*: from the time, a counter that may stand still, and two
  addresses.

`PROJECT.json` lists these as hazards, each at its line with the properties that
would catch it, and the few that no property covers with the reason.

## Modules

Each module extends the ones it is indented under, and `GoOrdering` and
`DefaultOrdering` extend `SharedView` too:

```
Clock, Uuid7Context
  Uuid7Generator        one caller
    Uuid7Ordering       implements OrderedIds
  SharedCall            several threads, one context
    SharedView          the threads seen as one caller
    GoGenerator
      GoOrdering        implements Uuid7Generator
    DefaultGenerator
      DefaultOrdering   implements Uuid7Generator (Go and Rust)
  WasmGenerator
    WasmOrdering        implements Uuid7Generator, object by object
Uuid7Context
  UuidLayout            bytes
    TextForm            text
Xoshiro
  Seeding
```

`Clock`. The host's clock `wall`, its highest value `peak` (history), and
`os_time_ms`: the milliseconds (`"ms"`: `clock_gettime`, or the Windows branch), or
whole seconds (`"s"`: `time()`, in any call in which `clock_gettime` fails, or in
every call of a build without it). `Sources` says which branches a host can take.
`MaxLag` bounds how far a correction leaves the clock behind its peak.

`Uuid7Context`. The fields, and one operator per line of thought of
`uuid7_generate_ex`: the signed difference `Delta`, the three branch conditions,
`Bumped` (increment, mask, carry), `IsExhausted`, `Reseeded`, and `Serialised`, what
of a context reaches the bytes. Widths are constants: 2^4, 2^14, 2^56, 2^48. The
random fields are drawn as any value they can hold: that is all the code relies
on. `Precedes` is memcmp, field by field.

`Uuid7Generator`. One caller. `Init` is `uuid7_init`. A call is `Call` (the clock is
read), then one of `NewMillisecond`, `CountUp`, `LargeRegress`, which also write the
identifier - or `Exhaust` followed by `SpinAgain` any number of times and
`SpinExit`. `Advance` and `StepBack` of the clock come between any two of these.
One call of `uuid7_generate_ex` with its reading already made is one step: within
it the code looks at nothing another party can change.

`OrderedIds`. The abstract source: requests and answers, nothing else. In
`StrictSpec` an answer is above the one before; in `EpochSpec` it may also start
over, at an identifier that carries an earlier time.

`Uuid7Ordering`. The properties of the generator, and the refinement of
`OrderedIds` (a request is pending while a call runs; the last answer is `out`).

`UuidLayout`. The sixteen bytes, by divisions and remainders, and memcmp on bytes:
it justifies `Precedes`.

`SharedCall`. `uuid7_generate` by several threads on one context, in the order of its
accesses: `ReadClock`, `Load`, one of three stores (`StoreReseeded`, `StoreCounted`,
`StoreExhausted` followed by `SpinExit`), `Write`. A store writes only the fields the
code writes, from the registers the thread loaded. The steps are coarser than the
machine's. Where there is a data race the model therefore has some of its outcomes
and no impossible one, which is enough to refute a property (`python_race`); where a
lock is held over the call nothing finer could be seen, which is what makes it
enough to establish one (`go_generator`).

`GoGenerator`. Goroutines that call `Generate` and `Close` at any time. The mutex is
its holder; `ptr` is `g.ctx`; `freed` says that the context's memory was given back.
Freeing and clearing the pointer are two steps, returning the buffer comes after
`Unlock`. What freed memory contains is not modelled: `NoUseAfterFree` says that
nobody looks.

`GoOrdering`. The properties, and the refinement: the goroutines seen as the one
caller of `Uuid7Generator`.

`SharedView`. That view, of threads of which one at a time is in the C call. The call
ends where the context is stored. Go's generator and the default generators share it.

`DefaultGenerator`. The generator behind the module-level functions of Python, Go and
Rust; `binding` says which. `Check` is the look without a lock, `Acquire` to `Release`
the creation under one - Python's own double check, the inside of `sync.Once`, the
inside of `OnceLock`. They differ in what is visible when (`Publish`; `Assign`, then
`Complete`), in a failed creation (`MemoryError` leaves everything as it was,
`ClosurePanics` too, `OncePanics` marks the Once as done, so that later calls run into
`NilPanics`) and in `Enter`, which takes a mutex in Go and Rust and nothing in Python,
whose cffi gives up the interpreter lock around the C call. `Unlock` and `Deliver` are
the two steps after it, as in `GoGenerator`.

`DefaultOrdering`. Its properties. In Go and Rust the threads implement
`Uuid7Generator` from the step that creates the context.

`WasmGenerator`. JavaScript objects on the memory of one WebAssembly module. `mem` is
what lies at each address, `taken` what malloc has handed out, `ptr` the two addresses
an object holds. A call into the module is not interrupted by other JavaScript, so
objects interleave by whole calls; the clock moves during one, and one that waits
(`Exhaust`, `SpinExit`) keeps every other call waiting. Creation may fail at its
second allocation in the two ways a build can: malloc returns 0, which the
constructor does not look at (`ConstructWithoutBuffer`), or throws out of the
constructor (`ConstructorAborts`), as in the committed `uuid7.js`. `generate` on an
object without its blocks is `ReturnEarly`: the bytes at address 0 come back. An array
handed out is a record that says whether it shows the module's memory or bytes of its
own, which is what `.slice()` is about.

`WasmOrdering`. Its properties, with each object seen as the caller of a
`Uuid7Generator` of its own (`Gen(g)`), from constructor to `destroy`.

`TextForm`. The text of the bytes of `UuidLayout`, digit by digit because the
properties are about digits: `toString`, `padStart` and half-open slices as JavaScript
writes it, a loop that puts hyphens in as Go does. Python's slices are those of
JavaScript and Rust's loop is Go's.

`Xoshiro`. Words as sets of bit positions; the step of the four words of xoshiro256
and the seed made without entropy.

`Seeding`. The random states of contexts side by side: `prng_seed` with or without
entropy, its warm-up steps, draws, and the end of the context. `past` keeps all states
since seeding, the last being `prng->s`.

`MCUuid7`, `MCLayout`, `MCGo`, `MCDefault`, `MCWasm` and `MCSeeding` instantiate these for
TLC; the modules named `...Proofs` hold the theorems. Operators commented "Mutant" are wrong versions of the definition
below them. No model uses them; replacing the definition by one must break the
property `PROJECT.json` pairs it with, which shows that the property can fail.

## Runs

| run | instance | shows |
|---|---|---|
| `free_clock` | clock set to anything, both branches of `os_time_ms` in any mix | types; the context is never ahead of the clock (`NeverAheadOfClock`) and agrees with the last identifier (`ContextRemembersOut`); every break of order carries an earlier time (`OrderBreaksOnlyBackInTime`); a timestamp lies between its reading and the threshold after it (`TimestampFollowsReading`) |
| `steady_clock` | clock that never steps back, read in whole seconds | strict order (`StrictlyIncreasing`); calls return (`CallReturns`) |
| `jitter` | corrections and the whole-second fallback reach the threshold exactly | the timestamp goes back only where the counter ran out (`RegressOnlyAtExhaustion`) |
| `layout` | bytes of three bits, digits of three values, fields at their ends and around byte boundaries | sixteen bytes with version and variant (`WellFormed`); memcmp is the order of the fields (`BytesInFieldOrder`); both ways of writing the text agree (`RenderingsAgree`) and sorting it sorts the bytes (`TextInByteOrder`) |
| `go_generator` | two goroutines | the goroutines are a sequential caller (`IsSequential`) and each is handed an identifier above the one written last and all that are held (`HandedOutInOrder`), memory is safe (`NoUseAfterFree`), an open generator answers (`ZeroOnlyWhenClosed`), calls return (`CallsReturn`), types |
| `default_generator` | the three bindings, two threads, two failed creations | one generator, complete before use, and in Go a single attempt (`OneDefault`); in Go and Rust the threads are a sequential caller (`LockedIsSequential`) and get their identifiers in order (`LockedInOrder`); Python and Rust recover from failed creations (`Recovers`); calls return (`CallsReturn`) |
| `wasm` | two objects, four blocks, both ways for an allocation to fail, any clock | every block has one owner (`BlocksOwnedOnce`) and the default generator, once assigned, a context for good (`DefaultKeepsContext`); each object is a sequential generator of its own (`IsolatedState`) whose answers are in order or carry an earlier time (`AnswersInOrder`); it answers with its own identifiers or none (`AnswersAreOwn`); arrays handed out do not change (`HeldBytesStay`); types |
| `seeding` | words of four bits, two contexts, every value of the time stamp counter | no state runs into zero (`ZeroOnlyFromEntropy`); no two contexts meet (`NoTwins`); words keep their width |
| `large_regress`, `small_regress`, `go_closed`, `python_race` | see below | violations: what a document or test says and the code does not do |

Bounds. Counters of two or three values per field run out after a few calls, so
wraps, carries, exhaustion and new draws all happen within one millisecond of a
clock of five or six; nothing in the code depends on a width other than through
its ends. A "second" of two milliseconds puts the coarse branch of `os_time_ms`
behind the fine one; a threshold of two lies inside the clock, so that regressions
below it, at it and above it all occur. `MaxTime` keeps timestamps inside `TsLimit`
(`RangeAssumption`), as the real clock is until the year 10889. In `layout` the
constants keep the proportions of the real ones (the 48-bit field is six bytes of
whatever size). Two goroutines or threads are enough for every pair of accesses to
meet; the theorems are about any number. `MaxFailures` bounds failing creations, two
of which let every thread fail once or one fail twice. In `wasm` four blocks are what
two objects can hold, so that every block is used again after a `destroy`; a
constructor that throws leaves a block too few for two objects, and then one that
cannot complete. `Nibble = 3` in `layout` gives bytes of one and of two digits. In
`seeding` the constants keep the order of the real ones (the counter is shifted down
by less than half a word, four turns of the shift cover a word); `Warmup = 2` and
`MaxDraws = 1` make three steps of eight and more, which is where the step's
injectivity, proved for any width, takes over. `NoTwins` holds of two contexts when
they lie at different addresses modulo 4 GiB, as both do in the run.

Fairness. `Uuid7Generator!FairSpec`: the thread in a call keeps running and time keeps
passing (`Advance`). Nothing makes anybody call or the clock step back; `steady_clock`
sets `MaxLag = 0`, because a host that keeps putting its clock back to the same
millisecond can hold a waiting call for ever. In `GoGenerator` a goroutine that runs
keeps running, and the mutex is strongly fair: Go's mutex goes over to first come,
first served once a waiter has waited a millisecond. `DefaultGenerator` asks strong
fairness of Go's mutex only. The locks over the creation are taken a bounded number of
times and weak fairness is enough for them; Rust's `Mutex` promises no order, so that
of a waiting Rust call `CallsReturn` says only that the mutex comes free. `Recovers`
supposes callers who keep calling, since nothing makes a program try again. The clock
being bounded, a call that exhausts the counter in its last millisecond has nothing to
wait for; the liveness properties leave that state out.

Deadlock is checked in every run. `WasmGenerator` and `Seeding` have safety properties
only: JavaScript has no scheduler to be fair, and drawing is up to the caller.

## Findings

- `large_regress`. `docs/API.md:42` promises strict order within a context without
  exception. After a step back by more than the threshold, `uuid7.c:96` takes the
  lower reading: the next identifier sorts below the last. The run has no other way to
  break the order as soon: the clock is read in milliseconds, and a counter that runs
  out takes a step more.
- `small_regress`. `tests/test_clock_backward.c:36` says that a step back within the
  threshold does not change the timestamp, and line 68 skips the case of an exhausted
  counter as covered. The loop at `uuid7.c:84` waits for a *different* reading, not a
  later one: after a small step back it ends at once, at a lower time, and the
  identifier sorts below the last.
- `go_closed`. `Generate` on a generator that another goroutine has just closed
  returns sixteen zero bytes and no error; `bindings/golang/README.md:66` says it
  generates a UUID v7, and line 72 that the type is goroutine-safe.
- `python_race`. `bindings/python/README.md:31` calls the module-level `generate()`
  safe to call from multiple threads. Two overlapping calls load the same counter and
  return the same identifier. (Line 68 of the same file warns that generator objects
  are not thread-safe; the default generator is one.) `GoNoDuplicates` proves that the
  same cannot happen in Go.

What the WASM model shows and no document denies: `generate()` after `destroy()`, or
on an object whose buffer could not be allocated, returns the sixteen bytes at address
0 and no error; if that object is the default one, `init` cannot replace it. A
constructor that throws in its second allocation leaks a context.

## What is proved

With TLAPS, for every value of the constants that meets the assumptions named in the
modules (`ClockAssumption`, `ContextAssumption`, `NoIdAssumption`, `RangeAssumption`,
`LayoutAssumption`, `ContextsAssumption`, `NibbleAssumption`, `NobodyAssumption`, `FailuresAssumption`,
`BindingsAssumption`, `WasmAssumption`, `XoshiroAssumption`, `SeedingAssumption`,
`TimesAssumption`).

*One caller* (`Uuid7Proofs`). The inductive invariant is `IInv`: types, `wall <= peak`,
`now <= peak`, `NeverAheadOfClock`, `ContextRemembersOut`. None stands alone: that a
context taken from a reading is not ahead of the clock needs the reading not to be;
that counting up lands above the last identifier needs the context to agree with it;
that the carry fits needs `counter_high` to be below its limit outside the loop.
From it follow `TypeCorrect`, `NeverAhead`, `Remembers`, the refinement `Order` (the
generator implements `EpochSpec` on any clock) and `Follows`. Two results need more:

- `RegressOnlyThere` assumes `Behind <= Threshold`, where `Behind` is `MaxLag`, plus
  `SecondMs - 1` if the whole-second branch can be taken. `JitterInv` adds to `IInv`
  that the clock is within `MaxLag` of its peak and that a reading in use is within
  `Behind` of the context.
- `StrictOrder` (the generator implements `StrictSpec`) assumes `Steady`: `MaxLag = 0`
  and a single source. `SteadyInv` adds that clock and peak are equal and that the
  context and the reading in use are not above a fresh reading.

*Bytes and text* (`UuidLayoutProofs`). `AlwaysWellFormed`, and `BytesOrder`: memcmp on the
bytes is the order on the fields, for any byte size, by writing a number's digits out
and back. `TheRenderingsAgree` and `TextSorts` are about the text: JavaScript joins the
digits of sixteen bytes and cuts the result up again, Go puts the hyphens in as it goes.
Both are a fold over sixteen pieces, and a fold of known length needs no induction:
`FlattenSixteen` unfolds it. `SpellsText` says where in the text
the two digits of each byte stand; both texts spell the bytes, and only one text does
(`OneSpelling`). Digits sort as the bytes they are the quotient and remainder of, the
hyphens stand at the same places in every text, and so the first place where two texts
differ belongs to the first byte where the identifiers do.

*Goroutines* (`GoProofs`), for any number of them. `GoInv` is mutual exclusion
(whoever is between `Lock` and `Unlock` is the holder), the lifetime of the memory,
that what a call has loaded is still the context when it stores, that a carry sits in
`counter_high` only while a call waits, and that a buffer left alone marks a closed
generator. From it follow `GoTypeCorrect`, `GoMemorySafe`, `GoAnswers` and
`GoSequential`: every step of the goroutines is a step of the sequential generator or
a stutter.

What is proved of one caller then holds of the goroutines: `SharedViewProofs` takes an
instance of `Uuid7Proofs` under the view (`SeqProofs`), shows its assumptions
(`SeqAssumptions`) and cites its theorems. `GoOrder` is `OrderBreaksOnlyBackInTime`
on any clock. But the view ends a call at the store, and what a goroutine has comes
after: the bytes are copied, the mutex is released, the buffer returned, while others
are already in the call. `HeldInv` relates the two - every buffer that is held is
`last` or below it, and `last` is below the context that is about to be written - and
adds `SteadyInv` under the view. From it `GoNoDuplicates` and `GoHandedOutInOrder`, on a
clock that is `Steady`; on one that is not, one caller is out of order already
(`large_regress`).

*Default generators* (`DefaultProofs`), for any number of threads and failures.
`DefInv` follows the one context from the step that makes it under the lock to the
step that shows it to everyone (`Creation`) and adds, for Go and Rust, what their
mutex keeps true of the C call (`Calls`). From it `DefOneDefault` and `DefSequential`.
That a step of the C call is one of the sequential generator is shown once, in
`SharedViewProofs`, for whoever is alone in the call; `GoProofs` cites it too.
`DefInOrder`, on a `Steady` clock, is from `OrderInv`: `SteadyInv` under the view, from
the moment the context is there, and `last` below what is about to be written.

*JavaScript objects* (`WasmProofs`), for any number of them and of blocks. `WasmInv`
needs `BlocksOwnedOnce` to know that what one object writes lies outside what the
others read; conversely ownership is kept because a freed address is forgotten in the
same step. It also says that an object without a context has no buffer, that what lies
at a context's address is a context with no carry pending (unless its own call waits),
that address 0 is never written, and that no array shows the memory. From it
`WasmMemorySafe`, `WasmDefault`, `WasmHeldStay`, `WasmAnswersOwn`, `WasmTypeCorrect` and
`WasmIsolated`: each object implements `Uuid7Generator`. `WasmDefault` adds
`DefaultHasContext`: only `init` assigns the default generator, with a context, and
`destroy` cannot reach it; that nobody else has that context is ownership again. `WasmInOrder` holds on any
clock. Its invariant adds to `WasmInv` that a working object's context agrees with the
bytes the object answered with last (`Remembered`), wherever in the memory the context
lies; it is proved from the steps directly, since the theorems of `Uuid7Proofs` cannot
be cited through an instance with a parameter, which `Gen(g)` is.

`SharedViewProofs` and `WasmProofs` do not extend `Uuid7Generator`, so that their theorems
on order name its assumption themselves: `MaxTime < TsLimit` is `RangeAssumption`.

*Random states* (`SeedingProofs`), for words of any width. `StepInjective`: the last
word gives back `s[3]^s[1]`, with it the first gives `s[0]`, the second and third
together `s[1]^(s[1] << 17)`, which determines `s[1]` from its lowest bits up because
four shifts cover the word, and the rest follows. `SeedKeepsAddress`: the second word
of a seed gives back the time, the fourth the counter but for its lowest bits, the
first those, and then the low half of the address. The invariant adds to `NoTwins` and
`ZeroOnlyFromEntropy` that each state is the step of the one before and what a context
was seeded from; `NoTwinsEver` and `NeverZero` follow. `TimesAssumption` says that a
time is not the 64-bit constant of `prng.c:83`; a time has 48 bits.

Model-checked only: the liveness properties `CallReturns`, `CallsReturn` and `Recovers`
(liveness under fairness is outside the prover's reach) and the four violations. Every
other property of a passing run is stated by a theorem.

## Not modelled

- The values the random generator draws: they are any values, and the word a step of
  xoshiro256 returns is left out. So nothing is said of how likely two contexts are to
  collide, only that seeds without entropy differ. A context made where a destroyed one
  lay, in the same millisecond and without a time stamp counter, does repeat it.
- Python `UUID7Generator` objects. The binding's README (line 68) allows one thread per
  object; for that thread `generate` is `Uuid7Generator` and `close` a guarded destroy.
  After `close`, cffi refuses `None` with a `TypeError` before memory is touched, and
  the finaliser repeats a `close` that does nothing twice.
- Rust's `Drop`: nobody can use a generator afterwards. A poisoned mutex: nothing
  panics while it is held.
- The generated `uuid7.js`: it is the malloc, free and memory of `WasmGenerator`.
  `uuid7_wasm.js` used before the module is ready throws with nothing changed.
- `init` called with a second module: it is ignored like any later `init`.
- Timestamps beyond 48 bits and differences beyond 2^63 ms (`RangeAssumption`).
- `uuid7_generate_ex` called by a user with readings of their own: it is not in
  `include/uuid7.h`; tests call it, and `Uuid7Generator` covers readings in any order
  as far as a clock set to anything produces them.
- Memory orders weaker than the program's: every lock that is there is a full
  barrier, and where none is there a violation is shown, not a guarantee.
- Logging, build, packaging, CI, benchmarks.
