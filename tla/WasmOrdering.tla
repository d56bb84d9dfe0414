---------------------------- MODULE WasmOrdering ----------------------------
(***************************************************************************)
(* What the objects of the JavaScript binding keep apart although they     *)
(* share a memory: each is a generator of its own, from its construction   *)
(* to its destruction.                                                     *)
(***************************************************************************)
EXTENDS WasmGenerator

\* An object seen as the only user of a context: pc and reading are its own
\* while its call runs, the identifier is what its caller holds.
Gen(g) == INSTANCE Uuid7Generator
  WITH ctx <- mem[ptr[g].ctx],
       pc  <- IF running = g THEN pc ELSE "idle",
       now <- IF running = g THEN now ELSE 0,
       out <- Seen(mem, held[g])

\* A call of g.generate() comes back in this step.
Answers(g) == running = g /\ running' = Nobody

-----------------------------------------------------------------------------

\* From its constructor to destroy() an object is a sequential generator: no
\* step of another object, of the allocator or of the default generator
\* changes its context or the identifier its caller holds
\* (bindings/wasm/README.md:65, "isolated generator state"), and its own
\* steps are those of Uuid7Generator, so all that is known of that holds here.
IsolatedState ==
  [][\A g \in Objects :
       Backed(g)' =>
         IF Backed(g)
         THEN Gen(g)!Next \/ UNCHANGED Gen(g)!vars
         ELSE /\ \E r \in os_time_ms(wall), d \in Draw :
                   (mem[ptr[g].ctx])' = Reseeded(r, d)
              /\ Seen(mem, held[g])' = NoId]_vars

\* The blocks that some object has the address of.
Owned == UNION {Blocks(g) : g \in Objects}

\* Every block is in the hands of one object, in one place, unless a throwing
\* constructor lost it: whatever sequence of constructors, failures and
\* destroy() calls the program makes, nothing is freed twice, nothing is used
\* after it was freed and nothing else leaks (uuid7_wasm.js:26).
BlocksOwnedOnce ==
  /\ taken = lost \cup Owned
  /\ \A g \in Objects :
       /\ Blocks(g) \cap lost = {}
       /\ Backed(g) => ptr[g].ctx # ptr[g].buf
  /\ \A g, h \in Objects : g # h => Blocks(g) \cap Blocks(h) = {}

\* Once assigned, the default generator has a context of its own for good: an
\* init() whose constructor throws leaves it unassigned (uuid7_wasm.js:50), so
\* that a later one can succeed, and no destroy() of another object takes the
\* context away or shares it.
DefaultKeepsContext ==
  default # Nobody =>
    /\ ptr[default].ctx \in taken \ lost
    /\ \A g \in Objects \ {default} : ptr[default].ctx \notin Blocks(g)

\* generate() returns an identifier exactly when the object has both blocks.
\* One that is destroyed, or whose second allocation failed, never returns the
\* identifier of another object or an old one of its own, although it reads
\* memory all the same (uuid7_wasm.js:13).
AnswersAreOwn ==
  [][\A g \in Objects :
       Answers(g) => (Seen(mem, held[g])' \in Identifier <=> Backed(g))]_vars

\* Each identifier an object answers with is above the one it answered with
\* before or carries an earlier timestamp (bindings/wasm/README.md:93), although
\* the memory it counts in is one that other objects write, free and are given.
AnswersInOrder ==
  [][\A g \in Objects :
       Answers(g) /\ Backed(g) /\ Seen(mem, held[g]) # NoId =>
         \/ Precedes(Seen(mem, held[g]), Seen(mem, held[g])')
         \/ (Seen(mem, held[g])').unix_ts_ms < Seen(mem, held[g]).unix_ts_ms]_vars

\* The bytes a caller was given do not change under its hands: not by the next
\* call, by destroy() or by whoever gets the memory after it.
HeldBytesStay ==
  [][\A g \in Objects :
       Answers(g) \/ Seen(mem, held[g])' = Seen(mem, held[g])]_vars

=============================================================================
