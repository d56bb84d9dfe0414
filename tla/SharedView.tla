----------------------------- MODULE SharedView -----------------------------
(***************************************************************************)
(* The threads of SharedCall seen as the single caller of Uuid7Generator,  *)
(* for the bindings that let only one of them into the C call at a time.   *)
(* The call ends where the context is stored; that the identifier is then  *)
(* copied to the caller's buffer is not seen.                              *)
(***************************************************************************)
EXTENDS SharedCall

\* The element of a set of one.
One(S) == CHOOSE x \in S : TRUE

At(places) == {t \in Threads : pc[t] \in places}

SeqPc == IF At({"spin"}) # {} THEN "spin"
         ELSE IF At({"load", "store"}) # {} THEN "called" ELSE "idle"

SeqNow == IF At({"load", "store", "spin"}) = {} THEN 0
          ELSE now[One(At({"load", "store", "spin"}))]

SeqOut == IF At({"write"}) # {} THEN Serialised(ctx) ELSE last

Seq == INSTANCE Uuid7Generator
  WITH pc <- SeqPc, now <- SeqNow, out <- SeqOut

\* No two callers hold the same identifier.  For the default generator
\* bindings/python/README.md:31 says as much, calling the function safe to call
\* from multiple threads; in Go the mutex sees to it.
NoDuplicates ==
  \A t, u \in Threads : t # u /\ buf[t] # NoId => buf[t] # buf[u]

=============================================================================
