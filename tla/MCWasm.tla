------------------------------- MODULE MCWasm -------------------------------
(***************************************************************************)
(* The JavaScript binding with a few objects and blocks.                   *)
(***************************************************************************)
EXTENDS WasmOrdering, TLC

\* Objects differ only in their names, and so do addresses.
Symmetry == Permutations(Objects) \cup Permutations(Addresses)

=============================================================================
