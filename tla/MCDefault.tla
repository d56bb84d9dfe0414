------------------------------ MODULE MCDefault ------------------------------
(***************************************************************************)
(* The default generators with a few threads.                              *)
(***************************************************************************)
EXTENDS DefaultOrdering, TLC

\* Threads differ only in their names; only the safety runs use this.
Symmetry == Permutations(Threads)

=============================================================================
