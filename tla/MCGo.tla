------------------------------- MODULE MCGo -------------------------------
(***************************************************************************)
(* The Go binding with a few goroutines and a counter of four values.      *)
(***************************************************************************)
EXTENDS GoOrdering, TLC

\* Goroutines differ only in their names; only the safety runs use this.
Symmetry == Permutations(Threads)

=============================================================================
