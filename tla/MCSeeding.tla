----------------------------- MODULE MCSeeding -----------------------------
(***************************************************************************)
(* Random states of four words of four bits.                               *)
(***************************************************************************)
EXTENDS Seeding

MCPlaces == {{0}, {1, 3}}
MCTimes == {{}, {0}, {1, 2}}
MCStacks == {{}, {1}}
MCGolden == {0, 3}

\* Four zero words, a seed with one zero word, and one with a single one.
MCEntropy == {Zero, [i \in 0..3 |-> IF i = 1 THEN {} ELSE {1}],
              [i \in 0..3 |-> IF i = 3 THEN {0} ELSE {}]}

=============================================================================
