---------------------------- MODULE MCMultiLevel ----------------------------
(***************************************************************************)
(* Three processes and six nodes on up to three levels: a path, and a      *)
(* cycle with chords of different weights, from balanced and from          *)
(* overloaded blocks, with and without skipped colours.                    *)
(***************************************************************************)
EXTENDS MultiLevel, TLC

MCNodes == 0 .. 5
Matrix(edges) ==
  [n \in MCNodes |-> [m \in MCNodes |->
     IF <<n, m>> \in DOMAIN edges THEN edges[<<n, m>>]
     ELSE IF <<m, n>> \in DOMAIN edges THEN edges[<<m, n>>] ELSE 0]]

Path == Matrix([e \in {<<n, n + 1>> : n \in 0 .. 4} |-> 1])
Chords == Matrix([e \in {<<n, (n + 1) % 6>> : n \in MCNodes} |-> 1]
                   @@ (<<1, 4>> :> 2) @@ (<<0, 3>> :> 1))

Owners == {<<0, 0, 1, 1, 2, 2>>, <<0, 1, 0, 2, 1, 1>>}

Settings ==
  {[multiLevelRounds |-> 2, steps |-> 1, skip |-> FALSE],
   [multiLevelRounds |-> 3, steps |-> 2, skip |-> TRUE]}

MCInstances ==
  {[row |-> r, owner |-> [n \in MCNodes |-> o[n + 1]], settings |-> s, minGain |-> 1,
    weight |-> [n \in MCNodes |-> IF n = 5 THEN 2 ELSE 1]] :
     r \in {Path, Chords}, o \in Owners, s \in Settings}
=============================================================================
