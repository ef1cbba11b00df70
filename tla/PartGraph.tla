----------------------------- MODULE PartGraph ------------------------------
(***************************************************************************)
(* Weighted graphs and what the two-way refinement may do to two blocks.   *)
(* A graph is given by its edge weights w[n][m] (0 for "no edge"), as the  *)
(* rows of the symmetric adjacency matrix, and its node weights nw[n].     *)
(***************************************************************************)
EXTENDS Integers, FiniteSetsExt

Neighbors(w, n) == {m \in DOMAIN w : m # n /\ w[n][m] > 0}

NeighborsOf(w, S) == UNION {Neighbors(w, n) : n \in S}

WeightOf(nw, S) == MapThenSumSet(LAMBDA n : nw[n], S)

\* The weight of the edges between two disjoint sets of nodes.
CutBetween(w, A, B) ==
  MapThenSumSet(LAMBDA e : w[e[1]][e[2]], {e \in A \X B : w[e[1]][e[2]] > 0})

\* The weights of the edges that leave a block, over all blocks of a partition:
\* every cut edge counts twice.
CutSum(w, block) ==
  MapThenSumSet(LAMBDA p : CutBetween(w, block[p], (DOMAIN w) \ block[p]),
                DOMAIN block)

\* (A mutant of the promise below that forgets the size of the second block.)
FMOutcomesMut(w, nw, F, S, cand, sizeF, sizeS, cap) ==
  LET cut      == CutBetween(w, F, S)
      gain(T)  == cut - CutBetween(w, (F \cup cand) \ T, (S \ cand) \cup T)
      shift(T) == WeightOf(nw, T \ S) - WeightOf(nw, (cand \cap S) \ T)
  IN  {[gain |-> 0, toSecond |-> cand \cap S]}
        \cup {[gain |-> gain(T), toSecond |-> T] :
                T \in {U \in SUBSET cand : gain(U) > 0
                                            /\ sizeF - shift(U) <= cap}}

(***************************************************************************)
(* The promise of LocalRefinement::twoWayLocalFM.  F and S are the visible *)
(* nodes of the first and of the second block, cand the nodes that may     *)
(* move, sizeF and sizeS the weights of the whole blocks.  An outcome      *)
(* gives the gain and the candidates assigned to the second block: nothing *)
(* moves and the gain is 0, or the cut between the blocks falls by the     *)
(* gain and both blocks end within the capacity.                           *)
(***************************************************************************)
FMOutcomes(w, nw, F, S, cand, sizeF, sizeS, cap) ==
  LET cut      == CutBetween(w, F, S)
      gain(T)  == cut - CutBetween(w, (F \cup cand) \ T, (S \ cand) \cup T)
      shift(T) == WeightOf(nw, T \ S) - WeightOf(nw, (cand \cap S) \ T)
      full     == sizeF >= cap /\ sizeS >= cap
      Better   == {T \in SUBSET cand : /\ ~ full
                                       /\ gain(T) > 0
                                       /\ sizeF - shift(T) <= cap
                                       /\ sizeS + shift(T) <= cap}
  IN  {[gain |-> 0, toSecond |-> cand \cap S]}
        \cup {[gain |-> gain(T), toSecond |-> T] : T \in Better}
=============================================================================
