-------------------------- MODULE MCDistributedFM ---------------------------
(***************************************************************************)
(* Instances of the distributed sweep.                                     *)
(*  - Ring: four processes on a cycle of blocks, two rounds of two pairs   *)
(*    each, so that pairs refine at the same time and run ahead of others. *)
(*  - Triangle: three processes, three rounds with one process idle, with  *)
(*    node and edge weights.                                               *)
(*  - Mixed: two processes; only one of them has an edge heavier than 1.   *)
(***************************************************************************)
EXTENDS DistributedFM, TLC

\* The symmetric matrix of the edge weights f[<<n, m>>].
Matrix(V, f) ==
  [n \in V |-> [m \in V |->
     IF <<n, m>> \in DOMAIN f THEN f[<<n, m>>]
     ELSE IF <<m, n>> \in DOMAIN f THEN f[<<m, n>>] ELSE 0]]

\* The round in which the given pairs meet.
Meet(pairs) ==
  [p \in PE |-> IF \E q \in PE : {p, q} \in pairs
                THEN CHOOSE q \in PE : {p, q} \in pairs ELSE p]

\* ----- Ring
RingNode == 0 .. 5
RingEdge == Matrix(RingNode,
  [e \in {<<0, 2>>, <<1, 3>>, <<3, 4>>, <<4, 5>>, <<5, 0>>} |-> 1])
RingWeight == [n \in RingNode |-> 1]
RingScheme == << Meet({{0, 1}, {2, 3}}), Meet({{1, 2}, {0, 3}}) >>
RingBorder == [p \in PE |-> 1]
RingStart == {[n \in RingNode |-> IF n < 5 THEN n \div 2 ELSE 3]}

\* ----- Triangle
TriNode == 0 .. 5
TriEdge == Matrix(TriNode,
  (<<0, 1>> :> 2) @@ (<<1, 2>> :> 1) @@ (<<2, 3>> :> 3) @@ (<<3, 4>> :> 1)
    @@ (<<4, 5>> :> 2) @@ (<<5, 0>> :> 2) @@ (<<1, 3>> :> 2) @@ (<<0, 2>> :> 2))
TriWeight == [n \in TriNode |-> IF n = 2 THEN 2 ELSE 1]
TriScheme == << Meet({{0, 1}}), Meet({{1, 2}}), Meet({{0, 2}}) >>
TriBorder == [p \in PE |-> IF p = 0 THEN 1 ELSE 2]
TriStart == {[n \in TriNode |-> owner[n + 1]] :
               owner \in {<<0, 0, 1, 1, 2, 2>>,   \* three pairs
                          <<1, 2, 2, 0, 0, 0>>,   \* a node changes hands twice
                          <<1, 0, 0, 0, 2, 0>>,   \* block 0 is overloaded
                          <<0, 0, 0, 2, 2, 2>>}}  \* and process 1 starts empty

\* ----- Mixed
MixedNode == 0 .. 5
MixedEdge == Matrix(MixedNode,
  (<<0, 1>> :> 1) @@ (<<0, 3>> :> 1) @@ (<<1, 4>> :> 1) @@ (<<3, 4>> :> 1)
    @@ (<<4, 5>> :> 5) @@ (<<2, 5>> :> 1))
MixedWeight == [n \in MixedNode |-> 1]
MixedScheme == << Meet({{0, 1}}) >>
MixedBorder == [p \in PE |-> 1]
MixedStart == {[n \in MixedNode |-> IF n \in {0, 1, 3} THEN 0 ELSE 1]}
=============================================================================
