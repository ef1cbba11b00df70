---------------------------- MODULE MCTwoWayFM ------------------------------
(***************************************************************************)
(* Two nodes of each block in the border region, one more node of the      *)
(* first block behind it.  Node 4 is heavier than the others.              *)
(***************************************************************************)
EXTENDS TwoWayFM

MCRegion == 1 .. 4
MCOuter == {5}
MCFirst == {1, 2, 5}

MCEdges == {<<1, 2>>, <<3, 4>>, <<1, 3>>, <<1, 4>>, <<2, 3>>, <<2, 4>>,
            <<1, 5>>}

Matrix(e) ==
  [n \in 1 .. 5 |-> [m \in 1 .. 5 |->
     IF <<n, m>> \in MCEdges THEN e[<<n, m>>]
     ELSE IF <<m, n>> \in MCEdges THEN e[<<m, n>>]
     ELSE IF n = m THEN 1 ELSE 0]]

\* All unit weights, and weights up to 2 in which the first block sees a heavy
\* edge or (<<3, 4>> only) does not.
MCGraphs ==
  {Matrix(e) : e \in [MCEdges -> {0, 1}]
                       \cup {f \in [MCEdges -> {0, 1, 2}] :
                               /\ f[<<1, 5>>] = 1 /\ f[<<1, 2>>] = 1
                               /\ \/ f[<<2, 3>>] = 2
                                  \/ \A e \in MCEdges :
                                       f[e] = 2 <=> e = <<3, 4>>}}

MCNodeWeight == [n \in 1 .. 5 |-> IF n = 4 THEN 2 ELSE 1]

MCSizes == {[q \in {0, 1} |-> IF q = 0 THEN a ELSE b] : a, b \in {3, 4, 5}}
MCCapacities == {4, 5}
MCStopRounds == {0, 1}
=============================================================================
