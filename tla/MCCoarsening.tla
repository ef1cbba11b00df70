---------------------------- MODULE MCCoarsening ----------------------------
(***************************************************************************)
(* Three processes and seven nodes, matched by edge rating or by distance. *)
(* The graphs have cycles, equal and different weights and local pieces    *)
(* without an edge; the nodes are owned in blocks, scattered, or not at    *)
(* all by process 1.                                                       *)
(***************************************************************************)
EXTENDS Coarsening, TLC

Matrix(edges) ==
  [n \in Node |-> [m \in Node |->
     IF <<n, m>> \in DOMAIN edges THEN edges[<<n, m>>]
     ELSE IF <<m, n>> \in DOMAIN edges THEN edges[<<m, n>>] ELSE 0]]

Cycle == Matrix([e \in {<<n, (n + 1) % N>> : n \in Node} |-> 1])

Mesh == Matrix(
  (<<0, 1>> :> 2) @@ (<<0, 2>> :> 1) @@ (<<1, 2>> :> 3) @@ (<<1, 3>> :> 1)
    @@ (<<2, 4>> :> 2) @@ (<<3, 4>> :> 2) @@ (<<3, 5>> :> 1) @@ (<<4, 6>> :> 1)
    @@ (<<5, 6>> :> 2) @@ (<<0, 6>> :> 1))

Star == Matrix([e \in {<<3, n>> : n \in Node \ {3}} |-> 1])

Owners == {<<0, 0, 0, 1, 1, 2, 2>>, <<0, 1, 0, 2, 0, 1, 0>>, <<0, 0, 2, 0, 0, 2, 0>>}

Graphs ==
  {[owner |-> [n \in Node |-> o[n + 1]], row |-> r,
    weight |-> [n \in Node |-> IF n = 1 THEN 2 ELSE 1], nnCoarsening |-> nn] :
     o \in Owners, r \in {Cycle, Mesh, Star}, nn \in BOOLEAN}
=============================================================================
