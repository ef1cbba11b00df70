--------------------------- MODULE MCBlockMapping ---------------------------
(***************************************************************************)
(* Four blocks on four processes.  Five nodes on a ring with a chord, in   *)
(* many partitions and three distributions, are mapped onto one network;   *)
(* one partition is mapped onto every connected weighted network.          *)
(***************************************************************************)
EXTENDS BlockMapping

MCNode == 0 .. 4
MCBlocks == 0 .. 3

Symmetric(N, weight(_)) ==
  [n \in N |-> [m \in N |-> IF n = m THEN 0 ELSE weight({n, m})]]

Ring == Symmetric(MCNode, LAMBDA e : IF e \in {{0, 1}, {2, 3}} THEN 2
                                     ELSE IF e \in {{1, 2}, {3, 4}, {0, 4}, {1, 3}} THEN 1 ELSE 0)

Pairs == {e \in SUBSET MCBlocks : Cardinality(e) = 2}
Weighted == {Symmetric(MCBlocks, LAMBDA e : w[e]) : w \in [Pairs -> {0, 1, 3}]}
SomeNetwork == Symmetric(MCBlocks, LAMBDA e : IF e = {0, 3} THEN 0 ELSE 1)

Case(row, owner, part, crv, net) ==
  [graph |-> [row |-> row, owner |-> owner, part |-> part], curve |-> crv, network |-> net]

MCCases ==
  {Case(Ring, [n \in MCNode |-> IF n \in S THEN 0 ELSE 1], part, [b \in MCBlocks |-> (b * 3) % 4], SomeNetwork) :
      S \in {{}, {0, 2}, {1, 3, 4}}, part \in {q \in [MCNode -> MCBlocks] : q[0] = 0 /\ q[1] <= 1 /\ q[2] = 2}}
  \cup {Case(row, part, part, crv, net) :
      row \in {Ring}, part \in {[n \in MCNode |-> n % 4]},
      crv \in {[b \in MCBlocks |-> IF b = 1 THEN 3 ELSE b \div 2]},
      net \in {w \in Weighted : w[0][1] = 1 /\ w[0][2] # 3 /\ w[1][2] # 0 /\ IsConnected(w)}}
=============================================================================
