------------------------------ MODULE MCFileIO ------------------------------
(***************************************************************************)
(* Every format with files of a few rows, whole or damaged in one of six   *)
(* ways, written by three processes and read by one to five.               *)
(***************************************************************************)
EXTENDS FileIO

Job(format, rows, owner, head, damage, dim, readers) ==
  [format |-> format, rows |-> rows, owner |-> owner, head |-> head, damage |-> damage,
   dim |-> dim, readers |-> readers, total |-> <<>>, isProp |-> <<>>]
Given(format, rows, head, damage, dim, readers) == Job(format, rows, <<>>, head, damage, dim, readers)
TreeJob(rows, total, isProp, readers) ==
  [Job("tree", rows, <<>>, <<>>, "none", 0, readers) EXCEPT !.total = total, !.isProp = isProp]

\* n points in blocks.
Blocks(n) == [i \in 1 .. n |-> (i - 1) \div ((n + P - 1) \div P)]
Damage == {"none", "cut", "torn", "open", "extra", "illegal"}
Torn == {"none", "cut", "torn", "open", "short"}

Graphs == {<< <<2, 3>>, <<1, 3>>, <<1, 2>> >>, << <<2>>, <<1, 3>>, <<2, 4>>, <<3, 5>>, <<4>> >>,
           << <<2, 3, 4>>, <<1>>, <<1>>, <<1>>, <<>> >>}
Binary(g) == [i \in DOMAIN g |-> [j \in DOMAIN g[i] |-> g[i][j] - 1]]
GraphJobs == {Given("bgraph", Binary(g), <<v>>, d, 0, r) :
                g \in Graphs, v \in {2, 3}, d \in {"none", "illegal"}, r \in 1 .. 4}
  \cup {Job("graph", g, Blocks(Len(g)), <<0, 0>>, d, 0, r) : g \in Graphs, d \in Damage \cup Torn, r \in 1 .. 4}
  \cup {Job("graph", << <<2, 8, 3, 9>>, <<1, 8, 3, 7>>, <<1, 9, 2, 7>> >>, Blocks(3), <<0, 1>>, d, 0, r) :
          d \in Torn \cup {"extra"}, r \in 1 .. 3}

\* A path, or an edge and an isolated node, with two weights of each node, and
\* with and without weights of the edges.
WeightedJobs ==
  {Given("wgraph", g[1], <<3, g[2], 2, g[3]>>, d, 0, r) :
     g \in {<<<< <<4, 5, 2>>, <<6, 7, 1, 3>>, <<8, 9, 2>> >>, 2, 0>>,
            <<<< <<4, 5, 2, 3>>, <<6, 7, 1, 3>>, <<8, 9>> >>, 1, 1>>,
            <<<< <<4, 5, 2>>, <<6, 7, 1>>, <<8, 9>> >>, 1, 0>>},
     d \in Torn \cup {"extra"}, r \in 1 .. 3}

Places(n, dim) == [i \in 1 .. n |-> [d \in 1 .. dim |-> 10 * i + d]]
CoordJobs ==
  {Given("teec", Places(5, 3), <<>>, d, dim, r) : d \in Damage \cup Torn, dim \in {2, 3}, r \in 1 .. 3} \cup
  {Job("input", Places(n, 3), owner, <<>>, "none", 2, r) : n \in {1, 4}, owner \in {<<1, 1, 1, 1>>, Blocks(4)}, r \in 1 .. 4} \cup
  {Job("coords", Places(5, 2), Blocks(5), <<>>, d, dim, r) : d \in Damage \cup Torn, dim \in {2, 3}, r \in 1 .. 3}
  \cup {Given("ocean", Places(5, 3), <<>>, d, dim, r) : d \in Damage \cup Torn, dim \in {2, 3}, r \in 1 .. 3}
  \cup {Given("ocean", [i \in 1 .. 5 |-> <<i - first, 10 * i, 10 * i + 1>>], <<>>, "none", 2, r) :
          first \in {0, 1}, r \in 1 .. 3}
  \cup {Given("mmcoords", [i \in 1 .. n * dim |-> <<i>>], <<n, dim>>, d, dim, r) :
          n \in {2, 5}, dim \in {2, 3}, d \in Damage \ {"illegal"}, r \in 1 .. 4}
  \cup {Job("bincoords", Places(n, dim), Blocks(n), <<>>, d, dim, r) :
          n \in {4, 6}, dim \in {2, 3}, d \in {"none", "cut"}, r \in 1 .. 5}
  \cup {Job("bincoords", Places(4, 3), <<0, 1, 1, 2>>, <<>>, "none", 3, 2)}

PartitionJobs ==
  {Job("partition", << <<7>>, <<8>>, <<9>>, <<6>> >>, owner, <<>>, d, 0, r) :
     owner \in [1 .. 4 -> PE], d \in {"none"}, r \in {1, 3}}
  \cup {Job(format, << <<7>>, <<8>>, <<9>> >>, Blocks(3), <<>>, d, 0, r) :
          format \in {"partition", "vector", "central"}, d \in Damage, r \in {2, 4}}

Candidates == {<<0, 1>>, <<2, 1>>, <<0, 2>>, <<3, 2>>}
EdgeJobs ==
  {Given("edges", e, <<4, m>>, d, 0, r) :
     e \in [1 .. 4 -> Candidates], m \in {3, 4}, d \in {"none"}, r \in {1, 2, 3}}
  \cup {Given("edges", [i \in 1 .. 4 |-> <<1, i + 1>>], <<n, 4>>, "none", 0, r) : n \in {5, 6}, r \in {1, 2, 3}}

DistEdgeJobs ==
  {Job("distedges", e, owner, <<4, 4>>, "none", 0, 2) :
     e \in [1 .. 4 -> Candidates], owner \in {<<0, 0, 1, 1>>, <<0, 1, 1, 1>>, <<1, 0, 1, 0>>}}
\* Grids in space and, with copies of the coordinates, in the plane.
Grids == {<<n, dim, r>> \in ((1 .. 3) \X (1 .. 3) \X (1 .. 2)) \X {2, 3} \X (1 .. 3) : n[3] = 1 \/ dim = 3}
MeshJobs ==
  {Given("mesh", <<>>, g[1], "none", g[2], g[3]) : g \in Grids}
  \cup {Given("meshseq", <<>>, n, "none", 3, 1) : n \in (1 .. 3) \X (1 .. 3) \X (1 .. 3)}

\* A closed and an open surface, with the number of edges given or not, one
\* with a square, and points alone.
Closed == << <<0, 1, 2>>, <<0, 1, 3>>, <<0, 2, 3>>, <<1, 2, 3>> >>
Surfaces == {<<Closed, 0>>, <<Closed, 6>>, <<Tail(Closed), 6>>, << <<Closed[1], Closed[4]>>, 5>>,
             << <<Closed[1], Closed[4]>>, 0>>, << <<Closed[1], <<0, 1, 2, 3>> >>, 0>>, << <<>>, 0>>}
SurfaceJobs ==
  {Given("off", [i \in 1 .. 4 |-> <<i, i, i>>] \o [i \in DOMAIN s[1] |-> <<Len(s[1][i])>> \o s[1][i]],
         <<4, Len(s[1]), s[2]>>, d, 0, 2) : s \in Surfaces, d \in Torn}
  \cup {Given("alya", s[1] \o Places(n, 3) \o <<EndCoordinates>>, <<4, Len(s[1])>>, d, dim, 2) :
          s \in Surfaces \ {<< <<>>, 0>>}, n \in {3, 4}, dim \in {3, 4}, d \in Torn \ {"short"}}
SizeJobs ==
  {[Given("sizes", << <<4, 2>>, <<2, 2>>, <<3, 2>> >>, <<n, m>>, d, 3, 3) EXCEPT !.total = t] :
     n \in {3, 4}, m \in {1, 2}, d \in Torn \cup {"extra"}, t \in {<<8>>, <<10>>, <<8, 0>>, <<8, 5>>}}

Leaves4 == {LevelLabels(l) : l \in {<<2, 2>>, <<4>>, <<1, 2, 2>>}} \cup {<< <<0, 0>>, <<1, 0>>, <<0, 1>>, <<2, 0>> >>}
TreeJobs ==
  {TreeJob([i \in 1 .. 4 |-> labels[p[i]] \o <<Hash, w[i], 5 - i>>], <<10, t>>, <<TRUE, b>>, 2) :
     labels \in Leaves4, p \in {<<1, 2, 3, 4>>, <<3, 1, 4, 2>>},
     w \in {<<1, 1, 1, 2>>, <<1, 2, 3, 4>>}, t \in {10, 20}, b \in BOOLEAN}
\* Damaged files, with weights that are not adapted.
TornTreeJobs ==
  {[TreeJob([i \in 1 .. 4 |-> labels[i] \o <<Hash>> \o SubSeq(<<i, 5>>, 1, m)], [w \in 1 .. m |-> 4],
            [w \in 1 .. m |-> FALSE], 2) EXCEPT !.damage = d] :
     labels \in Leaves4, m \in {1, 2}, d \in Torn}
\* Adapted weights are whole numbers here.
LevelJobs == {[TreeJob(<<>>, <<24>>, <<TRUE>>, 2) EXCEPT !.head = levels] : levels \in {<<4>>, <<2, 3>>, <<2, 2, 2>>}}
WholeJobs == {j \in TreeJobs : j.total[1] % FoldLeft(LAMBDA s, l : s + WeightsOf(l)[1], 0, j.rows) = 0}

MCJobs == MeshJobs \cup DistEdgeJobs \cup GraphJobs \cup CoordJobs \cup PartitionJobs \cup EdgeJobs
            \cup WeightedJobs \cup SurfaceJobs \cup SizeJobs \cup WholeJobs \cup TornTreeJobs \cup LevelJobs

\* Graphs whose file is cut or torn at the end of a line.
CutGraphs == {j \in GraphJobs : j.format = "graph" /\ j.damage \in {"cut", "torn"}}
=============================================================================
