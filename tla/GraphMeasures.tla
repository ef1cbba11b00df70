--------------------------- MODULE GraphMeasures ----------------------------
(***************************************************************************)
(* The quantities GraphUtils measures on a partitioned graph that is       *)
(* distributed over processes.  Every process sees the rows of its own     *)
(* nodes and, through the halo, the blocks of their neighbours; the sums   *)
(* over all processes are what Metrics reports.                            *)
(*                                                                         *)
(* g is a record: row[n][m] (edge weights), owner[n] and part[n].  A CSR   *)
(* matrix is the record of its arrays, indexed from 0.                     *)
(***************************************************************************)
EXTENDS PartGraph, Sequences, SequencesExt

CONSTANTS
  P,   \* number of processes
  K    \* number of blocks: settings.numBlocks

ASSUME SizesAssumption == P \in Nat \ {0} /\ K \in Nat \ {0}

PE == 0 .. (P - 1)
BlockIds == 0 .. (K - 1)

\* An undirected graph that is distributed over the processes and divided into blocks.
IsGraph(g) ==
  LET V == DOMAIN g.row
  IN  /\ IsFiniteSet(V) /\ V \subseteq Nat /\ V # {}
      /\ g \in [row : [V -> [V -> Nat]], owner : [V -> PE], part : [V -> BlockIds]]
      /\ \A n, m \in V : g.row[n][m] = g.row[m][n]

\* The sum of the values of a function.
SumOf(f) == WeightOf(f, DOMAIN f)

Local(g, p) == {n \in DOMAIN g.row : g.owner[n] = p}

NonLocalNeighbors(g, p) == NeighborsOf(g.row, Local(g, p)) \ Local(g, p)

\* The blocks of the required nodes, as updateHalo brings them.
PartHalo(g, p) == [n \in NonLocalNeighbors(g, p) |-> g.part[n]]

NeighborBlock(g, p, n) ==
  IF g.owner[n] = p THEN g.part[n] ELSE PartHalo(g, p)[n]

\* The blocks other than its own that process p sees around its node n.
OtherBlocks(g, p, n) ==
  {NeighborBlock(g, p, m) : m \in Neighbors(g.row, n)} \ {g.part[n]}

\* The row entries of process p that lead to another block.
CutEntries(g, p) ==
  {e \in Local(g, p) \X DOMAIN g.row :
     /\ e[2] \in Neighbors(g.row, e[1])
     /\ NeighborBlock(g, p, e[2]) # g.part[e[1]]}

\* comm->sum: a value of every process.
SumOverPE(f(_)) == SumOf([p \in PE |-> f(p)])

EntryWeights(g, E) == SumOf([e \in E |-> g.row[e[1]][e[2]]])

ComputeCut(g, weighted) ==
  LET own(p) == IF weighted THEN EntryWeights(g, CutEntries(g, p))
                ELSE Cardinality(CutEntries(g, p))
  IN  SumOverPE(own) \div 2

\* The same cut from a process's point of view: edges to nodes elsewhere.
LocalSumOutgoingEdges(g, p, weighted) ==
  LET out == {e \in Local(g, p) \X NonLocalNeighbors(g, p) : g.row[e[1]][e[2]] > 0}
  IN  IF weighted THEN EntryWeights(g, out) ELSE Cardinality(out)

HasNonLocalNeighbors(g, p, n) == Neighbors(g.row, n) \ Local(g, p) # {}

NodesWithNonLocalNeighbors(g, p, candidates) ==
  {n \in candidates \cap Local(g, p) : HasNonLocalNeighbors(g, p, n)}

GetBorderNodes(g) ==
  [n \in DOMAIN g.row |-> IF OtherBlocks(g, g.owner[n], n) # {} THEN 1 ELSE 0]

\* Per block, border and inner nodes of all processes.
NumBorderInnerNodes(g) ==
  LET border(p, b) == {n \in Local(g, p) : g.part[n] = b /\ OtherBlocks(g, p, n) # {}}
      inner(p, b)  == {n \in Local(g, p) : g.part[n] = b /\ OtherBlocks(g, p, n) = {}}
  IN  [b \in BlockIds |->
         [border |-> SumOverPE(LAMBDA p : Cardinality(border(p, b))),
          inner  |-> SumOverPE(LAMBDA p : Cardinality(inner(p, b)))]]

\* How many other blocks need the value of a node.
VolumeOf(g, p, n) == Cardinality(OtherBlocks(g, p, n))

CommVolume(g) ==
  LET own(p, b) == SumOf([n \in {m \in Local(g, p) : g.part[m] = b} |-> VolumeOf(g, p, n)])
  IN  [b \in BlockIds |-> SumOverPE(LAMBDA p : own(p, b))]

\* All three in one pass.
CommBndInner(g) ==
  LET count(p, b, S) == Cardinality({n \in Local(g, p) : g.part[n] = b /\ n \in S})
      onBorder(p) == {n \in Local(g, p) : VolumeOf(g, p, n) > 0}
  IN  [b \in BlockIds |->
         [volume |-> SumOverPE(LAMBDA p :
                       SumOf([n \in {m \in onBorder(p) : g.part[m] = b} |-> VolumeOf(g, p, n)])),
          border |-> SumOverPE(LAMBDA p : count(p, b, onBorder(p))),
          inner  |-> SumOverPE(LAMBDA p : count(p, b, Local(g, p) \ onBorder(p)))]]

\* The largest degree; a process without nodes reads past its row array.
GraphMaxDegree(g) ==
  Max({Cardinality(Neighbors(g.row, n)) : n \in DOMAIN g.row})

-----------------------------------------------------------------------------
(***************************************************************************)
(* The block graph, from k * k counters summed over all processes, and     *)
(* from edge lists gathered at the root.                                   *)
(***************************************************************************)

\* (The mutant stores an entry in the place of its transpose when it is the last.)
FlatIndexMut(k, b, c) == IF b = k - 1 THEN c * k + b ELSE b * k + c

FlatIndex(k, b, c) == b * k + c

LocalBlockGraphEdges(g, p, k) ==
  [i \in 0 .. (k * k - 1) |->
     EntryWeights(g, {e \in CutEntries(g, p) :
        FlatIndex(k, g.part[e[1]], NeighborBlock(g, p, e[2])) = i})]

\* The members of a finite set in order.
Sorted(S, less(_, _)) ==
  [i \in 1 .. Cardinality(S) |-> CHOOSE x \in S : Cardinality({y \in S : less(y, x)}) = i - 1]

\* The CSR arrays of the positive counters, row by row.
FlatToCSR(flat, k) ==
  LET order == Sorted({i \in DOMAIN flat : flat[i] > 0}, <)
  IN  [ia     |-> [r \in 0 .. k |-> Cardinality({i \in DOMAIN flat :
                                                   flat[i] > 0 /\ i < r * k})],
       ja     |-> [e \in DOMAIN order |-> order[e] % k],
       values |-> [e \in DOMAIN order |-> flat[order[e]]]]

\* comm->sumArray: every process ends with the sums.
GetBlockGraph(counts, k) ==
  FlatToCSR([i \in 0 .. (k * k - 1) |-> SumOverPE(LAMBDA p : counts[p][i])], k)

\* The list of <<block, block, weight>> a process sends to the root.
LocalBlockEdges(g, p) ==
  LET pairs == {<<g.part[e[1]], NeighborBlock(g, p, e[2])>> : e \in CutEntries(g, p)}
  IN  {<<b[1], b[2],
         EntryWeights(g, {e \in CutEntries(g, p) :
           <<g.part[e[1]], NeighborBlock(g, p, e[2])>> = b})>> : b \in pairs}

LexLess(a, b) == a[1] < b[1] \/ (a[1] = b[1] /\ a[2] < b[2])

\* The root adds up what the processes say of an edge.
MergedWeight(gathered, e) ==
  SumOf([x \in {y \in gathered : <<y[2][1], y[2][2]>> = e} |-> x[2][3]])

\* The root insists on an edge of every block; then it broadcasts the arrays.
BlockGraphDistFails(lists, k) ==
  UNION {{e[1] : e \in lists[p]} : p \in PE} # 0 .. (k - 1)

GetBlockGraphDist(lists, k) ==
  LET gathered == UNION {{<<p, e>> : e \in lists[p]} : p \in PE}
      keys     == Sorted({<<x[2][1], x[2][2]>> : x \in gathered}, LexLess)
  IN  [ia     |-> [r \in 0 .. k |-> Cardinality({e \in DOMAIN keys : keys[e][1] < r})],
       ja     |-> [e \in DOMAIN keys |-> keys[e][2]],
       values |-> [e \in DOMAIN keys |-> MergedWeight(gathered, keys[e])]]

\* Row b of a CSR matrix, as a function of the column.
CSREntry(csr, b, c) ==
  WeightOf(csr.values, {e \in (csr.ia[b] + 1) .. csr.ia[b + 1] : csr.ja[e] = c})

\* The process graph: how many edges lead to each neighbouring process.
GetPEGraph(g) ==
  [p \in PE |-> [q \in {g.owner[n] : n \in NonLocalNeighbors(g, p)} |->
     Cardinality({e \in Local(g, p) \X Local(g, q) : g.row[e[1]][e[2]] > 0})]]

(***************************************************************************)
(* The Laplacian in CSR form: the row entries negated, with the diagonal   *)
(* put before the first entry to its right.                                *)
(***************************************************************************)

DiagonalPlace(row, n) == Cardinality({m \in Neighbors(row, n) : m < n})

LaplacianRow(row, n) ==
  LET cols == Sorted(Neighbors(row, n), <)
      at   == DiagonalPlace(row, n) + 1
      degree == WeightOf(row[n], Neighbors(row, n))
  IN  InsertAt([j \in DOMAIN cols |-> <<cols[j], - row[n][cols[j]]>>], at, <<n, degree>>)

(***************************************************************************)
(* computeImbalance: the heaviest block against the optimum, as the pair   *)
(* of the numerator and the denominator.  A replicated vector is summed    *)
(* over all processes all the same.                                        *)
(***************************************************************************)
BlockWeights(g, weight) ==
  [b \in BlockIds |-> WeightOf(weight, {n \in DOMAIN g.row : g.part[n] = b})]

Imbalance(g, weight, weighted, replicated, optSizes) ==
  LET w       == IF weighted THEN weight ELSE [n \in DOMAIN g.row |-> 1]
      sizes   == BlockWeights(g, w)
      largest == Max({sizes[b] : b \in BlockIds})
      copies  == IF replicated THEN P ELSE 1
      spread  == Max({w[n] : n \in DOMAIN w}) - Min({w[n] : n \in DOMAIN w})
      opt     == IF weighted THEN copies * WeightOf(w, DOMAIN w) + K * spread
                 ELSE Cardinality(DOMAIN g.row)
  IN  IF weighted /\ optSizes # << >>
      THEN CHOOSE r \in {<<sizes[b] - optSizes[b + 1], optSizes[b + 1]>> : b \in BlockIds} :
             \A b \in BlockIds : r[1] * optSizes[b + 1] >= (sizes[b] - optSizes[b + 1]) * r[2]
      ELSE <<K * largest - opt, opt>>

-----------------------------------------------------------------------------
\* However a graph is distributed, and whichever way the block graph is built, its
\* entries are the edge weights between the blocks, and its total is twice the cut
\* (GraphUtils.cpp:301, 1011, 1138).
BlockGraphsAgree(g, flat, lists) ==
  LET ref(b, c) == IF b = c THEN 0
                   ELSE CutBetween(g.row, {n \in DOMAIN g.row : g.part[n] = b},
                                          {n \in DOMAIN g.row : g.part[n] = c})
  IN  /\ \A b, c \in BlockIds : CSREntry(flat, b, c) = ref(b, c)
      /\ BlockGraphDistFails(lists, K) \/ GetBlockGraphDist(lists, K) = flat
      /\ 2 * ComputeCut(g, TRUE)
           = SumOf(flat.values)

\* The measures of the communication fit each other: the one-pass version counts
\* what the separate ones do, a block's border and inner nodes are its nodes, and
\* the volume lies between its border nodes and its cut edges
\* (GraphUtils.cpp:651-955).
VolumesAgree(g) ==
  LET both == CommBndInner(g)  separate == NumBorderInnerNodes(g)
      nodes(b) == {n \in DOMAIN g.row : g.part[n] = b}
      cut(b) == Cardinality({e \in nodes(b) \X (DOMAIN g.row \ nodes(b)) :
                               g.row[e[1]][e[2]] > 0})
  IN  \A b \in BlockIds :
        /\ both[b].volume = CommVolume(g)[b]
        /\ both[b].border = separate[b].border /\ both[b].inner = separate[b].inner
        /\ both[b].border + both[b].inner = Cardinality(nodes(b))
        /\ both[b].border = WeightOf(GetBorderNodes(g), nodes(b))
        /\ both[b].border <= both[b].volume /\ both[b].volume <= cut(b)
        /\ both[b].volume <= Min({K - 1, GraphMaxDegree(g)}) * both[b].border

\* When every process owns one block, what the processes see of each other is what
\* the partition says: the process graph is symmetric, its edges are the cut edges,
\* and the border nodes are those with neighbours elsewhere
\* (GraphUtils.cpp:551, 608, 1325, 2056).
ProcessesSeeBlocks(g) ==
  g.owner = g.part =>
    /\ \A p, q \in PE : q \in DOMAIN GetPEGraph(g)[p] =>
         p \in DOMAIN GetPEGraph(g)[q] /\ GetPEGraph(g)[p][q] = GetPEGraph(g)[q][p]
    /\ \A p \in PE : LocalSumOutgoingEdges(g, p, FALSE)
         = SumOf(GetPEGraph(g)[p])
    /\ 2 * ComputeCut(g, TRUE) = SumOverPE(LAMBDA p : LocalSumOutgoingEdges(g, p, TRUE))
    /\ \A p \in PE : NodesWithNonLocalNeighbors(g, p, DOMAIN g.row)
                       = {n \in Local(g, p) : GetBorderNodes(g)[n] = 1}

\* The rows of the Laplacian stay sorted and add up to zero
\* (GraphUtils.cpp:1763-1838).
LaplacianIsOne(g) ==
  \A n \in DOMAIN g.row :
    LET r == LaplacianRow(g.row, n)
    IN  /\ SumOf([j \in DOMAIN r |-> r[j][2]]) = 0
        /\ \A i, j \in DOMAIN r : i < j => r[i][1] < r[j][1]
=============================================================================
