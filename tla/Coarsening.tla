----------------------------- MODULE Coarsening -----------------------------
(***************************************************************************)
(* MultiLevel::coarsen with maxLocalMatching and computeGlobalPrefixSum,   *)
(* and sumToCoarse: every process matches its own nodes along local edges  *)
(* and contracts the pairs, Iterations times.  Only then do the processes  *)
(* communicate: a prefix sum gives the coarse nodes their numbers, and the *)
(* numbers of the neighbours on other processes come through the halo.     *)
(*                                                                         *)
(* Local indices are in the order of the global ones, so local nodes go by *)
(* their global indices here, and all local arrays of all processes are    *)
(* functions on the nodes.                                                 *)
(***************************************************************************)
EXTENDS PartGraph

CONSTANTS
  P,           \* number of processes
  N,           \* number of nodes
  Instances,   \* what to choose from: a graph, the owner of every node, and
               \* settings.nnCoarsening
  Iterations   \* coarseningStepsBetweenRefinement

PE == 0 .. (P - 1)
Node == 0 .. (N - 1)

ASSUME CoarseningAssumption ==
  /\ P \in Nat \ {0} /\ N \in Nat \ {0} /\ Iterations \in Nat \ {0}
  /\ \A g \in Instances :
       /\ g.nnCoarsening \in BOOLEAN
       /\ g.owner \in [Node -> PE]
       /\ g.weight \in [Node -> Nat \ {0}]
       /\ g.row \in [Node -> [Node -> Nat]]
       /\ \A n, m \in Node : g.row[n][m] = g.row[m][n]

VARIABLES
  fine,         \* the chosen instance; never changes
  row,          \* rows of the graph contracted so far: graph.getLocalStorage()
  weight,       \* localWeightCopy
  preserved,
  rep,          \* localFineToCoarse
  cursor,       \* the node at which a process is in maxLocalMatching
  mate,         \* the matching of this iteration, -1 for an unmatched node
  iteration,
  fineToCoarse, \* numbers of the coarse nodes, -1 until the prefix sum
  coarseRow,    \* rows of coarseGraph
  coarseWeight, \* sumToCoarse of the node weights
  pc

vars == <<fine, row, weight, preserved, rep, cursor, mate, iteration,
          fineToCoarse, coarseRow, coarseWeight, pc>>

Local(p) == {n \in Node : fine.owner[n] = p}

Unmatched == [n \in Node |-> -1]

Init ==
  /\ fine \in Instances
  /\ row = fine.row
  /\ weight = fine.weight
  /\ preserved = Node
  /\ rep = [n \in Node |-> n]
  /\ cursor = [p \in PE |-> 0]
  /\ mate = Unmatched
  /\ iteration = [p \in PE |-> 0]
  /\ fineToCoarse = Unmatched
  /\ coarseRow = [c \in Node |-> [d \in Node |-> 0]]
  /\ coarseWeight = [c \in Node |-> 0]
  /\ pc = [p \in PE |-> "match"]

-----------------------------------------------------------------------------
\* The local neighbours of n that are not matched.
Candidates(n) ==
  {m \in Neighbors(row, n) : fine.owner[m] = fine.owner[n] /\ mate[m] = -1}

\* The edge rating v^2 / (w(n) w(m)) of m is at least that of k.
RatedAtLeast(n, m, k) ==
  row[n][m] * row[n][m] * weight[k] >= row[n][k] * row[n][k] * weight[m]

\* The first of the best candidates by edge rating, or any if the distance
\* decides (edgeRatingPartner, nnPartner).
BestPartners(n) ==
  LET best == {m \in Candidates(n) : \A k \in Candidates(n) : RatedAtLeast(n, m, k)}
  IN  IF fine.nnCoarsening THEN Candidates(n)
      ELSE {m \in best : \A k \in best : m <= k}

\* (The mutant excludes the first edge of every node.)
FirstEntryMut(n, m) == \A j \in Node : j < m => row[n][j] = 0

\* The edge has index 0 in the local storage, whose columns are sorted;
\* bestTarget > 0 excludes it.
FirstEntry(n, m) ==
  /\ \A k \in Local(fine.owner[n]) : k < n => \A j \in Node : row[k][j] = 0
  /\ \A j \in Node : j < m => row[n][j] = 0

Advance(p, n) ==
  /\ cursor' = [cursor EXCEPT ![p] = n + 1]
  /\ UNCHANGED <<fine, row, weight, preserved, rep, iteration, fineToCoarse,
                 coarseRow, coarseWeight, pc>>

\* The next node of the loop of maxLocalMatching on p.
IsNext(p, n) ==
  /\ pc[p] = "match" /\ n \in Local(p) /\ n >= cursor[p]
  /\ \A k \in Local(p) : k >= cursor[p] => n <= k

MatchNode(p, n) ==
  /\ IsNext(p, n) /\ mate[n] = -1
  /\ \E m \in BestPartners(n) :
       /\ ~ FirstEntry(n, m)
       /\ mate' = [mate EXCEPT ![n] = m, ![m] = n]
  /\ Advance(p, n)

\* n is matched, has no candidate, or its best edge has index 0.
SkipNode(p, n) ==
  /\ IsNext(p, n)
  /\ \/ mate[n] # -1
     \/ BestPartners(n) = {}
     \/ \E m \in BestPartners(n) : FirstEntry(n, m)
  /\ Advance(p, n)
  /\ UNCHANGED mate

-----------------------------------------------------------------------------
\* The nodes of p that are merged into their partner in this iteration.
Merged(p) == {n \in Local(p) \cap preserved : mate[n] # -1 /\ mate[n] < n}

\* A node merged in this iteration follows its partner, one merged earlier
\* follows its representative.
NewRep(n) ==
  LET m == rep[n] IN IF mate[m] # -1 /\ mate[m] < m THEN mate[m] ELSE m

\* The node that takes over the row of n, and where an edge of p to n goes.
Into(p, n) == IF n \in Merged(p) THEN mate[n] ELSE n

\* The new row of n: the entries of all rows that go into n, redirected.
Rewired(p, n) ==
  [t \in Node |->
     MapThenSumSet(LAMBDA e : row[e[1]][e[2]],
                   {e \in {i \in Local(p) : Into(p, i) = n} \X Node :
                      Into(p, e[2]) = t})]

\* p contracts its matching and starts the next iteration, if there is one.
Contract(p) ==
  /\ pc[p] = "match"
  /\ \A n \in Local(p) : n < cursor[p]
  /\ preserved' = preserved \ Merged(p)
  /\ rep' = [n \in Node |-> IF n \in Local(p) THEN NewRep(n) ELSE rep[n]]
  /\ weight' = [n \in Node |->
                  IF n \in Local(p) /\ mate[n] \in Merged(p)
                  THEN weight[n] + weight[mate[n]] ELSE weight[n]]
  /\ row' = [n \in Node |-> IF n \in Local(p) THEN Rewired(p, n) ELSE row[n]]
  /\ mate' = [n \in Node |-> IF n \in Local(p) THEN -1 ELSE mate[n]]
  /\ cursor' = [cursor EXCEPT ![p] = 0]
  /\ iteration' = [iteration EXCEPT ![p] = @ + 1]
  /\ pc' = [pc EXCEPT ![p] = IF iteration[p] + 1 = Iterations
                             THEN "number" ELSE "match"]
  /\ UNCHANGED <<fine, fineToCoarse, coarseRow, coarseWeight>>

\* What the root scatters: the coarse nodes of all lower processes.
Offset(p) == Cardinality({n \in preserved : fine.owner[n] < p})

\* The prefix sum of the preserved nodes, block by block, less one.
PrefixSum(n) ==
  Offset(fine.owner[n])
    + Cardinality({m \in preserved \cap Local(fine.owner[n]) : m <= n}) - 1

\* (The mutant leaves contracted nodes with the number from the prefix sum.)
NumberOfMut(n) == PrefixSum(n)

NumberOf(n) == PrefixSum(rep[n])

\* computeGlobalPrefixSum: gather to the root and scatter from it; then every
\* process gives contracted nodes the number of their representative.
NumberCoarseNodes ==
  /\ \A p \in PE : pc[p] = "number"
  /\ fineToCoarse' = [n \in Node |-> NumberOf(n)]
  /\ pc' = [p \in PE |-> "build"]
  /\ UNCHANGED <<fine, row, weight, preserved, rep, cursor, mate, iteration,
                 coarseRow, coarseWeight>>

\* p gets the numbers of its halo and builds its rows of the coarse graph.  The
\* entries of local edges are unique; those of halo edges are summed up.
BuildCoarseGraph(p) ==
  /\ pc[p] = "build"
  /\ pc' = [pc EXCEPT ![p] = "weights"]
  /\ coarseRow' = [c \in Node |->
       IF \E n \in preserved \cap Local(p) : fineToCoarse[n] = c
       THEN LET n == CHOOSE n \in preserved \cap Local(p) : fineToCoarse[n] = c
            IN  [d \in Node |->
                   MapThenSumSet(LAMBDA m : row[n][m],
                                 {m \in Node : fineToCoarse[m] = d})]
       ELSE coarseRow[c]]
  /\ UNCHANGED <<fine, row, weight, preserved, rep, cursor, mate, iteration,
                 fineToCoarse, coarseWeight>>

\* sumToCoarse, called by multiLevelStep with the original node weights.
SumToCoarse(p) ==
  /\ pc[p] = "weights"
  /\ pc' = [pc EXCEPT ![p] = "done"]
  /\ coarseWeight' = [c \in Node |->
       coarseWeight[c] + WeightOf(fine.weight, {n \in Local(p) : fineToCoarse[n] = c})]
  /\ UNCHANGED <<fine, row, weight, preserved, rep, cursor, mate, iteration,
                 fineToCoarse, coarseRow>>

Returned == (\A p \in PE : pc[p] = "done") /\ UNCHANGED vars

Next ==
  \/ \E p \in PE :
       \/ \E n \in Node : MatchNode(p, n) \/ SkipNode(p, n)
       \/ Contract(p) \/ BuildCoarseGraph(p) \/ SumToCoarse(p)
  \/ NumberCoarseNodes
  \/ Returned

Spec == Init /\ [][Next]_vars
-----------------------------------------------------------------------------
\* When a process has passed all nodes, no local edge is left between two
\* unmatched nodes, although the edge with index 0 is never taken from its
\* first end (MultiLevel.cpp:710).
MatchingMaximal ==
  \A p \in PE : pc[p] = "match" /\ (\A n \in Local(p) : n < cursor[p]) =>
    \A n \in Local(p) : mate[n] = -1 => Candidates(n) = {}

\* The coarse graph that the processes have built from their own sides equals
\* the contraction of the input along fineToCoarse, and so does the weight of
\* every coarse node: it is symmetric, and any partition of the coarse graph
\* has the cut and the block weights of its projection.
CoarseGraphIsContraction ==
  (\A p \in PE : pc[p] = "done") =>
    LET class(c) == {n \in Node : fineToCoarse[n] = c}
    IN  /\ \A c, d \in Node :
             coarseRow[c][d] = MapThenSumSet(LAMBDA e : fine.row[e[1]][e[2]],
                                             class(c) \X class(d))
        /\ \A c \in Node : coarseWeight[c] = WeightOf(fine.weight, class(c))
        /\ \A n \in preserved : coarseWeight[fineToCoarse[n]] = weight[n]
=============================================================================
