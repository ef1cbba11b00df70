-------------------------- MODULE CoarseningProofs --------------------------
(***************************************************************************)
(* Proofs about Coarsening, for every graph, every distribution of its     *)
(* nodes and any number of processes and iterations.                       *)
(*                                                                         *)
(* The invariant of the contraction is a view that each process has of the *)
(* whole graph: its own nodes are replaced by their representatives, all   *)
(* others stand for themselves (View).  Its rows are those of the input    *)
(* graph contracted along this view (RowsInv), which a cut that adds up    *)
(* over disjoint sets carries from one iteration to the next.  So two      *)
(* nodes of a process always see each other through the same edge, and     *)
(* this is why the exclusion of edge 0 costs no pair: the other end of the *)
(* edge comes later in the loop and is not excluded (PassedInv).           *)
(*                                                                         *)
(* Once the prefix sum has numbered the preserved nodes, no two alike, a   *)
(* class of nodes with one number is a class with one representative, on   *)
(* every process; the rows that the processes build from their own views   *)
(* are then rows of one and the same coarse graph (BuiltInv).              *)
(***************************************************************************)
EXTENDS Coarsening, PartGraphProofs

\* The graph as process p sees it: its own nodes contracted, the others not.
View(p) == [n \in Node |-> IF n \in Local(p) THEN rep[n] ELSE n]

TypeInv ==
  /\ fine \in Instances
  /\ row \in [Node -> [Node -> Nat]]
  /\ weight \in [Node -> Nat \ {0}]
  /\ preserved \in SUBSET Node
  /\ rep \in [Node -> preserved]
  /\ cursor \in [PE -> Nat]
  /\ mate \in [Node -> Node \cup {-1}]
  /\ coarseRow \in [Node -> [Node -> Int]]
  /\ coarseWeight \in [Node -> Int]
  /\ pc \in [PE -> {"match", "number", "build", "weights", "done"}]

\* Representatives are preserved nodes of the same process.
RepInv ==
  /\ \A n \in Node : fine.owner[rep[n]] = fine.owner[n]
  /\ \A n \in preserved : rep[n] = n

\* Partners are two preserved nodes of one process.
MateInv ==
  \A n \in Node : mate[n] # -1 =>
    /\ n \in preserved /\ mate[n] \in preserved /\ mate[n] # n
    /\ mate[mate[n]] = n /\ fine.owner[mate[n]] = fine.owner[n]

RowsInv ==
  \A p \in PE : \A n \in Local(p), t \in Node :
    row[n][t] = CutBetween(fine.row, Fibre(View(p), n), Fibre(View(p), t))

WeightsInv == \A n \in preserved : weight[n] = WeightOf(fine.weight, Fibre(rep, n))

\* There is no edge between two nodes that were passed and left unmatched.
PassedInv ==
  \A p \in PE : pc[p] = "match" =>
    \A n, m \in Local(p) :
      /\ n # m /\ n < cursor[p] /\ m < cursor[p] /\ mate[n] = -1 /\ mate[m] = -1
      => row[n][m] = 0

Numbered == \E p \in PE : pc[p] \in {"build", "weights", "done"}

Numbers ==
  /\ \A p \in PE : pc[p] \in {"build", "weights", "done"}
  /\ fineToCoarse = [n \in Node |-> NumberOf(n)]

Blank ==
  /\ \A c, d \in Node : coarseRow[c][d] = 0
  /\ \A c \in Node : coarseWeight[c] = 0

BuiltInv ==
  /\ \A n \in preserved : pc[fine.owner[n]] \in {"weights", "done"} =>
       \A d \in Node : coarseRow[fineToCoarse[n]][d] =
         CutBetween(fine.row, Fibre(fineToCoarse, fineToCoarse[n]), Fibre(fineToCoarse, d))
  /\ \A c \in Node : (\A n \in preserved : fineToCoarse[n] # c) =>
       \A d \in Node : coarseRow[c][d] = 0
  /\ \A c \in Node : coarseWeight[c] =
       WeightOf(fine.weight, {n \in Fibre(fineToCoarse, c) : pc[fine.owner[n]] = "done"})

CoarseInv == IF Numbered THEN Numbers /\ BuiltInv ELSE Blank

ContractionInv == TypeInv /\ RepInv /\ MateInv /\ RowsInv /\ WeightsInv /\ PassedInv /\ CoarseInv

\* The set of nodes and the input graph are what they are throughout.
LEMMA Basics ==
  ASSUME fine \in Instances
  PROVE  /\ P \in Nat \ {0} /\ N \in Nat \ {0} /\ IsFiniteSet(Node)
         /\ \A S \in SUBSET Node : IsFiniteSet(S)
         /\ fine.nnCoarsening \in BOOLEAN
         /\ fine.owner \in [Node -> PE]
         /\ fine.weight \in [Node -> Nat \ {0}]
         /\ fine.row \in [Node -> [Node -> Nat]]
         /\ \A n, m \in Node : fine.row[n][m] = fine.row[m][n]
  <1>1. P \in Nat \ {0} /\ N \in Nat \ {0}
    BY CoarseningAssumption
  <1>2. IsFiniteSet(Node)
    BY <1>1, FS_Interval DEF Node
  <1>3. \A S \in SUBSET Node : IsFiniteSet(S)
    BY <1>2, FS_Subset
  <1>4. QED
    BY <1>1, <1>2, <1>3, CoarseningAssumption

\* A contracted row is the cut from the nodes that go into it.
LEMMA RewiredIsCut ==
  ASSUME fine \in Instances, row \in [Node -> [Node -> Nat]], NEW p \in PE, NEW n \in Node,
         NEW t \in Node,
         NEW A, A = {i \in Local(p) : Into(p, i) = n}, NEW B, B = {j \in Node : Into(p, j) = t}
  PROVE  Rewired(p, n)[t] = CutBetween(row, A, B)
  <1> DEFINE D == {e \in A \X Node : Into(p, e[2]) = t}
  <1>1. Rewired(p, n)[t] = EntriesOf(row, D)
    BY Zenon DEF Rewired, EntriesOf
  <1>2. D = A \X B
    OBVIOUS
  <1>3. A \in SUBSET Node /\ B \in SUBSET Node
    BY DEF Local
  <1>4. EntriesOf(row, A \X B) = CutBetween(row, A, B)
    <2>1. \A i \in A, j \in B : row[i][j] \in Nat
      BY <1>3
    <2>2. IsFiniteSet(A) /\ IsFiniteSet(B)
      BY <1>3, Basics
    <2>3. QED
      BY ONLY <2>1, <2>2, EntriesCut
  <1> HIDE DEF D
  <1>5. QED
    BY <1>1, <1>2, <1>4

\* Two nodes of a process see each other through the same edge.
LEMMA RowsSymmetric ==
  ASSUME fine \in Instances, RowsInv, NEW p \in PE, NEW n \in Local(p), NEW m \in Local(p)
  PROVE  row[n][m] = row[m][n]
  <1> DEFINE A == Fibre(View(p), n)
             B == Fibre(View(p), m)
  <1>1. row[n][m] = CutBetween(fine.row, A, B) /\ row[m][n] = CutBetween(fine.row, B, A)
    BY DEF RowsInv, Local
  <1>2. A \in SUBSET Node /\ B \in SUBSET Node
    BY DEF Fibre, View
  <1> HIDE DEF A, B
  <1>3. IsFiniteSet(A) /\ IsFiniteSet(B)
    BY <1>2, Basics
  <1>4. \A i \in A, j \in B : fine.row[i][j] \in Nat /\ fine.row[j][i] = fine.row[i][j]
    BY <1>2, Basics
  <1>5. CutBetween(fine.row, A, B) = CutBetween(fine.row, B, A)
    BY ONLY <1>3, <1>4, CutSymmetric
  <1>6. QED
    BY <1>1, <1>5

\* Only preserved nodes have edges.
LEMMA EdgesOfPreserved ==
  ASSUME fine \in Instances, rep \in [Node -> preserved], RowsInv, NEW p \in PE,
         NEW n \in Local(p), NEW t \in Node, row[n][t] > 0
  PROVE  n \in preserved /\ (t \in Local(p) => t \in preserved)
  <1> DEFINE A == Fibre(View(p), n)
             B == Fibre(View(p), t)
  <1>1. row[n][t] = CutBetween(fine.row, A, B)
    BY DEF RowsInv, Local
  <1>2. A \in SUBSET Node /\ B \in SUBSET Node
    BY DEF Fibre, View
  <1>3. (A # {} => n \in preserved) /\ (B # {} => (t \in Local(p) => t \in preserved))
    <2>1. n \in Local(p)
      OBVIOUS
    <2>2. QED
      BY <2>1 DEF Fibre, View, Local
  <1> HIDE DEF A, B
  <1>4. IsFiniteSet(A) /\ IsFiniteSet(B)
    BY <1>2, Basics
  <1>5. \A i \in A, j \in B : fine.row[i][j] \in Nat
    BY <1>2, Basics
  <1>6. CutBetween(fine.row, A, B) > 0 <=> \E i \in A, j \in B : fine.row[i][j] > 0
    BY ONLY <1>4, <1>5, CutPositive
  <1>7. A # {} /\ B # {}
    BY <1>1, <1>6
  <1>8. QED
    BY <1>3, <1>7

\* How candidates are rated is a preorder.
LEMMA RatingTransitive ==
  ASSUME NEW a \in Nat, NEW b \in Nat, NEW c \in Nat,
         NEW x \in Nat \ {0}, NEW y \in Nat \ {0}, NEW z \in Nat \ {0},
         a * y >= b * x, b * z >= c * y
  PROVE  a * z >= c * x
  <1>1. (a * y) * z >= (b * x) * z /\ (b * z) * x >= (c * y) * x
    BY SMT
  <1>2. (a * y) * z = y * (a * z) /\ (b * x) * z = (b * z) * x /\ (c * y) * x = y * (c * x)
    BY SMT
  <1> DEFINE u == a * z
             v == c * x
  <1>3. u \in Nat /\ v \in Nat
    OBVIOUS
  <1>4. y * u >= y * v
    BY <1>1, <1>2
  <1> HIDE DEF u, v
  <1>5. u >= v
    BY <1>3, <1>4, SMT
  <1>6. QED
    BY <1>5 DEF u, v

\* A node with candidates has a best one.
LEMMA BestExists ==
  ASSUME fine \in Instances, row \in [Node -> [Node -> Nat]], weight \in [Node -> Nat \ {0}],
         NEW n \in Node, Candidates(n) # {}
  PROVE  BestPartners(n) # {}
  <1> DEFINE C == Candidates(n)
             Best(t) == {m \in t : \A k \in t : RatedAtLeast(n, m, k)}
             B == {t \in SUBSET C : t # {} /\ Best(t) = {}}
  <1>1. C \in SUBSET Node /\ IsFiniteSet(C)
    <2>1. C \in SUBSET Node
      BY DEF Candidates, Neighbors
    <2>2. QED
      BY <2>1, Basics
  <1>2. \A m, k \in Node : /\ row[n][m] \in Nat /\ row[n][m] * row[n][m] \in Nat
                           /\ weight[m] \in Nat \ {0}
    BY SMT
  <1>3. Best(C) # {}
    <2>1. SUFFICES ASSUME Best(C) = {} PROVE FALSE
      OBVIOUS
    <2>2. PICK t \in B : \A u \in SUBSET t : u # t => u \notin B
      <3>1. B \in SUBSET (SUBSET C) /\ B # {}
        BY <2>1
      <3> HIDE DEF B, C
      <3>2. QED
        BY <1>1, <3>1, SmallestSet
    <2>3. PICK x \in t : TRUE
      OBVIOUS
    <2> DEFINE r == t \ {x}
    <2>4. r \in SUBSET t /\ r # t /\ r \in SUBSET C /\ x \in Node /\ t \in SUBSET Node
      BY <1>1, <2>3
    <2>5. RatedAtLeast(n, x, x)
      BY <1>2, <2>4 DEF RatedAtLeast
    <2>6. r # {}
      <3>1. CASE r = {}
        <4>1. t = {x}
          BY <2>3, <3>1
        <4>2. x \in Best(t)
          BY <2>5, <4>1
        <4>3. QED
          BY <4>2
      <3>2. QED
        BY <3>1
    <2>7. PICK y \in r : \A k \in r : RatedAtLeast(n, y, k)
      BY <2>2, <2>4, <2>6
    <2>8. y \in Node /\ y \in t
      BY <2>4, <2>7
    <2>9. CASE RatedAtLeast(n, y, x)
      <3>1. y \in Best(t)
        BY <2>7, <2>8, <2>9
      <3>2. QED
        BY <3>1
    <2>10. CASE ~ RatedAtLeast(n, y, x)
      <3> DEFINE s(m) == row[n][m] * row[n][m]
      <3>1. \A m \in Node : s(m) \in Nat
        BY <1>2
      <3>2. \A m, k \in Node : RatedAtLeast(n, m, k) <=> s(m) * weight[k] >= s(k) * weight[m]
        BY DEF RatedAtLeast
      <3> HIDE DEF s
      <3>3. s(x) * weight[y] >= s(y) * weight[x]
        <4>1. /\ s(x) \in Nat /\ s(y) \in Nat /\ weight[x] \in Nat /\ weight[y] \in Nat
              /\ ~ (s(y) * weight[x] >= s(x) * weight[y])
          BY <1>2, <2>4, <2>8, <2>10, <3>1, <3>2
        <4>2. QED
          BY ONLY <4>1, SMT
      <3>4. ASSUME NEW k \in r PROVE RatedAtLeast(n, x, k)
        <4>1. k \in Node /\ s(y) * weight[k] >= s(k) * weight[y]
          BY <2>4, <2>7, <2>8, <3>2
        <4>2. /\ s(x) \in Nat /\ s(y) \in Nat /\ s(k) \in Nat
              /\ weight[x] \in Nat \ {0} /\ weight[y] \in Nat \ {0} /\ weight[k] \in Nat \ {0}
          BY <1>2, <2>4, <2>8, <3>1, <4>1
        <4>3. s(x) * weight[k] >= s(k) * weight[x]
          BY ONLY <3>3, <4>1, <4>2, RatingTransitive
        <4>4. QED
          BY <2>4, <3>2, <4>1, <4>3
      <3>5. x \in Best(t)
        BY <2>3, <2>5, <3>4
      <3>6. QED
        BY <3>5
    <2>11. QED
      BY <2>9, <2>10
  <1>4. CASE fine.nnCoarsening
    BY <1>4 DEF BestPartners
  <1>5. CASE ~ fine.nnCoarsening
    <2>1. Best(C) \in SUBSET Nat
      BY <1>1 DEF Node
    <2>2. PICK m \in Best(C) : \A k \in Best(C) : m <= k
      <3> HIDE DEF Best, C
      <3>1. QED
        BY <1>3, <2>1, LeastNatural
    <2>3. m \in BestPartners(n)
      BY <1>5, <2>2 DEF BestPartners
    <2>4. QED
      BY <2>3
  <1>6. QED
    BY <1>4, <1>5, Basics

(***************************************************************************)
(* Matching.                                                               *)
(***************************************************************************)

\* What the conjuncts about the contracted graph depend on.
Contracted == <<fine, row, weight, preserved, rep>>

\* Matching leaves the contracted graph alone.
LEMMA GraphStays ==
  ASSUME UNCHANGED Contracted, RepInv, RowsInv, WeightsInv
  PROVE  RepInv' /\ RowsInv' /\ WeightsInv'
  BY DEF Contracted, RepInv, RowsInv, WeightsInv, Local, View

\* Before the numbers are given, a process is about to match or waits for them.
LEMMA NotNumbered ==
  ASSUME pc \in [PE -> {"match", "number", "build", "weights", "done"}], CoarseInv,
         \E p \in PE : pc[p] \in {"match", "number"}
  PROVE  ~ Numbered /\ Blank
  BY DEF CoarseInv, Numbered, Numbers

\* A node matches an unmatched local neighbour: both are preserved.
LEMMA MatchNodeKeeps ==
  ASSUME ContractionInv, NEW p \in PE, NEW n \in Node, MatchNode(p, n)
  PROVE  ContractionInv'
  <1>1. /\ pc[p] = "match" /\ n \in Local(p) /\ n >= cursor[p] /\ mate[n] = -1
        /\ \A k \in Local(p) : k >= cursor[p] => n <= k
        /\ UNCHANGED <<fine, row, weight, preserved, rep, iteration, fineToCoarse, coarseRow,
                       coarseWeight, pc>>
        /\ cursor' = [cursor EXCEPT ![p] = n + 1]
    BY DEF MatchNode, IsNext, Advance
  <1>2. PICK m \in BestPartners(n) : mate' = [mate EXCEPT ![n] = m, ![m] = n]
    BY DEF MatchNode
  <1>3. TypeInv /\ RepInv /\ MateInv /\ RowsInv /\ WeightsInv /\ PassedInv /\ CoarseInv
    BY DEF ContractionInv
  <1>4. /\ m \in Node /\ m # n /\ row[n][m] > 0 /\ mate[m] = -1 /\ m \in Local(p)
    BY <1>1, <1>2, <1>3 DEF BestPartners, Candidates, Neighbors, Local, TypeInv
  <1>5. n \in preserved /\ m \in preserved
    BY <1>1, <1>3, <1>4, EdgesOfPreserved DEF TypeInv
  <1>6. n \in Nat /\ N \in Nat
    BY <1>3, Basics DEF Node, TypeInv
  <1>7. TypeInv'
    BY <1>1, <1>2, <1>3, <1>4, <1>6 DEF TypeInv
  <1>8. RepInv' /\ RowsInv' /\ WeightsInv'
    BY <1>1, <1>3, GraphStays DEF Contracted
  <1>9. /\ mate \in [Node -> Node \cup {-1}]
        /\ mate'[n] = m /\ mate'[m] = n
        /\ \A k \in Node : k # n /\ k # m => mate'[k] = mate[k]
    BY <1>2, <1>3, <1>4 DEF TypeInv
  <1>10. \A k \in Node : n # -1 /\ m # -1 /\ k # -1
    BY <1>4, <1>6 DEF Node
  <1>11. fine.owner[n] = fine.owner[m]
    BY <1>1, <1>4 DEF Local
  <1>12. MateInv'
    <2> SUFFICES ASSUME NEW k \in Node, mate'[k] # -1
                 PROVE  /\ k \in preserved /\ mate'[k] \in preserved /\ mate'[k] # k
                        /\ mate'[mate'[k]] = k /\ fine.owner[mate'[k]] = fine.owner[k]
      BY <1>1 DEF MateInv
    <2>1. CASE k = n
      BY <1>4, <1>5, <1>9, <1>11, <2>1
    <2>2. CASE k = m
      BY <1>4, <1>5, <1>9, <1>11, <2>2
    <2>3. CASE k # n /\ k # m
      <3>1. /\ k \in preserved /\ mate[k] \in preserved /\ mate[k] # k
            /\ mate[mate[k]] = k /\ fine.owner[mate[k]] = fine.owner[k] /\ mate'[k] = mate[k]
        BY <1>3, <1>9, <2>3 DEF MateInv
      <3>2. mate[k] # n /\ mate[k] # m /\ mate[k] \in Node
        BY <1>1, <1>3, <1>4, <1>10, <3>1 DEF TypeInv
      <3>3. QED
        BY <1>9, <3>1, <3>2
    <2>4. QED
      BY <2>1, <2>2, <2>3
  <1>13. PassedInv'
    <2> SUFFICES ASSUME NEW q \in PE, pc[q] = "match", NEW i \in Local(q), NEW j \in Local(q),
                        i # j, i < cursor'[q], j < cursor'[q], mate'[i] = -1, mate'[j] = -1
                 PROVE  row[i][j] = 0
      BY <1>1 DEF PassedInv, Local
    <2>1. i \in Node /\ j \in Node
      BY DEF Local
    <2>2. i # n /\ j # n /\ i # m /\ j # m /\ mate[i] = -1 /\ mate[j] = -1
      BY <1>4, <1>9, <1>10, <2>1
    <2>3. i < cursor[q] /\ j < cursor[q]
      <3>1. CASE q # p
        BY <1>1, <1>3, <3>1 DEF TypeInv
      <3>2. CASE q = p
        <4>1. cursor'[q] = n + 1 /\ cursor[p] \in Nat
          BY <1>1, <1>3, <3>2 DEF TypeInv
        <4>2. \A k \in Local(p) : k \in Nat
          BY DEF Local, Node
        <4>3. \A k \in Local(p) : k < n + 1 /\ k # n => k < cursor[p]
          BY <1>1, <1>6, <4>1, <4>2
        <4>4. QED
          BY <2>2, <3>2, <4>1, <4>3
      <3>3. QED
        BY <3>1, <3>2
    <2>4. QED
      BY <1>3, <2>2, <2>3 DEF PassedInv
  <1>14. CoarseInv'
    <2>1. ~ Numbered /\ Blank
      BY <1>1, <1>3, NotNumbered DEF TypeInv
    <2>2. ~ Numbered' /\ Blank'
      BY <1>1, <2>1 DEF Numbered, Blank
    <2>3. QED
      BY <2>2 DEF CoarseInv
  <1>15. QED
    BY <1>7, <1>8, <1>12, <1>13, <1>14 DEF ContractionInv

\* A node is skipped although it has candidates only if it has the first edge of
\* all; then no node before it has one, and its partner comes later.
LEMMA SkipNodeKeeps ==
  ASSUME ContractionInv, NEW p \in PE, NEW n \in Node, SkipNode(p, n)
  PROVE  ContractionInv'
  <1>1. /\ pc[p] = "match" /\ n \in Local(p) /\ n >= cursor[p]
        /\ \A k \in Local(p) : k >= cursor[p] => n <= k
        /\ UNCHANGED <<fine, row, weight, preserved, rep, iteration, fineToCoarse, coarseRow,
                       coarseWeight, pc, mate>>
        /\ cursor' = [cursor EXCEPT ![p] = n + 1]
    BY DEF SkipNode, IsNext, Advance
  <1>2. mate[n] # -1 \/ BestPartners(n) = {} \/ \E m \in BestPartners(n) : FirstEntry(n, m)
    BY DEF SkipNode
  <1>3. TypeInv /\ RepInv /\ MateInv /\ RowsInv /\ WeightsInv /\ PassedInv /\ CoarseInv
    BY DEF ContractionInv
  <1>4. n \in Nat /\ cursor \in [PE -> Nat]
    BY <1>3, Basics DEF Node, TypeInv
  <1>5. TypeInv'
    BY <1>1, <1>3, <1>4 DEF TypeInv
  <1>6. RepInv' /\ RowsInv' /\ WeightsInv'
    BY <1>1, <1>3, GraphStays DEF Contracted
  <1>7. MateInv'
    BY <1>1, <1>3 DEF MateInv
  <1>8. ASSUME NEW k \in Local(p), k < n, mate[k] = -1, mate[n] = -1 PROVE row[n][k] = 0
    <2>1. SUFFICES ASSUME row[n][k] # 0 PROVE FALSE
      OBVIOUS
    <2>2. k \in Node /\ fine.owner[k] = p /\ fine.owner[n] = p
      BY <1>1 DEF Local
    <2>3. k # n /\ row[n][k] > 0
      <3>1. row[n][k] \in Nat
        BY <1>3, <2>2 DEF TypeInv
      <3>2. k # n
        BY <1>4, <1>8
      <3>3. QED
        BY <2>1, <3>1, <3>2
    <2>4. k \in Candidates(n)
      BY <1>3, <1>8, <2>2, <2>3 DEF Candidates, Neighbors, TypeInv
    <2>5. BestPartners(n) # {}
      BY <1>3, <2>4, BestExists DEF TypeInv
    <2>6. \A j \in Node : row[k][j] = 0
      BY <1>2, <1>8, <2>2, <2>5 DEF FirstEntry
    <2>7. row[k][n] = row[n][k]
      BY <1>1, <1>3, <1>8, RowsSymmetric DEF TypeInv
    <2>8. QED
      BY <2>1, <2>6, <2>7
  <1>9. PassedInv'
    <2> SUFFICES ASSUME NEW q \in PE, pc[q] = "match", NEW i \in Local(q), NEW j \in Local(q),
                        i # j, i < cursor'[q], j < cursor'[q], mate[i] = -1, mate[j] = -1
                 PROVE  row[i][j] = 0
      BY <1>1 DEF PassedInv, Local
    <2>1. CASE q # p
      <3>1. cursor'[q] = cursor[q]
        BY <1>1, <1>4, <2>1
      <3>2. QED
        BY <1>3, <3>1 DEF PassedInv
    <2>2. CASE q = p
      <3>1. cursor'[q] = n + 1 /\ cursor[p] \in Nat
        BY <1>1, <1>4, <2>2
      <3>2. \A k \in Local(p) : k \in Nat
        BY DEF Local, Node
      <3>3. \A k \in Local(p) : k < n + 1 => k = n \/ (k < cursor[p] /\ k < n)
        BY <1>1, <1>4, <3>1, <3>2
      <3>4. CASE i = n
        <4>1. j < n
          BY <2>2, <3>1, <3>3, <3>4
        <4>2. QED
          BY <1>8, <2>2, <3>4, <4>1
      <3>5. CASE j = n
        <4>1. i < n
          BY <2>2, <3>1, <3>3, <3>5
        <4>2. row[n][i] = 0
          BY <1>8, <2>2, <3>5, <4>1
        <4>3. row[i][n] = row[n][i]
          BY <1>1, <1>3, <2>2, RowsSymmetric DEF TypeInv
        <4>4. QED
          BY <3>5, <4>2, <4>3
      <3>6. CASE i # n /\ j # n
        <4>1. i < cursor[q] /\ j < cursor[q]
          BY <2>2, <3>1, <3>3, <3>6
        <4>2. QED
          BY <1>3, <4>1 DEF PassedInv
      <3>7. QED
        BY <3>4, <3>5, <3>6
    <2>3. QED
      BY <2>1, <2>2
  <1>10. CoarseInv'
    <2>1. ~ Numbered /\ Blank
      BY <1>1, <1>3, NotNumbered DEF TypeInv
    <2>2. ~ Numbered' /\ Blank'
      BY <1>1, <2>1 DEF Numbered, Blank
    <2>3. QED
      BY <2>2 DEF CoarseInv
  <1>11. QED
    BY <1>5, <1>6, <1>7, <1>9, <1>10 DEF ContractionInv

(***************************************************************************)
(* Contraction on one process.                                             *)
(***************************************************************************)

\* What the contraction of a process does to the view of its nodes.
LEMMA ViewContracted ==
  ASSUME TypeInv, RepInv, MateInv, NEW p \in PE, Contract(p)
  PROVE  /\ \A n \in Local(p) : rep'[n] = Into(p, rep[n]) /\ rep[n] \in Local(p)
         /\ \A n \in Node \ Local(p) : rep'[n] = rep[n]
         /\ Local(p)' = Local(p)
         /\ \A n \in Node : View(p)'[n] = Into(p, View(p)[n])
         /\ \A n \in Node : Into(p, n) \in Local(p) <=> n \in Local(p)
         /\ \A n \in Node : Into(p, n) \in Node
  <1>1. /\ rep \in [Node -> preserved] /\ preserved \in SUBSET Node
        /\ mate \in [Node -> Node \cup {-1}]
        /\ \A n \in Node : fine.owner[rep[n]] = fine.owner[n]
        /\ rep' = [n \in Node |-> IF n \in Local(p) THEN NewRep(n) ELSE rep[n]]
        /\ fine' = fine
    BY DEF TypeInv, RepInv, Contract
  <1>2. Local(p)' = Local(p)
    BY <1>1 DEF Local
  <1>3. \A n \in Local(p) : n \in Node /\ rep[n] \in Local(p) \cap preserved
    BY <1>1 DEF Local
  <1>4. \A n \in Local(p) : rep'[n] = Into(p, rep[n])
    <2> SUFFICES ASSUME NEW n \in Local(p) PROVE NewRep(n) = Into(p, rep[n])
      BY <1>1, <1>3
    <2>1. rep[n] \in Merged(p) <=> mate[rep[n]] # -1 /\ mate[rep[n]] < rep[n]
      BY <1>3 DEF Merged
    <2>2. QED
      BY <2>1 DEF NewRep, Into
  <1>5. \A n \in Node \ Local(p) : rep'[n] = rep[n] /\ Into(p, n) = n
    BY <1>1 DEF Into, Merged
  <1>6. ASSUME NEW n \in Node
        PROVE  Into(p, n) \in Node /\ (Into(p, n) \in Local(p) <=> n \in Local(p))
    <2>1. CASE n \in Merged(p)
      <3>1. mate[n] # -1 /\ n \in Local(p) /\ Into(p, n) = mate[n]
        BY <2>1 DEF Merged, Into
      <3>2. mate[n] \in Node /\ fine.owner[mate[n]] = fine.owner[n]
        BY <1>1, <3>1 DEF MateInv
      <3>3. QED
        BY <3>1, <3>2 DEF Local
    <2>2. CASE n \notin Merged(p)
      BY <2>2 DEF Into
    <2>3. QED
      BY <2>1, <2>2
  <1>7. ASSUME NEW n \in Node PROVE View(p)'[n] = Into(p, View(p)[n])
    <2>1. View(p)'[n] = IF n \in Local(p) THEN rep'[n] ELSE n
      BY <1>2 DEF View
    <2>2. View(p)[n] = IF n \in Local(p) THEN rep[n] ELSE n
      BY DEF View
    <2>3. CASE n \in Local(p)
      BY <1>4, <2>1, <2>2, <2>3
    <2>4. CASE n \notin Local(p)
      BY <1>5, <2>1, <2>2, <2>4
    <2>5. QED
      BY <2>3, <2>4
  <1>8. QED
    BY <1>2, <1>3, <1>4, <1>5, <1>6, <1>7

\* The rows that a process contracts are those of the graph contracted once more.
LEMMA RowsContracted ==
  ASSUME TypeInv, RepInv, MateInv, RowsInv, NEW p \in PE, Contract(p),
         NEW n \in Local(p), NEW t \in Node
  PROVE  /\ Rewired(p, n)[t] = CutBetween(fine.row, Fibre(View(p)', n), Fibre(View(p)', t))
         /\ Rewired(p, n)[t] \in Nat
  <1> DEFINE A == {i \in Local(p) : Into(p, i) = n}
             B == {j \in Node : Into(p, j) = t}
             V == View(p)
             W == View(p)'
  <1>1. /\ fine \in Instances /\ row \in [Node -> [Node -> Nat]] /\ n \in Node
        /\ rep \in [Node -> preserved] /\ preserved \in SUBSET Node
    BY DEF TypeInv, Local
  <1>2. /\ \A i \in Node : W[i] = Into(p, V[i])
        /\ \A i \in Node : Into(p, i) \in Local(p) <=> i \in Local(p)
    BY ViewContracted
  <1>3. DOMAIN V = Node /\ DOMAIN W = Node /\ \A i \in Node : V[i] \in Node
    <2>1. W = [i \in Node |-> W[i]]
      BY DEF View
    <2>2. QED
      BY <1>1, <2>1 DEF View
  <1>4. A \in SUBSET Node /\ B \in SUBSET Node /\ A \in SUBSET Local(p)
    BY DEF Local
  <1>5. Rewired(p, n)[t] = CutBetween(row, A, B)
    BY <1>1, RewiredIsCut
  <1>6. \A c \in A, d \in B : row[c][d] = CutBetween(fine.row, Fibre(V, c), Fibre(V, d))
    BY <1>4 DEF RowsInv
  <1>7. Over(V, A) = Fibre(W, n) /\ Over(V, B) = Fibre(W, t)
    <2> HIDE DEF V, W
    <2>1. ASSUME NEW i \in Node PROVE (V[i] \in A <=> W[i] = n) /\ (V[i] \in B <=> W[i] = t)
      <3>1. V[i] \in Node /\ W[i] = Into(p, V[i]) /\ (W[i] \in Local(p) <=> V[i] \in Local(p))
        BY <1>2, <1>3
      <3>2. QED
        BY <3>1
    <2> HIDE DEF A, B
    <2>2. QED
      BY <1>3, <2>1 DEF Over, Fibre
  <1>8. IsFiniteSet(A) /\ IsFiniteSet(B) /\ IsFiniteSet(DOMAIN V)
    BY <1>1, <1>3, <1>4, Basics
  <1>9. \A i, j \in DOMAIN V : fine.row[i][j] \in Nat
    BY <1>1, <1>3, Basics
  <1> HIDE DEF A, B, V, W
  <1>10. CutBetween(row, A, B) = CutBetween(fine.row, Over(V, A), Over(V, B))
    <2>1. PICK w : w = fine.row
      OBVIOUS
    <2>2. PICK v : v = row
      OBVIOUS
    <2>3. PICK map : map = V
      OBVIOUS
    <2>4. PICK a : a = A
      OBVIOUS
    <2>5. PICK b : b = B
      OBVIOUS
    <2>6. \A i, j \in DOMAIN map : w[i][j] \in Nat
      BY <1>9, <2>1, <2>3
    <2>7. \A c \in a, d \in b : v[c][d] = CutBetween(w, Fibre(map, c), Fibre(map, d))
      BY <1>6, <2>1, <2>2, <2>3, <2>4, <2>5, Zenon
    <2>8. IsFiniteSet(DOMAIN map) /\ IsFiniteSet(a) /\ IsFiniteSet(b)
      BY <1>8, <2>3, <2>4, <2>5
    <2>9. CutBetween(v, a, b) = CutBetween(w, Over(map, a), Over(map, b))
      BY ONLY <2>6, <2>7, <2>8, CutFibres
    <2>10. QED
      BY <2>1, <2>2, <2>3, <2>4, <2>5, <2>9, Zenon
  <1>11. CutBetween(row, A, B) \in Nat
    <2>1. \A i \in A, j \in B : row[i][j] \in Nat
      BY <1>1, <1>4
    <2>2. QED
      BY ONLY <1>8, <2>1, CutPositive
  <1>12. QED
    BY <1>5, <1>7, <1>10, <1>11 DEF V, W

\* The weights follow the nodes.
LEMMA WeightsContracted ==
  ASSUME TypeInv, RepInv, MateInv, WeightsInv, NEW p \in PE, Contract(p)
  PROVE  WeightsInv'
  <1>1. /\ fine \in Instances /\ fine' = fine /\ preserved \in SUBSET Node
        /\ rep \in [Node -> preserved] /\ rep' = [n \in Node |-> rep'[n]]
        /\ preserved' = preserved \ Merged(p)
        /\ weight' = [n \in Node |->
                        IF n \in Local(p) /\ mate[n] \in Merged(p)
                        THEN weight[n] + weight[mate[n]] ELSE weight[n]]
    BY DEF TypeInv, Contract
  <1>2. /\ \A n \in Local(p) : rep'[n] = Into(p, rep[n]) /\ rep[n] \in Local(p)
        /\ \A n \in Node \ Local(p) : rep'[n] = rep[n]
    BY ViewContracted
  <1>3. \A n \in Node : rep[n] \in Local(p) <=> n \in Local(p)
    BY <1>1 DEF RepInv, Local
  <1>4. \A n \in Merged(p) : /\ n \in preserved /\ n \in Local(p) /\ mate[n] # -1 /\ mate[n] < n
                             /\ mate[n] \in Node /\ mate[mate[n]] = n /\ mate[n] \in Local(p)
    BY <1>1 DEF Merged, MateInv, Local
  <1>5. \A S \in SUBSET Node : IsFiniteSet(S) /\ \A i \in S : fine.weight[i] \in Int
    BY <1>1, Basics
  <1>6. ASSUME NEW n \in preserved, n \notin Merged(p)
        PROVE  weight'[n] = WeightOf(fine.weight, Fibre(rep', n))
    <2>1. weight[n] = WeightOf(fine.weight, Fibre(rep, n)) /\ n \in Node
      BY <1>1 DEF WeightsInv
    <2>2. CASE n \in Local(p) /\ mate[n] \in Merged(p)
      <3> DEFINE m == mate[n]
      <3>1. weight'[n] = weight[n] + weight[m] /\ m \in preserved
        BY <1>1, <1>4, <2>1, <2>2
      <3>2. weight[m] = WeightOf(fine.weight, Fibre(rep, m))
        BY <3>1 DEF WeightsInv
      <3>3. m # n
        BY <1>6, <2>2
      <3>4. mate[m] = n
        <4>1. m # -1
          BY <1>1, <1>4, <2>2 DEF Node
        <4>2. QED
          BY <2>1, <4>1 DEF MateInv
      <3>5. ASSUME NEW i \in Node PROVE rep'[i] = n <=> (rep[i] = n \/ rep[i] = m)
        <4>1. CASE i \in Local(p)
          <5>1. rep'[i] = Into(p, rep[i]) /\ rep[i] \in Node
            BY <1>1, <1>2, <4>1
          <5>2. CASE rep[i] \in Merged(p)
            <6>1. rep'[i] = mate[rep[i]] /\ mate[mate[rep[i]]] = rep[i]
              BY <1>4, <5>1, <5>2 DEF Into
            <6>2. QED
              BY <1>6, <3>4, <5>2, <6>1
          <5>3. CASE rep[i] \notin Merged(p)
            BY <2>2, <5>1, <5>3 DEF Into
          <5>4. QED
            BY <5>2, <5>3
        <4>2. CASE i \notin Local(p)
          BY <1>2, <1>3, <1>4, <2>2, <4>2
        <4>3. QED
          BY <4>1, <4>2
      <3>6. Fibre(rep', n) = Fibre(rep, n) \cup Fibre(rep, m)
        <4> HIDE DEF m
        <4>1. DOMAIN rep = Node /\ DOMAIN rep' = Node
          BY <1>1
        <4>2. QED
          BY <3>5, <4>1 DEF Fibre
      <3>7. /\ Fibre(rep, n) \cap Fibre(rep, m) = {}
            /\ Fibre(rep, n) \in SUBSET Node /\ Fibre(rep, m) \in SUBSET Node
        BY <1>1, <3>3 DEF Fibre
      <3>8. WeightOf(fine.weight, Fibre(rep, n) \cup Fibre(rep, m))
              = WeightOf(fine.weight, Fibre(rep, n)) + WeightOf(fine.weight, Fibre(rep, m))
        <4>1. /\ IsFiniteSet(Fibre(rep, n)) /\ IsFiniteSet(Fibre(rep, m))
              /\ \A i \in Fibre(rep, n) \cup Fibre(rep, m) : fine.weight[i] \in Int
          BY <1>5, <3>7
        <4>2. QED
          BY ONLY <3>7, <4>1, WeightUnion
      <3>9. QED
        BY <2>1, <3>1, <3>2, <3>6, <3>8
    <2>3. CASE ~ (n \in Local(p) /\ mate[n] \in Merged(p))
      <3>1. weight'[n] = weight[n]
        BY <1>1, <2>1, <2>3
      <3>2. ASSUME NEW i \in Node PROVE rep'[i] = n <=> rep[i] = n
        <4>1. CASE i \in Local(p)
          <5>1. rep'[i] = Into(p, rep[i]) /\ rep[i] \in Node
            BY <1>1, <1>2, <4>1
          <5>2. CASE rep[i] \in Merged(p)
            <6>1. /\ rep'[i] = mate[rep[i]] /\ mate[mate[rep[i]]] = rep[i]
                  /\ mate[rep[i]] \in Local(p)
              BY <1>4, <5>1, <5>2 DEF Into
            <6>2. QED
              BY <1>6, <2>3, <5>2, <6>1
          <5>3. CASE rep[i] \notin Merged(p)
            BY <5>1, <5>3 DEF Into
          <5>4. QED
            BY <5>2, <5>3
        <4>2. CASE i \notin Local(p)
          BY <1>2, <4>2
        <4>3. QED
          BY <4>1, <4>2
      <3>3. Fibre(rep', n) = Fibre(rep, n)
        BY <1>1, <3>2 DEF Fibre
      <3>4. QED
        BY <2>1, <3>1, <3>3
    <2>4. QED
      BY <2>2, <2>3
  <1>7. QED
    BY <1>1, <1>6 DEF WeightsInv

\* The contraction of one process.
LEMMA ContractKeeps ==
  ASSUME ContractionInv, NEW p \in PE, Contract(p)
  PROVE  ContractionInv'
  <1>1. /\ pc[p] = "match"
        /\ preserved' = preserved \ Merged(p)
        /\ rep' = [n \in Node |-> IF n \in Local(p) THEN NewRep(n) ELSE rep[n]]
        /\ weight' = [n \in Node |->
                        IF n \in Local(p) /\ mate[n] \in Merged(p)
                        THEN weight[n] + weight[mate[n]] ELSE weight[n]]
        /\ row' = [n \in Node |-> IF n \in Local(p) THEN Rewired(p, n) ELSE row[n]]
        /\ mate' = [n \in Node |-> IF n \in Local(p) THEN -1 ELSE mate[n]]
        /\ cursor' = [cursor EXCEPT ![p] = 0]
        /\ \E s \in {"number", "match"} : pc' = [pc EXCEPT ![p] = s]
        /\ UNCHANGED <<fine, fineToCoarse, coarseRow, coarseWeight>>
    BY DEF Contract
  <1>2. TypeInv /\ RepInv /\ MateInv /\ RowsInv /\ WeightsInv /\ PassedInv /\ CoarseInv
    BY DEF ContractionInv
  <1>3. /\ \A n \in Local(p) : rep'[n] = Into(p, rep[n]) /\ rep[n] \in Local(p)
        /\ \A n \in Node \ Local(p) : rep'[n] = rep[n]
        /\ \A n \in Node : Into(p, n) \in Node /\ (Into(p, n) \in Local(p) <=> n \in Local(p))
    BY <1>2, ViewContracted
  <1>4. /\ fine \in Instances /\ row \in [Node -> [Node -> Nat]]
        /\ weight \in [Node -> Nat \ {0}] /\ preserved \in SUBSET Node
        /\ rep \in [Node -> preserved] /\ cursor \in [PE -> Nat]
        /\ mate \in [Node -> Node \cup {-1}]
        /\ pc \in [PE -> {"match", "number", "build", "weights", "done"}]
    BY <1>2 DEF TypeInv
  <1>5. \A n \in Node : n \in Nat /\ n # -1
    BY DEF Node
  <1>6. \A n \in Merged(p) : /\ n \in preserved /\ n \in Local(p) /\ mate[n] # -1 /\ mate[n] < n
                             /\ mate[n] \in Node /\ mate[mate[n]] = n /\ mate[n] \in preserved
    BY <1>2, <1>4 DEF Merged, MateInv
  <1>7. \A q \in PE : q # p => \A n \in Local(q) : n \in Node /\ n \notin Local(p)
    BY DEF Local
  <1>8. \A n \in Node : n \in preserved' => n \notin Merged(p) /\ n \in preserved
    BY <1>1
  <1>9. \A n \in preserved : Into(p, n) \in preserved'
    <2> SUFFICES ASSUME NEW n \in preserved PROVE Into(p, n) \in preserved \ Merged(p)
      BY <1>1
    <2>1. CASE n \in Merged(p)
      <3>1. Into(p, n) = mate[n]
        BY <2>1 DEF Into
      <3>2. mate[n] \notin Merged(p)
        <4>1. CASE mate[n] \in Merged(p)
          <5>1. n < mate[n] /\ mate[n] < n /\ mate[n] \in Nat /\ n \in Nat
            BY <1>4, <1>5, <1>6, <2>1, <4>1
          <5>2. QED
            BY <5>1
        <4>2. QED
          BY <4>1
      <3>3. QED
        BY <1>6, <2>1, <3>1, <3>2
    <2>2. CASE n \notin Merged(p)
      BY <2>2 DEF Into
    <2>3. QED
      BY <2>1, <2>2
  <1>10. TypeInv'
    <2>1. row' \in [Node -> [Node -> Nat]]
      <3>1. ASSUME NEW n \in Node PROVE row'[n] \in [Node -> Nat]
        <4>1. CASE n \in Local(p)
          <5>1. \A t \in Node : Rewired(p, n)[t] \in Nat
            BY <1>2, <4>1, RowsContracted
          <5>2. Rewired(p, n) = [t \in Node |-> Rewired(p, n)[t]]
            BY DEF Rewired
          <5>3. row'[n] = Rewired(p, n)
            BY <1>1, <4>1
          <5>4. QED
            BY <5>1, <5>2, <5>3
        <4>2. CASE n \notin Local(p)
          BY <1>1, <1>4, <4>2
        <4>3. QED
          BY <4>1, <4>2
      <3>2. QED
        BY <1>1, <3>1
    <2>2. weight' \in [Node -> Nat \ {0}]
      <3>1. ASSUME NEW n \in Node PROVE weight'[n] \in Nat \ {0}
        <4>1. CASE n \in Local(p) /\ mate[n] \in Merged(p)
          <5>1. weight'[n] = weight[n] + weight[mate[n]] /\ mate[n] \in Node
            BY <1>1, <1>4, <1>6, <4>1
          <5>2. weight[n] \in Nat \ {0} /\ weight[mate[n]] \in Nat \ {0}
            BY <1>4, <5>1
          <5>3. QED
            BY <5>1, <5>2
        <4>2. CASE ~ (n \in Local(p) /\ mate[n] \in Merged(p))
          BY <1>1, <1>4, <4>2
        <4>3. QED
          BY <4>1, <4>2
      <3>2. QED
        BY <1>1, <3>1
    <2>3. rep' \in [Node -> preserved']
      <3>1. ASSUME NEW n \in Node PROVE rep'[n] \in preserved'
        <4>1. CASE n \in Local(p)
          BY <1>3, <1>4, <1>9, <4>1
        <4>2. CASE n \notin Local(p)
          <5>1. rep'[n] = rep[n] /\ rep[n] \in preserved
            BY <1>3, <1>4, <4>2
          <5>2. rep[n] \notin Local(p)
            BY <1>2, <4>2 DEF RepInv, Local
          <5>3. QED
            BY <1>1, <1>6, <5>1, <5>2
        <4>3. QED
          BY <4>1, <4>2
      <3>2. QED
        BY <1>1, <3>1
    <2>4. /\ cursor' \in [PE -> Nat] /\ mate' \in [Node -> Node \cup {-1}]
          /\ preserved' \in SUBSET Node
          /\ pc' \in [PE -> {"match", "number", "build", "weights", "done"}]
      BY <1>1, <1>4
    <2>5. QED
      BY <1>1, <1>2, <2>1, <2>2, <2>3, <2>4 DEF TypeInv
  <1>11. RepInv'
    <2>1. ASSUME NEW n \in Node PROVE fine.owner[rep'[n]] = fine.owner[n]
      <3>1. CASE n \in Local(p)
        <4>1. Into(p, rep[n]) \in Local(p)
          BY <1>3, <1>4, <3>1
        <4>2. QED
          BY <1>3, <3>1, <4>1 DEF Local
      <3>2. CASE n \notin Local(p)
        BY <1>2, <1>3, <3>2 DEF RepInv
      <3>3. QED
        BY <3>1, <3>2
    <2>2. ASSUME NEW n \in preserved' PROVE rep'[n] = n
      <3>1. n \in Node /\ n \in preserved /\ n \notin Merged(p) /\ rep[n] = n
        BY <1>1, <1>2, <1>4 DEF RepInv
      <3>2. CASE n \in Local(p)
        BY <1>3, <3>1, <3>2 DEF Into
      <3>3. CASE n \notin Local(p)
        BY <1>3, <3>1, <3>3
      <3>4. QED
        BY <3>2, <3>3
    <2>3. QED
      BY <1>1, <2>1, <2>2 DEF RepInv
  <1>12. MateInv'
    <2> SUFFICES ASSUME NEW n \in Node, mate'[n] # -1
                 PROVE  /\ n \in preserved' /\ mate'[n] \in preserved' /\ mate'[n] # n
                        /\ mate'[mate'[n]] = n /\ fine.owner[mate'[n]] = fine.owner[n]
      BY <1>1 DEF MateInv
    <2>1. n \notin Local(p) /\ mate'[n] = mate[n] /\ mate[n] # -1
      BY <1>1
    <2>2. /\ n \in preserved /\ mate[n] \in preserved /\ mate[n] # n
          /\ mate[mate[n]] = n /\ fine.owner[mate[n]] = fine.owner[n] /\ mate[n] \in Node
      BY <1>2, <1>4, <2>1 DEF MateInv
    <2>3. mate[n] \notin Local(p)
      BY <2>1, <2>2 DEF Local
    <2>4. mate'[mate[n]] = n
      BY <1>1, <2>2, <2>3
    <2>5. n \in preserved' /\ mate[n] \in preserved'
      BY <1>1, <1>6, <2>1, <2>2, <2>3
    <2>6. QED
      BY <2>1, <2>2, <2>4, <2>5
  <1>13. RowsInv'
    <2> SUFFICES ASSUME NEW q \in PE, NEW n \in Local(q), NEW t \in Node
                 PROVE  row'[n][t]
                          = CutBetween(fine.row, Fibre(View(q)', n), Fibre(View(q)', t))
      <3>1. \A q \in PE : Local(q)' = Local(q)
        BY <1>1 DEF Local
      <3>2. fine' = fine
        BY <1>1
      <3>3. QED
        BY <3>1, <3>2 DEF RowsInv
    <2>1. n \in Node
      BY DEF Local
    <2>2. CASE q = p
      <3>1. Rewired(p, n)[t] = CutBetween(fine.row, Fibre(View(p)', n), Fibre(View(p)', t))
        BY <1>2, <2>2, RowsContracted
      <3>2. row'[n] = Rewired(p, n)
        BY <1>1, <2>1, <2>2
      <3>3. QED
        BY <2>2, <3>1, <3>2
    <2>3. CASE q # p
      <3>1. row'[n] = row[n]
        BY <1>1, <1>7, <2>1, <2>3
      <3>2. View(q)' = View(q)
        <4>1. \A i \in Local(q) : rep'[i] = rep[i]
          BY <1>3, <1>7, <2>3
        <4>2. Local(q)' = Local(q)
          BY <1>1 DEF Local
        <4>3. QED
          BY <4>1, <4>2 DEF View
      <3>3. row[n][t] = CutBetween(fine.row, Fibre(View(q), n), Fibre(View(q), t))
        BY <1>2 DEF RowsInv
      <3>4. QED
        BY <3>1, <3>2, <3>3
    <2>4. QED
      BY <2>2, <2>3
  <1>14. WeightsInv'
    BY <1>2, WeightsContracted
  <1>15. PassedInv'
    <2> SUFFICES ASSUME NEW q \in PE, pc'[q] = "match", NEW i \in Local(q), NEW j \in Local(q),
                        i # j, i < cursor'[q], j < cursor'[q], mate'[i] = -1, mate'[j] = -1
                 PROVE  row'[i][j] = 0
      BY <1>1 DEF PassedInv, Local
    <2>1. i \in Node /\ j \in Node
      BY DEF Local
    <2>2. CASE q = p
      <3>1. cursor'[q] = 0
        BY <1>1, <1>4, <2>2
      <3>2. QED
        BY <1>5, <2>1, <3>1
    <2>3. CASE q # p
      <3>1. cursor'[q] = cursor[q] /\ pc'[q] = pc[q]
        BY <1>1, <1>4, <2>3
      <3>2. mate'[i] = mate[i] /\ mate'[j] = mate[j] /\ row'[i] = row[i]
        BY <1>1, <1>7, <2>1, <2>3
      <3>3. QED
        BY <1>2, <3>1, <3>2 DEF PassedInv
    <2>4. QED
      BY <2>2, <2>3
  <1>16. CoarseInv'
    <2>1. ~ Numbered /\ Blank
      BY <1>1, <1>2, <1>4, NotNumbered
    <2>2. ~ Numbered' /\ Blank'
      BY <1>1, <1>4, <2>1 DEF Numbered, Blank
    <2>3. QED
      BY <2>2 DEF CoarseInv
  <1>17. QED
    BY <1>10, <1>11, <1>12, <1>13, <1>14, <1>15, <1>16 DEF ContractionInv

(***************************************************************************)
(* The numbers of the coarse nodes, and the coarse graph.                  *)
(***************************************************************************)

\* The preserved nodes up to n, in the order of the prefix sum.
Before(n) ==
  {m \in preserved : fine.owner[m] < fine.owner[n]}
    \cup {m \in preserved \cap Local(fine.owner[n]) : m <= n}

\* The prefix sum counts them.
LEMMA PrefixSumCounts ==
  ASSUME fine \in Instances, preserved \in SUBSET Node, NEW n \in preserved
  PROVE  /\ PrefixSum(n) = Cardinality(Before(n)) - 1 /\ IsFiniteSet(Before(n))
         /\ n \in Before(n) /\ Before(n) \in SUBSET Node
         /\ Cardinality(Before(n)) \in Nat /\ PrefixSum(n) \in Node
  <1> DEFINE S == {m \in preserved : fine.owner[m] < fine.owner[n]}
             T == {m \in preserved \cap Local(fine.owner[n]) : m <= n}
  <1>1. S \in SUBSET Node /\ T \in SUBSET Node /\ n \in Node /\ Before(n) = S \cup T
    BY DEF Before
  <1>2. fine.owner \in [Node -> PE] /\ N \in Nat
    BY Basics
  <1>3. S \cap T = {}
    <2>1. fine.owner[n] \in Int
      BY <1>1, <1>2 DEF PE
    <2>2. QED
      BY <2>1 DEF Local
  <1>4. n \in T
    BY <1>1 DEF Local, Node
  <1>5. IsFiniteSet(S) /\ IsFiniteSet(T) /\ IsFiniteSet(S \cup T)
    BY <1>1, Basics
  <1>6. PrefixSum(n) = Cardinality(S) + Cardinality(T) - 1
    BY DEF PrefixSum, Offset
  <1>7. S \cup T \in SUBSET Node /\ n \in S \cup T
    BY <1>1, <1>4
  <1> HIDE DEF S, T
  <1>8. Cardinality(S \cup T) = Cardinality(S) + Cardinality(T)
    <2>1. Cardinality(S \cup T) = Cardinality(S) + Cardinality(T) - Cardinality(S \cap T)
      BY <1>5, FS_Union
    <2>2. Cardinality(S \cap T) = 0
      BY <1>3, FS_EmptySet
    <2>3. Cardinality(S) \in Nat /\ Cardinality(T) \in Nat
      BY <1>5, FS_CardinalityType
    <2>4. QED
      BY <2>1, <2>2, <2>3
  <1>9. PrefixSum(n) = Cardinality(S \cup T) - 1
    <2>1. PICK a, b : a = Cardinality(S) /\ b = Cardinality(T)
      OBVIOUS
    <2>2. a \in Nat /\ b \in Nat /\ PrefixSum(n) = a + (b - 1)
      BY <1>5, <1>6, <2>1, FS_CardinalityType
    <2>3. a + (b - 1) = (a + b) - 1
      BY <2>2
    <2>4. PrefixSum(n) = (Cardinality(S) + Cardinality(T)) - 1
      BY <2>1, <2>2, <2>3, Zenon
    <2>5. QED
      BY <1>8, <2>4, Zenon
  <1>10. Cardinality(S \cup T) <= N
    <2>1. IsFiniteSet(Node) /\ Cardinality(Node) = N
      BY <1>2, FS_Interval DEF Node
    <2>2. QED
      BY <1>7, <2>1, FS_Subset
  <1>11. Cardinality(S \cup T) \in Nat \ {0}
    BY <1>5, <1>7, FS_CardinalityType, FS_EmptySet
  <1>12. PrefixSum(n) \in Node
    <2>1. PICK c : c = Cardinality(S \cup T)
      OBVIOUS
    <2>2. c \in Nat \ {0} /\ c <= N
      BY <1>10, <1>11, <2>1
    <2>3. PrefixSum(n) = c - 1
      BY <1>9, <2>1, Zenon
    <2>4. QED
      BY <1>2, <2>2, <2>3 DEF Node
  <1>13. PrefixSum(n) = Cardinality(Before(n)) - 1
    BY <1>1, <1>9, Zenon
  <1>14. IsFiniteSet(Before(n)) /\ n \in Before(n) /\ Before(n) \in SUBSET Node
    BY <1>1, <1>5, <1>7
  <1>15. Cardinality(Before(n)) \in Nat
    BY <1>14, FS_CardinalityType
  <1>16. QED
    BY <1>12, <1>13, <1>14, <1>15

\* No two preserved nodes get the same number.
LEMMA PrefixSumInjective ==
  ASSUME fine \in Instances, preserved \in SUBSET Node, NEW n \in preserved, NEW m \in preserved,
         PrefixSum(n) = PrefixSum(m)
  PROVE  n = m
  <1>1. /\ n \in Int /\ m \in Int
        /\ \A k \in Node : k \in Int /\ fine.owner[k] \in Int
    BY Basics DEF Node, PE
  <1>2. ASSUME NEW i \in preserved, NEW j \in preserved,
               fine.owner[i] < fine.owner[j] \/ (fine.owner[i] = fine.owner[j] /\ i < j)
        PROVE  PrefixSum(i) # PrefixSum(j)
    <2>1. Before(i) \subseteq Before(j)
      <3> SUFFICES ASSUME NEW k \in Before(i) PROVE k \in Before(j)
        OBVIOUS
      <3>1. /\ k \in preserved /\ k \in Int /\ fine.owner[k] \in Int
            /\ i \in Int /\ fine.owner[i] \in Int /\ j \in Int /\ fine.owner[j] \in Int
        BY <1>1 DEF Before
      <3>2. \/ fine.owner[k] < fine.owner[i]
            \/ fine.owner[k] = fine.owner[i] /\ k <= i
        BY DEF Before, Local
      <3>3. \/ fine.owner[k] < fine.owner[j]
            \/ fine.owner[k] = fine.owner[j] /\ k <= j
        BY <1>2, <3>1, <3>2
      <3>4. k \in Node
        BY <3>1
      <3>5. QED
        BY <3>1, <3>3, <3>4 DEF Before, Local
    <2>2. j \in Before(j) /\ j \notin Before(i)
      <3>1. /\ i \in Int /\ fine.owner[i] \in Int /\ j \in Int /\ fine.owner[j] \in Int
        BY <1>1
      <3>2. ~ (fine.owner[j] < fine.owner[i]) /\ ~ (fine.owner[j] = fine.owner[i] /\ j <= i)
        BY <1>2, <3>1
      <3>3. QED
        BY <3>2, PrefixSumCounts DEF Before, Local
    <2>3. /\ PrefixSum(i) = Cardinality(Before(i)) - 1 /\ PrefixSum(j) = Cardinality(Before(j)) - 1
          /\ IsFiniteSet(Before(j))
          /\ Cardinality(Before(i)) \in Nat /\ Cardinality(Before(j)) \in Nat
      BY PrefixSumCounts
    <2>4. Cardinality(Before(i)) # Cardinality(Before(j))
      BY <2>1, <2>2, <2>3, FS_Subset
    <2>5. QED
      BY <2>3, <2>4
  <1>3. \/ fine.owner[n] < fine.owner[m] \/ fine.owner[m] < fine.owner[n]
        \/ fine.owner[n] = fine.owner[m] /\ (n < m \/ m < n \/ n = m)
    BY <1>1
  <1>4. QED
    BY <1>2, <1>3

\* Classes of nodes with one number are the nodes with one representative.
LEMMA NumberClasses ==
  ASSUME TypeInv, RepInv, fineToCoarse = [n \in Node |-> NumberOf(n)]
  PROVE  /\ fineToCoarse \in [Node -> Node]
         /\ \A n \in Node : rep[n] \in preserved /\ fineToCoarse[rep[n]] = fineToCoarse[n]
         /\ \A n, m \in preserved : fineToCoarse[n] = fineToCoarse[m] => n = m
         /\ \A n \in preserved : Fibre(fineToCoarse, fineToCoarse[n]) = Fibre(rep, n)
  <1>1. /\ fine \in Instances /\ preserved \in SUBSET Node /\ rep \in [Node -> preserved]
        /\ \A n \in preserved : rep[n] = n
    BY DEF TypeInv, RepInv
  <1>2. \A n \in Node : fineToCoarse[n] = PrefixSum(rep[n])
    BY DEF NumberOf
  <1>3. \A n \in preserved : PrefixSum(n) \in Node
    BY <1>1, PrefixSumCounts
  <1>4. fineToCoarse \in [Node -> Node]
    BY <1>1, <1>2, <1>3
  <1>5. \A n \in Node : rep[n] \in preserved /\ fineToCoarse[rep[n]] = fineToCoarse[n]
    BY <1>1, <1>2
  <1>6. ASSUME NEW n \in preserved, NEW m \in preserved, fineToCoarse[n] = fineToCoarse[m]
        PROVE  n = m
    <2>1. PrefixSum(n) = PrefixSum(m)
      BY <1>1, <1>2, <1>6
    <2>2. QED
      BY <1>1, <2>1, PrefixSumInjective
  <1>7. ASSUME NEW n \in preserved PROVE Fibre(fineToCoarse, fineToCoarse[n]) = Fibre(rep, n)
    <2>1. \A m \in Node : fineToCoarse[m] = fineToCoarse[n] <=> rep[m] = n
      BY <1>1, <1>5, <1>6
    <2>2. DOMAIN fineToCoarse = Node /\ DOMAIN rep = Node
      BY <1>1
    <2>3. QED
      BY <2>1, <2>2 DEF Fibre
  <1>8. QED
    BY <1>4, <1>5, <1>6, <1>7

\* The row of a preserved node, summed over the classes, is a row of the contraction.
LEMMA RowOfClasses ==
  ASSUME TypeInv, RepInv, RowsInv, fineToCoarse = [n \in Node |-> NumberOf(n)],
         NEW p \in PE, NEW n \in preserved, n \in Local(p), NEW d \in Node
  PROVE  /\ WeightOf(row[n], Fibre(fineToCoarse, d)) =
              CutBetween(fine.row, Fibre(fineToCoarse, fineToCoarse[n]), Fibre(fineToCoarse, d))
         /\ WeightOf(row[n], Fibre(fineToCoarse, d)) \in Int
  <1> DEFINE B == Fibre(fineToCoarse, d)
             V == View(p)
  <1>1. /\ fine \in Instances /\ row \in [Node -> [Node -> Nat]] /\ n \in Node
        /\ rep \in [Node -> preserved] /\ preserved \in SUBSET Node
        /\ \A m \in Node : fine.owner[rep[m]] = fine.owner[m]
    BY DEF TypeInv, RepInv
  <1>2. /\ fineToCoarse \in [Node -> Node]
        /\ \A m \in Node : fineToCoarse[rep[m]] = fineToCoarse[m]
        /\ Fibre(fineToCoarse, fineToCoarse[n]) = Fibre(rep, n)
    BY NumberClasses
  <1>3. DOMAIN V = Node /\ \A m \in Node : V[m] = IF m \in Local(p) THEN rep[m] ELSE m
    BY DEF View
  <1>4. B \in SUBSET Node
    BY <1>2 DEF Fibre
  <1>5. Over(V, {n}) = Fibre(rep, n)
    <2>1. \A m \in Node : V[m] = n <=> rep[m] = n
      BY <1>1, <1>3 DEF Local
    <2>2. DOMAIN rep = Node
      BY <1>1
    <2> HIDE DEF V
    <2>3. QED
      BY <1>3, <2>1, <2>2 DEF Over, Fibre
  <1>6. Over(V, B) = B
    <2>1. \A m \in Node : V[m] \in Node /\ fineToCoarse[V[m]] = fineToCoarse[m]
      BY <1>1, <1>2, <1>3
    <2>2. DOMAIN fineToCoarse = Node
      BY <1>2
    <2> HIDE DEF V
    <2>3. QED
      BY <1>3, <2>1, <2>2 DEF Over, Fibre
  <1>7. \A m \in B : row[n][m] = CutBetween(fine.row, Fibre(V, n), Fibre(V, m))
    BY <1>4 DEF RowsInv
  <1>8. IsFiniteSet(B) /\ IsFiniteSet({n}) /\ IsFiniteSet(DOMAIN V)
    BY <1>1, <1>3, <1>4, Basics, FS_Singleton
  <1>9. \A i, j \in DOMAIN V : fine.row[i][j] \in Nat
    BY <1>1, <1>3, Basics
  <1> HIDE DEF B, V
  <1>10. CutBetween(row, {n}, B) = CutBetween(fine.row, Over(V, {n}), Over(V, B))
    <2>1. PICK w : w = fine.row
      OBVIOUS
    <2>2. PICK v : v = row
      OBVIOUS
    <2>3. PICK map : map = V
      OBVIOUS
    <2>4. PICK a : a = {n}
      OBVIOUS
    <2>5. PICK b : b = B
      OBVIOUS
    <2>6. \A i, j \in DOMAIN map : w[i][j] \in Nat
      BY <1>9, <2>1, <2>3
    <2>7. \A c \in a, e \in b : v[c][e] = CutBetween(w, Fibre(map, c), Fibre(map, e))
      <3>1. \A c \in a : c = n
        BY <2>4
      <3>2. QED
        BY <1>7, <2>1, <2>2, <2>3, <2>5, <3>1, Zenon
    <2>8. IsFiniteSet(DOMAIN map) /\ IsFiniteSet(a) /\ IsFiniteSet(b)
      BY <1>8, <2>3, <2>4, <2>5
    <2>9. CutBetween(v, a, b) = CutBetween(w, Over(map, a), Over(map, b))
      BY ONLY <2>6, <2>7, <2>8, CutFibres
    <2>10. QED
      BY <2>1, <2>2, <2>3, <2>4, <2>5, <2>9, Zenon
  <1>11. CutBetween(row, {n}, B) = WeightOf(row[n], B)
    <2>1. \A m \in B : row[n][m] \in Nat
      BY <1>1, <1>4
    <2>2. QED
      BY ONLY <1>8, <2>1, CutRow
  <1>12. WeightOf(row[n], B) \in Int
    <2>1. \A m \in B : row[n][m] \in Int
      BY <1>1, <1>4
    <2>2. QED
      BY ONLY <1>8, <2>1, WeightType
  <1>13. QED
    BY <1>2, <1>5, <1>6, <1>10, <1>11, <1>12, Zenon DEF B

\* From now on the processes build the coarse graph.
LEMMA NumberKeeps ==
  ASSUME ContractionInv, NumberCoarseNodes
  PROVE  ContractionInv'
  <1>1. /\ \A p \in PE : pc[p] = "number"
        /\ fineToCoarse' = [n \in Node |-> NumberOf(n)]
        /\ pc' = [p \in PE |-> "build"]
        /\ UNCHANGED <<fine, row, weight, preserved, rep, cursor, mate, iteration, coarseRow,
                       coarseWeight>>
    BY DEF NumberCoarseNodes
  <1>2. TypeInv /\ RepInv /\ MateInv /\ RowsInv /\ WeightsInv /\ CoarseInv
    BY DEF ContractionInv
  <1>3. TypeInv'
    BY <1>1, <1>2 DEF TypeInv
  <1>4. RepInv' /\ RowsInv' /\ WeightsInv'
    BY <1>1, <1>2, GraphStays DEF Contracted
  <1>5. MateInv' /\ PassedInv'
    BY <1>1, <1>2 DEF MateInv, PassedInv
  <1>6. Blank
    BY <1>1, <1>2 DEF CoarseInv, Numbered
  <1>7. Numbers'
    BY <1>1 DEF Numbers, NumberOf, PrefixSum, Offset, Local
  <1>8. BuiltInv'
    <2>1. /\ preserved \in SUBSET Node /\ fine \in Instances /\ fine' = fine
          /\ fineToCoarse' \in [Node -> Node]
      <3>1. (fineToCoarse \in [Node -> Node])'
        <4>1. TypeInv' /\ RepInv' /\ (fineToCoarse = [n \in Node |-> NumberOf(n)])'
          BY <1>3, <1>4, <1>7 DEF Numbers
        <4>2. QED
          BY <4>1, NumberClasses, PTL
      <3>2. QED
        BY <1>1, <1>2, <3>1 DEF TypeInv
    <2>2. \A n \in Node : pc'[fine.owner[n]] = "build"
      BY <1>1, <2>1, Basics
    <2>3. ASSUME NEW c \in Node
          PROVE  coarseWeight'[c] =
                   WeightOf(fine.weight, {n \in Fibre(fineToCoarse', c) :
                                            pc'[fine.owner[n]] = "done"})
      <3>1. {n \in Fibre(fineToCoarse', c) : pc'[fine.owner[n]] = "done"} = {}
        BY <2>1, <2>2 DEF Fibre
      <3>2. coarseWeight'[c] = 0
        BY <1>1, <1>6 DEF Blank
      <3>3. QED
        BY <3>1, <3>2, WeightEmpty
    <2>4. QED
      BY <1>1, <1>6, <2>1, <2>2, <2>3 DEF BuiltInv, Blank
  <1>9. Numbered'
    BY <1>2, <1>7, Basics DEF Numbers, Numbered, PE, TypeInv
  <1>10. QED
    BY <1>3, <1>4, <1>5, <1>7, <1>8, <1>9 DEF ContractionInv, CoarseInv

\* What a process knows once the numbers are given.
LEMMA AfterNumbers ==
  ASSUME ContractionInv, NEW p \in PE, pc[p] \in {"build", "weights", "done"}
  PROVE  /\ TypeInv /\ RepInv /\ MateInv /\ RowsInv /\ WeightsInv /\ Numbers /\ BuiltInv
         /\ \A q \in PE : pc[q] \in {"build", "weights", "done"}
         /\ fineToCoarse = [n \in Node |-> NumberOf(n)]
  BY DEF ContractionInv, CoarseInv, Numbered, Numbers

\* While the coarse graph is built, the contracted one stays.
LEMMA BuildingKeeps ==
  ASSUME ContractionInv, NEW p \in PE, pc[p] \in {"build", "weights", "done"},
         UNCHANGED <<fine, row, weight, preserved, rep, cursor, mate, fineToCoarse>>,
         coarseRow' \in [Node -> [Node -> Int]], coarseWeight' \in [Node -> Int],
         NEW s \in {"weights", "done"}, pc' = [pc EXCEPT ![p] = s], BuiltInv'
  PROVE  ContractionInv'
  <1>1. /\ TypeInv /\ RepInv /\ MateInv /\ RowsInv /\ WeightsInv
        /\ \A q \in PE : pc[q] \in {"build", "weights", "done"}
        /\ fineToCoarse = [n \in Node |-> NumberOf(n)]
    BY AfterNumbers
  <1>2. TypeInv'
    BY <1>1 DEF TypeInv
  <1>3. RepInv' /\ RowsInv' /\ WeightsInv'
    BY <1>1, GraphStays DEF Contracted
  <1>4. \A q \in PE : pc'[q] \in {"build", "weights", "done"}
    BY <1>1 DEF TypeInv
  <1>5. MateInv' /\ PassedInv'
    BY <1>1, <1>4 DEF MateInv, PassedInv
  <1>6. Numbers'
    BY <1>1, <1>4 DEF Numbers, NumberOf, PrefixSum, Offset, Local
  <1>7. Numbered'
    BY <1>4 DEF Numbered
  <1>8. QED
    BY <1>2, <1>3, <1>5, <1>6, <1>7 DEF ContractionInv, CoarseInv

\* A process adds the rows of its coarse nodes.
LEMMA BuildKeeps ==
  ASSUME ContractionInv, NEW p \in PE, BuildCoarseGraph(p)
  PROVE  ContractionInv'
  <1> DEFINE Own == preserved \cap Local(p)
             Row(n) == [d \in Node |-> WeightOf(row[n], {m \in Node : fineToCoarse[m] = d})]
             Chosen(c) == CHOOSE n \in Own : fineToCoarse[n] = c
  <1>1. /\ pc[p] = "build" /\ pc' = [pc EXCEPT ![p] = "weights"]
        /\ UNCHANGED <<fine, row, weight, preserved, rep, cursor, mate, fineToCoarse,
                       coarseWeight>>
    BY DEF BuildCoarseGraph
  <1>2. coarseRow' = [c \in Node |-> IF \E n \in Own : fineToCoarse[n] = c
                                     THEN Row(Chosen(c)) ELSE coarseRow[c]]
    BY Zenon DEF BuildCoarseGraph, WeightOf
  <1>3. /\ TypeInv /\ RepInv /\ RowsInv /\ BuiltInv
        /\ fineToCoarse = [n \in Node |-> NumberOf(n)]
        /\ \A q \in PE : pc[q] \in {"build", "weights", "done"}
    BY <1>1, AfterNumbers
  <1>4. /\ fineToCoarse \in [Node -> Node]
        /\ \A n, m \in preserved : fineToCoarse[n] = fineToCoarse[m] => n = m
    BY <1>3, NumberClasses
  <1>5. /\ fine \in Instances /\ fine.owner \in [Node -> PE] /\ preserved \in SUBSET Node
        /\ coarseRow \in [Node -> [Node -> Int]] /\ coarseWeight \in [Node -> Int]
        /\ pc \in [PE -> {"match", "number", "build", "weights", "done"}]
    BY <1>3, Basics DEF TypeInv
  <1>6. \A d : {m \in Node : fineToCoarse[m] = d} = Fibre(fineToCoarse, d)
    BY <1>4 DEF Fibre
  <1>7. ASSUME NEW n \in Own
        PROVE  /\ Row(n) \in [Node -> Int]
               /\ \A d \in Node : Row(n)[d] =
                    CutBetween(fine.row, Fibre(fineToCoarse, fineToCoarse[n]),
                               Fibre(fineToCoarse, d))
    <2>1. ASSUME NEW d \in Node
          PROVE  /\ Row(n)[d] \in Int
                 /\ Row(n)[d] = CutBetween(fine.row, Fibre(fineToCoarse, fineToCoarse[n]),
                                           Fibre(fineToCoarse, d))
      <3>1. Row(n)[d] = WeightOf(row[n], Fibre(fineToCoarse, d))
        BY <1>6
      <3>2. n \in preserved /\ n \in Local(p)
        OBVIOUS
      <3> HIDE DEF Row, Own
      <3>3. QED
        BY <1>3, <3>1, <3>2, RowOfClasses
    <2>2. Row(n) = [d \in Node |-> Row(n)[d]]
      OBVIOUS
    <2> HIDE DEF Row
    <2>3. QED
      BY <2>1, <2>2
  <1>8. ASSUME NEW n \in Own PROVE coarseRow'[fineToCoarse[n]] = Row(n)
    <2>1. fineToCoarse[n] \in Node
      BY <1>4, <1>5
    <2>2. Chosen(fineToCoarse[n]) \in Own
          /\ fineToCoarse[Chosen(fineToCoarse[n])] = fineToCoarse[n]
      OBVIOUS
    <2> HIDE DEF Row, Chosen
    <2>3. Chosen(fineToCoarse[n]) = n
      BY <1>4, <2>2
    <2>4. coarseRow'[fineToCoarse[n]] = Row(Chosen(fineToCoarse[n]))
      BY <1>2, <2>1
    <2>5. QED
      BY <2>3, <2>4
  <1>9. ASSUME NEW c \in Node, \A n \in Own : fineToCoarse[n] # c
        PROVE  coarseRow'[c] = coarseRow[c]
    <2> HIDE DEF Row, Chosen
    <2>1. QED
      BY <1>2, <1>9
  <1>10. coarseRow' \in [Node -> [Node -> Int]]
    <2>1. ASSUME NEW c \in Node PROVE coarseRow'[c] \in [Node -> Int]
      <3>1. CASE \E n \in Own : fineToCoarse[n] = c
        <4>1. PICK n \in Own : fineToCoarse[n] = c
          BY <3>1
        <4> HIDE DEF Row, Own
        <4>2. QED
          BY <1>7, <1>8, <4>1
      <3>2. CASE \A n \in Own : fineToCoarse[n] # c
        BY <1>5, <1>9, <3>2
      <3>3. QED
        BY <3>1, <3>2
    <2> HIDE DEF Row, Own, Chosen
    <2>2. QED
      BY <1>2, <2>1
  <1> HIDE DEF Row, Chosen
  <1>11. BuiltInv'
    <2>1. ASSUME NEW n \in preserved, pc'[fine.owner[n]] \in {"weights", "done"}, NEW d \in Node
          PROVE  coarseRow'[fineToCoarse[n]][d] =
                   CutBetween(fine.row, Fibre(fineToCoarse, fineToCoarse[n]),
                              Fibre(fineToCoarse, d))
      <3>1. n \in Node /\ fineToCoarse[n] \in Node /\ fine.owner[n] \in PE
        BY <1>4, <1>5
      <3>2. CASE fine.owner[n] = p
        <4>1. n \in Own
          BY <3>1, <3>2 DEF Local
        <4> HIDE DEF Own
        <4>2. QED
          BY <1>7, <1>8, <4>1
      <3>3. CASE fine.owner[n] # p
        <4>1. pc[fine.owner[n]] \in {"weights", "done"}
          BY <1>1, <1>5, <2>1, <3>1, <3>3
        <4>2. \A m \in Own : fineToCoarse[m] # fineToCoarse[n]
          BY <1>4, <3>3 DEF Local
        <4>3. coarseRow'[fineToCoarse[n]] = coarseRow[fineToCoarse[n]]
          BY <1>9, <3>1, <4>2
        <4>4. QED
          BY <1>3, <4>1, <4>3 DEF BuiltInv
      <3>4. QED
        BY <3>2, <3>3
    <2>2. ASSUME NEW c \in Node, \A n \in preserved : fineToCoarse[n] # c, NEW d \in Node
          PROVE  coarseRow'[c][d] = 0
      <3>1. coarseRow'[c] = coarseRow[c]
        BY <1>9, <2>2
      <3>2. QED
        BY <1>3, <2>2, <3>1 DEF BuiltInv
    <2>3. ASSUME NEW c \in Node
          PROVE  coarseWeight'[c] =
                   WeightOf(fine.weight, {n \in Fibre(fineToCoarse, c) :
                                            pc'[fine.owner[n]] = "done"})
      <3>1. \A q \in PE : pc'[q] = "done" <=> pc[q] = "done"
        BY <1>1, <1>5
      <3>2. \A n \in Fibre(fineToCoarse, c) : fine.owner[n] \in PE
        BY <1>4, <1>5 DEF Fibre
      <3>3. {n \in Fibre(fineToCoarse, c) : pc'[fine.owner[n]] = "done"}
              = {n \in Fibre(fineToCoarse, c) : pc[fine.owner[n]] = "done"}
        BY <3>1, <3>2
      <3>4. QED
        BY <1>1, <1>3, <3>3 DEF BuiltInv
    <2>4. QED
      BY <1>1, <2>1, <2>2, <2>3 DEF BuiltInv
  <1>12. coarseWeight' \in [Node -> Int]
    BY <1>1, <1>5
  <1>13. QED
    BY <1>1, <1>10, <1>11, <1>12, BuildingKeeps

\* A process adds the weights of its nodes.
LEMMA SumKeeps ==
  ASSUME ContractionInv, NEW p \in PE, SumToCoarse(p)
  PROVE  ContractionInv'
  <1> DEFINE Own(c) == {n \in Local(p) : fineToCoarse[n] = c}
             Old(c) == {n \in Fibre(fineToCoarse, c) : pc[fine.owner[n]] = "done"}
             New(c) == {n \in Fibre(fineToCoarse, c) : pc'[fine.owner[n]] = "done"}
  <1>1. /\ pc[p] = "weights" /\ pc' = [pc EXCEPT ![p] = "done"]
        /\ coarseWeight' = [c \in Node |-> coarseWeight[c] + WeightOf(fine.weight, Own(c))]
        /\ UNCHANGED <<fine, row, weight, preserved, rep, cursor, mate, fineToCoarse, coarseRow>>
    BY DEF SumToCoarse
  <1>2. /\ TypeInv /\ RepInv /\ BuiltInv
        /\ fineToCoarse = [n \in Node |-> NumberOf(n)]
        /\ \A q \in PE : pc[q] \in {"build", "weights", "done"}
    BY <1>1, AfterNumbers
  <1>3. fineToCoarse \in [Node -> Node]
    BY <1>2, NumberClasses
  <1>4. /\ fine \in Instances /\ fine.owner \in [Node -> PE] /\ preserved \in SUBSET Node
        /\ coarseRow \in [Node -> [Node -> Int]] /\ coarseWeight \in [Node -> Int]
        /\ pc \in [PE -> {"match", "number", "build", "weights", "done"}]
        /\ \A S \in SUBSET Node : IsFiniteSet(S) /\ \A n \in S : fine.weight[n] \in Int
    BY <1>2, Basics DEF TypeInv
  <1>5. ASSUME NEW c \in Node
        PROVE  coarseWeight'[c] = WeightOf(fine.weight, New(c)) /\ coarseWeight'[c] \in Int
    <2>1. New(c) = Old(c) \cup Own(c) /\ Old(c) \cap Own(c) = {}
      <3>1. \A n \in Node : /\ n \in Fibre(fineToCoarse, c) <=> fineToCoarse[n] = c
                            /\ fine.owner[n] \in PE
                            /\ n \in Local(p) <=> fine.owner[n] = p
        BY <1>3, <1>4 DEF Fibre, Local
      <3>2. \A q \in PE : pc'[q] = "done" <=> pc[q] = "done" \/ q = p
        BY <1>1, <1>4
      <3>3. Fibre(fineToCoarse, c) \in SUBSET Node /\ Local(p) \in SUBSET Node
        BY <1>3 DEF Fibre, Local
      <3>4. QED
        BY <1>1, <3>1, <3>2, <3>3
    <2>2. Old(c) \in SUBSET Node /\ Own(c) \in SUBSET Node
      BY <1>3 DEF Fibre, Local
    <2>3. coarseWeight[c] = WeightOf(fine.weight, Old(c))
      BY <1>2 DEF BuiltInv
    <2>4. coarseWeight'[c] = coarseWeight[c] + WeightOf(fine.weight, Own(c))
      BY <1>1
    <2> HIDE DEF New, Old, Own
    <2>5. /\ IsFiniteSet(Old(c)) /\ IsFiniteSet(Own(c))
          /\ \A n \in Old(c) : fine.weight[n] \in Int
          /\ \A n \in Own(c) : fine.weight[n] \in Int
      BY <1>4, <2>2
    <2>6. WeightOf(fine.weight, Own(c)) \in Int
      BY <2>5, WeightType
    <2>7. WeightOf(fine.weight, Old(c) \cup Own(c)) =
            WeightOf(fine.weight, Old(c)) + WeightOf(fine.weight, Own(c))
      <3>1. \A n \in Old(c) \cup Own(c) : fine.weight[n] \in Int
        BY <2>5
      <3>2. QED
        BY <2>1, <2>5, <3>1, WeightUnion
    <2>8. coarseWeight'[c] \in Int
      BY <1>4, <2>4, <2>6
    <2>9. coarseWeight'[c] = WeightOf(fine.weight, New(c))
      BY <2>1, <2>3, <2>4, <2>7, Zenon
    <2>10. QED
      BY <2>8, <2>9
  <1>6. coarseWeight' \in [Node -> Int]
    <2> HIDE DEF Own
    <2>1. QED
      BY <1>1, <1>5
  <1>7. BuiltInv'
    <2>1. ASSUME NEW n \in preserved, pc'[fine.owner[n]] \in {"weights", "done"}, NEW d \in Node
          PROVE  coarseRow[fineToCoarse[n]][d] =
                   CutBetween(fine.row, Fibre(fineToCoarse, fineToCoarse[n]),
                              Fibre(fineToCoarse, d))
      <3>1. pc[fine.owner[n]] \in {"weights", "done"}
        BY <1>1, <1>4, <2>1
      <3>2. QED
        BY <1>2, <3>1 DEF BuiltInv
    <2>2. ASSUME NEW c \in Node, \A n \in preserved : fineToCoarse[n] # c, NEW d \in Node
          PROVE  coarseRow[c][d] = 0
      BY <1>2, <2>2 DEF BuiltInv
    <2>3. ASSUME NEW c \in Node
          PROVE  coarseWeight'[c] =
                   WeightOf(fine.weight, {n \in Fibre(fineToCoarse, c) :
                                            pc'[fine.owner[n]] = "done"})
      BY <1>5
    <2> HIDE DEF Own, Old, New
    <2>4. UNCHANGED <<fine, preserved, fineToCoarse, coarseRow>>
      BY <1>1
    <2>5. QED
      BY <2>1, <2>2, <2>3, <2>4 DEF BuiltInv
  <1>8. coarseRow' \in [Node -> [Node -> Int]]
    BY <1>1, <1>4
  <1>9. QED
    BY <1>1, <1>6, <1>7, <1>8, BuildingKeeps

(***************************************************************************)
(* The theorems.                                                           *)
(***************************************************************************)

\* The initial states satisfy the invariant.
LEMMA InitContraction == Init => ContractionInv
  <1> SUFFICES ASSUME Init PROVE ContractionInv
    OBVIOUS
  <1>1. /\ fine \in Instances /\ row = fine.row /\ weight = fine.weight /\ preserved = Node
        /\ rep = [n \in Node |-> n] /\ cursor = [p \in PE |-> 0] /\ mate = [n \in Node |-> -1]
        /\ coarseRow = [c \in Node |-> [d \in Node |-> 0]] /\ coarseWeight = [c \in Node |-> 0]
        /\ pc = [p \in PE |-> "match"]
    BY DEF Init, Unmatched
  <1>2. TypeInv
    BY <1>1, Basics DEF TypeInv
  <1>3. RepInv /\ MateInv
    BY <1>1 DEF RepInv, MateInv
  <1>4. PassedInv
    <2>1. \A n \in Node : ~ (n < 0)
      BY DEF Node
    <2>2. QED
      BY <1>1, <2>1 DEF PassedInv, Local
  <1>5. CoarseInv
    BY <1>1 DEF CoarseInv, Numbered, Blank
  <1>6. RowsInv
    <2> SUFFICES ASSUME NEW p \in PE, NEW n \in Local(p), NEW t \in Node
                 PROVE  row[n][t] =
                          CutBetween(fine.row, Fibre(View(p), n), Fibre(View(p), t))
      BY DEF RowsInv
    <2>1. View(p) = [m \in Node |-> m] /\ n \in Node
      BY <1>1 DEF View, Local
    <2>2. Fibre(View(p), n) = {n} /\ Fibre(View(p), t) = {t}
      BY <2>1 DEF Fibre
    <2>3. fine.row[n][t] \in Nat
      BY <1>1, <2>1, Basics
    <2>4. CutBetween(fine.row, {n}, {t}) = WeightOf(fine.row[n], {t})
      <3>1. IsFiniteSet({t}) /\ \A m \in {t} : fine.row[n][m] \in Nat
        BY <2>3, FS_Singleton
      <3>2. QED
        BY ONLY <3>1, CutRow
    <2>5. WeightOf(fine.row[n], {t}) = fine.row[n][t]
      BY <2>3, WeightSingle
    <2>6. QED
      BY <1>1, <2>2, <2>4, <2>5, Zenon
  <1>7. WeightsInv
    <2> SUFFICES ASSUME NEW n \in Node PROVE weight[n] = WeightOf(fine.weight, Fibre(rep, n))
      BY <1>1 DEF WeightsInv
    <2>1. Fibre(rep, n) = {n}
      BY <1>1 DEF Fibre
    <2>2. fine.weight[n] \in Nat
      BY <1>1, Basics
    <2>3. QED
      BY <1>1, <2>1, <2>2, WeightSingle
  <1>8. QED
    BY <1>2, <1>3, <1>4, <1>5, <1>6, <1>7 DEF ContractionInv

\* Every step keeps the invariant.
LEMMA NextContraction == ContractionInv /\ [Next]_vars => ContractionInv'
  <1> SUFFICES ASSUME ContractionInv, [Next]_vars PROVE ContractionInv'
    OBVIOUS
  <1>1. CASE UNCHANGED vars
    <2>1. /\ UNCHANGED <<fine, row, weight, preserved, rep, cursor, mate>>
          /\ UNCHANGED <<fineToCoarse, coarseRow, coarseWeight, pc>>
          /\ TypeInv /\ RepInv /\ MateInv /\ RowsInv /\ WeightsInv /\ PassedInv /\ CoarseInv
      BY <1>1 DEF vars, ContractionInv
    <2>2. TypeInv' /\ MateInv'
      BY <2>1 DEF TypeInv, MateInv
    <2>3. RepInv' /\ RowsInv' /\ WeightsInv'
      BY <2>1, GraphStays DEF Contracted
    <2>4. PassedInv'
      BY <2>1 DEF PassedInv, Local
    <2>5. (Numbered' <=> Numbered) /\ (Numbers' <=> Numbers) /\ (Blank' <=> Blank)
      BY <2>1 DEF Numbered, Numbers, Blank, NumberOf, PrefixSum, Offset, Local
    <2>6. BuiltInv' <=> BuiltInv
      BY <2>1 DEF BuiltInv
    <2>7. CoarseInv'
      BY <2>1, <2>5, <2>6 DEF CoarseInv
    <2>8. QED
      BY <2>2, <2>3, <2>4, <2>7 DEF ContractionInv
  <1>2. ASSUME NEW p \in PE, NEW n \in Node, MatchNode(p, n) PROVE ContractionInv'
    BY <1>2, MatchNodeKeeps
  <1>3. ASSUME NEW p \in PE, NEW n \in Node, SkipNode(p, n) PROVE ContractionInv'
    BY <1>3, SkipNodeKeeps
  <1>4. ASSUME NEW p \in PE, Contract(p) PROVE ContractionInv'
    BY <1>4, ContractKeeps
  <1>5. ASSUME NEW p \in PE, BuildCoarseGraph(p) PROVE ContractionInv'
    BY <1>5, BuildKeeps
  <1>6. ASSUME NEW p \in PE, SumToCoarse(p) PROVE ContractionInv'
    BY <1>6, SumKeeps
  <1>7. CASE NumberCoarseNodes
    BY <1>7, NumberKeeps
  <1>8. CASE Returned
    BY <1>1, <1>8 DEF Returned
  <1>9. QED
    BY <1>1, <1>2, <1>3, <1>4, <1>5, <1>6, <1>7, <1>8 DEF Next

\* The invariant holds in every reachable state.
THEOREM SpecContractionInv == Spec => []ContractionInv
  BY InitContraction, NextContraction, PTL DEF Spec

\* A process that has passed all its nodes has left no local edge between two
\* unmatched ones, whatever the graph, the ratings and the other processes do.
THEOREM MatchingIsMaximal == Spec => []MatchingMaximal
  <1>1. ContractionInv => MatchingMaximal
    <2> SUFFICES ASSUME ContractionInv, NEW p \in PE, pc[p] = "match",
                        \A n \in Local(p) : n < cursor[p],
                        NEW n \in Local(p), mate[n] = -1, NEW m \in Candidates(n)
                 PROVE  FALSE
      BY DEF MatchingMaximal
    <2>1. /\ m \in Local(p) /\ m # n /\ mate[m] = -1 /\ row[n][m] > 0
      BY DEF Candidates, Neighbors, Local, ContractionInv, TypeInv
    <2>2. row[n][m] = 0
      BY <2>1 DEF ContractionInv, PassedInv
    <2>3. QED
      BY <2>1, <2>2
  <1>2. QED
    BY <1>1, SpecContractionInv, PTL

\* The coarse graph that the processes build is the contraction of the input graph
\* along fineToCoarse, and its node weights are those of the classes.
THEOREM CoarseGraphIsRight == Spec => []CoarseGraphIsContraction
  <1>1. ContractionInv => CoarseGraphIsContraction
    <2> SUFFICES ASSUME ContractionInv, \A p \in PE : pc[p] = "done"
                 PROVE  CoarseGraphIsContraction
      BY DEF CoarseGraphIsContraction
    <2> DEFINE class(c) == {n \in Node : fineToCoarse[n] = c}
    <2>1. PICK p \in PE : TRUE
      <3>1. 0 \in PE
        BY CoarseningAssumption DEF PE
      <3>2. QED
        BY <3>1
    <2>2. /\ TypeInv /\ RepInv /\ WeightsInv /\ BuiltInv
          /\ fineToCoarse = [n \in Node |-> NumberOf(n)]
      BY AfterNumbers
    <2>3. /\ fineToCoarse \in [Node -> Node]
          /\ \A n \in Node : rep[n] \in preserved /\ fineToCoarse[rep[n]] = fineToCoarse[n]
          /\ \A n \in preserved : Fibre(fineToCoarse, fineToCoarse[n]) = Fibre(rep, n)
      BY <2>2, NumberClasses
    <2>4. /\ fine \in Instances /\ fine.owner \in [Node -> PE] /\ preserved \in SUBSET Node
          /\ \A S \in SUBSET Node : IsFiniteSet(S)
          /\ \A n, m \in Node : fine.row[n][m] \in Nat
      BY <2>2, Basics DEF TypeInv
    <2>5. \A c : class(c) = Fibre(fineToCoarse, c) /\ class(c) \in SUBSET Node
      BY <2>3 DEF Fibre
    <2>6. ASSUME NEW c \in Node, NEW d \in Node
          PROVE  coarseRow[c][d] = EntriesOf(fine.row, class(c) \X class(d))
      <3>1. EntriesOf(fine.row, class(c) \X class(d))
              = CutBetween(fine.row, class(c), class(d))
        <4>1. IsFiniteSet(class(c)) /\ IsFiniteSet(class(d))
          BY <2>4, <2>5
        <4>2. \A n \in class(c), m \in class(d) : fine.row[n][m] \in Nat
          BY <2>4
        <4> HIDE DEF class
        <4>3. QED
          BY ONLY <4>1, <4>2, EntriesCut
      <3>2. CASE \E n \in preserved : fineToCoarse[n] = c
        <4>1. PICK n \in preserved : fineToCoarse[n] = c
          BY <3>2
        <4>2. pc[fine.owner[n]] = "done"
          BY <2>4
        <4>3. coarseRow[c][d] =
                CutBetween(fine.row, Fibre(fineToCoarse, c), Fibre(fineToCoarse, d))
          BY <2>2, <4>1, <4>2 DEF BuiltInv
        <4> HIDE DEF class
        <4>4. QED
          BY <2>5, <3>1, <4>3
      <3>3. CASE \A n \in preserved : fineToCoarse[n] # c
        <4>1. coarseRow[c][d] = 0
          BY <2>2, <3>3 DEF BuiltInv
        <4>2. class(c) = {}
          BY <2>3, <3>3
        <4>3. CutBetween(fine.row, {}, class(d)) = 0
          <5>1. IsFiniteSet({}) /\ IsFiniteSet(class(d))
            BY <2>4, <2>5
          <5> HIDE DEF class
          <5>2. /\ CutBetween(fine.row, {}, class(d)) \in Nat
                /\ CutBetween(fine.row, {}, class(d)) > 0
                     <=> \E n \in {}, m \in class(d) : fine.row[n][m] > 0
            BY <5>1, CutPositive
          <5>3. QED
            BY <5>2
        <4> HIDE DEF class
        <4>4. QED
          BY <3>1, <4>1, <4>2, <4>3
      <3>4. QED
        BY <3>2, <3>3
    <2>7. ASSUME NEW c \in Node PROVE coarseWeight[c] = WeightOf(fine.weight, class(c))
      <3>1. {n \in Fibre(fineToCoarse, c) : pc[fine.owner[n]] = "done"} = class(c)
        BY <2>3, <2>4 DEF Fibre
      <3>2. QED
        BY <2>2, <3>1 DEF BuiltInv
    <2>8. ASSUME NEW n \in preserved PROVE coarseWeight[fineToCoarse[n]] = weight[n]
      <3>1. fineToCoarse[n] \in Node
        BY <2>3, <2>4
      <3>2. coarseWeight[fineToCoarse[n]] = WeightOf(fine.weight, class(fineToCoarse[n]))
        BY <2>7, <3>1
      <3>3. class(fineToCoarse[n]) = Fibre(rep, n)
        BY <2>3, <2>5
      <3>4. QED
        BY <2>2, <3>2, <3>3 DEF WeightsInv
    <2>9. /\ \A c, d \in Node : coarseRow[c][d] = EntriesOf(fine.row, class(c) \X class(d))
          /\ \A c \in Node : coarseWeight[c] = WeightOf(fine.weight, class(c))
          /\ \A n \in preserved : coarseWeight[fineToCoarse[n]] = weight[n]
      <3> HIDE DEF class
      <3>1. QED
        BY <2>6, <2>7, <2>8
    <2>10. QED
      BY <2>9, Zenon DEF CoarseGraphIsContraction, EntriesOf
  <1>2. QED
    BY <1>1, SpecContractionInv, PTL
=============================================================================
