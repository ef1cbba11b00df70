--------------------------- MODULE TwoWayFMProofs ---------------------------
(***************************************************************************)
(* twoWayLocalFM keeps its promise for every graph, region, block weights, *)
(* capacity and tie-breaking.  A run is told by the nodes moved so far:    *)
(* the table of gains holds what the cut would lose by one more move, and  *)
(* each prefix of the moves has in gainSums the cut it gained and in       *)
(* sizeList the larger block it left.  So the prefix that is kept, and     *)
(* everything after it undone, is one of the outcomes of PartGraph.        *)
(***************************************************************************)
EXTENDS TwoWayFM, PartGraphProofs

SecondNodes == Visible \ FirstNodes

\* The blocks when T are the region nodes in the second one.
Block(q, T) == IF q = 0 THEN (FirstNodes \cup Region) \ T ELSE (SecondNodes \ Region) \cup T

\* What the cut has gained since the start, and the weight gone to the second block.
GainOf(w, T) == CutBetween(w, FirstNodes, SecondNodes) - CutBetween(w, Block(0, T), Block(1, T))
ShiftOf(T) == WeightOf(NodeWeight, T \ SecondNodes)
                - WeightOf(NodeWeight, (Region \cap SecondNodes) \ T)

\* What the cut loses if n leaves block q.
Loss(w, n, q, T) == WeightOf(w[n], Block(1 - q, T)) - WeightOf(w[n], Block(q, T) \ {n})

Flip(T, x) == IF x \in T THEN T \ {x} ELSE T \cup {x}

\* Symmetric weights of the visible edges.
EdgeWeights(w) == \A n, m \in Visible : w[n][m] \in Nat /\ w[n][m] = w[m][n]

\* The nodes moved first, and the second block after these moves.
MovedIn(tr, k) == {tr[i] : i \in 1 .. k}
SecondAfter(tr, k) == {n \in Region : n \in MovedIn(tr, k) <=> n \in FirstNodes}

\* Blocks are finite sets of visible nodes that share no node.
LEMMA BlockFacts ==
  ASSUME NEW T \in SUBSET Region
  PROVE  /\ \A q \in {0, 1} : IsFiniteSet(Block(q, T)) /\ Block(q, T) \subseteq Visible
         /\ Block(0, T) \cap Block(1, T) = {}
         /\ IsFiniteSet(Visible) /\ IsFiniteSet(FirstNodes) /\ IsFiniteSet(SecondNodes)
         /\ SecondNodes \subseteq Visible /\ FirstNodes \subseteq Visible
  <1>1. IsFiniteSet(Visible)
    BY FMAssumption, FS_Union DEF Visible
  <1>2. Block(0, T) \subseteq Visible /\ Block(1, T) \subseteq Visible
    BY FMAssumption DEF Block, Visible, SecondNodes
  <1>3. SecondNodes \subseteq Visible /\ FirstNodes \subseteq Visible
    BY FMAssumption DEF SecondNodes
  <1>4. Block(0, T) \cap Block(1, T) = {}
    BY FMAssumption DEF Block, SecondNodes
  <1>5. IsFiniteSet(Block(0, T)) /\ IsFiniteSet(Block(1, T))
        /\ IsFiniteSet(FirstNodes) /\ IsFiniteSet(SecondNodes)
    BY <1>1, <1>2, <1>3, FS_Subset
  <1>6. QED
    BY <1>1, <1>2, <1>3, <1>4, <1>5

\* A node that changes sides changes the blocks by itself only.
LEMMA BlockFlip ==
  ASSUME NEW T \in SUBSET Region, NEW x \in Region, NEW p \in {0, 1}, x \in Block(p, T)
  PROVE  /\ Flip(T, x) \in SUBSET Region
         /\ Block(p, Flip(T, x)) = Block(p, T) \ {x}
         /\ Block(1 - p, Flip(T, x)) = Block(1 - p, T) \cup {x}
         /\ x \notin Block(1 - p, T)
         /\ p = 0 <=> x \notin T
  <1>1. CASE p = 0
    <2>1. x \notin T /\ 1 - p = 1
      BY <1>1 DEF Block
    <2>2. QED
      BY <1>1, <2>1 DEF Block, Flip, SecondNodes
  <1>2. CASE p = 1
    <2>1. x \in T /\ 1 - p = 0
      BY <1>2 DEF Block
    <2>2. QED
      BY <1>2, <2>1 DEF Block, Flip, SecondNodes
  <1>3. QED
    BY <1>1, <1>2

\* The cut falls by the loss of the node that moves.
LEMMA GainMove ==
  ASSUME NEW w, EdgeWeights(w), NEW T \in SUBSET Region, NEW x \in Region,
         NEW p \in {0, 1}, x \in Block(p, T)
  PROVE  /\ GainOf(w, Flip(T, x)) = GainOf(w, T) + Loss(w, x, p, T)
         /\ GainOf(w, T) \in Int /\ Loss(w, x, p, T) \in Int
         /\ CutBetween(w, Block(0, T), Block(1, T))
              - CutBetween(w, Block(p, T) \ {x}, Block(1 - p, T) \cup {x}) = Loss(w, x, p, T)
  <1> DEFINE U == Flip(T, x)
             A == Block(p, T)
             B == Block(1 - p, T)
  <1>1. /\ U \in SUBSET Region
        /\ Block(p, U) = A \ {x} /\ Block(1 - p, U) = B \cup {x}
        /\ x \notin B
    BY BlockFlip
  <1>2. IsFiniteSet(A) /\ IsFiniteSet(B) /\ A \subseteq Visible /\ B \subseteq Visible
    BY BlockFacts
  <1>3. \A n, m \in A \cup B : w[n][m] \in Nat /\ w[n][m] = w[m][n]
    BY <1>2 DEF EdgeWeights
  <1>4. x \in A
    OBVIOUS
  <1>5. CutBetween(w, FirstNodes, SecondNodes) \in Int
    <2>1. \A n \in FirstNodes, m \in SecondNodes : w[n][m] \in Int
      BY BlockFacts DEF EdgeWeights
    <2>2. QED
      BY <2>1, BlockFacts, CutType
  <1> HIDE DEF A, B
  <1>6. /\ CutBetween(w, A, B) - CutBetween(w, A \ {x}, B \cup {x}) =
             WeightOf(w[x], B) - WeightOf(w[x], A \ {x})
        /\ WeightOf(w[x], B) \in Int /\ WeightOf(w[x], A \ {x}) \in Int
        /\ CutBetween(w, A, B) \in Int /\ CutBetween(w, A \ {x}, B \cup {x}) \in Int
    BY <1>1, <1>2, <1>3, <1>4, CutMove
  <1>7. Loss(w, x, p, T) = WeightOf(w[x], B) - WeightOf(w[x], A \ {x})
    BY DEF Loss, A, B
  <1>8. CutBetween(w, Block(0, T), Block(1, T)) = CutBetween(w, A, B)
    <2>1. CASE p = 0
      BY <2>1 DEF A, B
    <2>2. CASE p = 1
      <3>1. CutBetween(w, A, B) = CutBetween(w, B, A)
        BY <1>2, <1>3, CutSymmetric
      <3>2. 1 - p = 0
        BY <2>2
      <3>3. QED
        BY <2>2, <3>1, <3>2 DEF A, B
    <2>3. QED
      BY <2>1, <2>2
  <1>9. CutBetween(w, Block(0, U), Block(1, U)) = CutBetween(w, A \ {x}, B \cup {x})
    <2>1. CASE p = 0
      BY <1>1, <2>1
    <2>2. CASE p = 1
      <3>1. CutBetween(w, A \ {x}, B \cup {x}) = CutBetween(w, B \cup {x}, A \ {x})
        <4> DEFINE C == A \ {x}
                   D == B \cup {x}
        <4>1. C \subseteq A \cup B /\ D \subseteq A \cup B /\ IsFiniteSet(C) /\ IsFiniteSet(D)
          BY <1>2, <1>4, FS_Subset, FS_AddElement
        <4> HIDE DEF C, D
        <4>2. CutBetween(w, C, D) = CutBetween(w, D, C)
          BY <1>3, <4>1, CutSymmetric
        <4>3. QED
          BY <4>2 DEF C, D
      <3>2. 1 - p = 0
        BY <2>2
      <3>3. Block(0, U) = B \cup {x} /\ Block(1, U) = A \ {x}
        BY <1>1, <2>2, <3>2
      <3>4. QED
        BY <3>1, <3>3
    <2>3. QED
      BY <2>1, <2>2
  <1> HIDE DEF U
  <1>10. GainOf(w, U) = CutBetween(w, FirstNodes, SecondNodes) - CutBetween(w, A \ {x}, B \cup {x})
         /\ GainOf(w, T) = CutBetween(w, FirstNodes, SecondNodes) - CutBetween(w, A, B)
    BY <1>8, <1>9 DEF GainOf
  <1>11. GainOf(w, U) = GainOf(w, T) + Loss(w, x, p, T)
         /\ GainOf(w, T) \in Int /\ Loss(w, x, p, T) \in Int
    BY <1>5, <1>6, <1>7, <1>10
  <1>12. QED
    BY <1>6, <1>7, <1>8, <1>11 DEF A, B, U

\* What the other nodes would lose changes by twice the edge to the node that moves.
LEMMA LossMove ==
  ASSUME NEW w, EdgeWeights(w), NEW T \in SUBSET Region, NEW x \in Region,
         NEW p \in {0, 1}, x \in Block(p, T),
         NEW m \in Region, m # x, NEW q \in {0, 1}, m \in Block(q, T)
  PROVE  Loss(w, m, q, Flip(T, x)) =
           Loss(w, m, q, T) + 2 * (IF q = p THEN w[x][m] ELSE - w[x][m])
  <1> DEFINE U == Flip(T, x)
             A == Block(p, T)
             B == Block(1 - p, T)
             r == w[m]
  <1>1. Block(p, U) = A \ {x} /\ Block(1 - p, U) = B \cup {x} /\ x \notin B /\ x \in A
    BY BlockFlip
  <1>2. IsFiniteSet(A) /\ IsFiniteSet(B) /\ A \subseteq Visible /\ B \subseteq Visible
    BY BlockFacts
  <1>3. w[x][m] \in Nat /\ r[x] = w[x][m] /\ \A n \in A \cup B \cup {x} : r[n] \in Int
    <2>1. x \in Visible /\ m \in Visible
      BY DEF Visible
    <2>2. QED
      BY <1>2, <2>1 DEF EdgeWeights
  <1> HIDE DEF U, A, B, r
  <1>4. CASE q = p
    <2> DEFINE C == A \ {m}
    <2>1. IsFiniteSet(C) /\ x \in C /\ (A \ {x}) \ {m} = C \ {x} /\ C \subseteq A
      BY <1>1, <1>2, FS_Subset
    <2> HIDE DEF C
    <2>2. WeightOf(r, B \cup {x}) = WeightOf(r, B) + r[x] /\ WeightOf(r, B) \in Int
      BY <1>1, <1>2, <1>3, WeightAdd
    <2>3. WeightOf(r, C \ {x}) = WeightOf(r, C) - r[x]
      BY <1>3, <2>1, WeightDrop
    <2>4. WeightOf(r, C) \in Int
      BY <1>3, <2>1, WeightType
    <2>5. Loss(w, m, q, U) = WeightOf(r, B \cup {x}) - WeightOf(r, C \ {x})
      BY <1>1, <1>4, <2>1 DEF Loss, r
    <2>6. Loss(w, m, q, T) = WeightOf(r, B) - WeightOf(r, C)
      BY <1>4 DEF Loss, A, B, C, r
    <2>7. Loss(w, m, q, U) = Loss(w, m, q, T) + 2 * w[x][m]
      BY <1>3, <2>2, <2>3, <2>4, <2>5, <2>6
    <2>8. QED
      BY <1>4, <2>7 DEF U
  <1>5. CASE q # p
    <2> DEFINE C == B \ {m}
    <2>1. q = 1 - p /\ p = 1 - q
      BY <1>5
    <2>2. IsFiniteSet(C) /\ x \notin C /\ (B \cup {x}) \ {m} = C \cup {x} /\ C \subseteq B
      BY <1>1, <1>2, FS_Subset
    <2> HIDE DEF C
    <2>3. WeightOf(r, C \cup {x}) = WeightOf(r, C) + r[x] /\ WeightOf(r, C) \in Int
      BY <1>3, <2>2, WeightAdd
    <2>4. WeightOf(r, A \ {x}) = WeightOf(r, A) - r[x]
      BY <1>1, <1>2, <1>3, WeightDrop
    <2>5. WeightOf(r, A) \in Int
      BY <1>2, <1>3, WeightType
    <2>6. Loss(w, m, q, U) = WeightOf(r, A \ {x}) - WeightOf(r, C \cup {x})
      BY <1>1, <2>1, <2>2 DEF Loss, r
    <2>7. Loss(w, m, q, T) = WeightOf(r, A) - WeightOf(r, C)
      BY <2>1 DEF Loss, A, B, C, r
    <2>8. Loss(w, m, q, U) = Loss(w, m, q, T) + 2 * (- w[x][m])
      BY <1>3, <2>3, <2>4, <2>5, <2>6, <2>7
    <2>9. QED
      BY <1>5, <2>8 DEF U
  <1>6. QED
    BY <1>4, <1>5

\* The blocks' weights change by the weight of the node that moves.
LEMMA ShiftMove ==
  ASSUME NEW T \in SUBSET Region, NEW x \in Region
  PROVE  /\ ShiftOf(Flip(T, x)) =
              ShiftOf(T) + (IF x \in T THEN - NodeWeight[x] ELSE NodeWeight[x])
         /\ ShiftOf(T) \in Int
  <1> DEFINE A == T \ SecondNodes
             B == (Region \cap SecondNodes) \ T
             U == Flip(T, x)
  <1>1. NodeWeight[x] \in Int /\ \A n \in A \cup B \cup {x} : NodeWeight[n] \in Int
    BY FMAssumption DEF Visible
  <1>2. IsFiniteSet(A) /\ IsFiniteSet(B)
    <2>1. A \subseteq Region /\ B \subseteq Region /\ IsFiniteSet(Region)
      BY FMAssumption
    <2> HIDE DEF A, B
    <2>2. QED
      BY <2>1, FS_Subset
  <1>3. WeightOf(NodeWeight, A) \in Int /\ WeightOf(NodeWeight, B) \in Int
    <2> HIDE DEF A, B
    <2>1. QED
      BY <1>1, <1>2, WeightType
  <1>4. CASE x \in T /\ x \in SecondNodes
    <2>1. U \ SecondNodes = A /\ (Region \cap SecondNodes) \ U = B \cup {x} /\ x \notin B
      BY <1>4 DEF Flip
    <2> HIDE DEF A, B
    <2>2. WeightOf(NodeWeight, B \cup {x}) = WeightOf(NodeWeight, B) + NodeWeight[x]
      BY <1>1, <1>2, <2>1, WeightAdd
    <2>3. ShiftOf(U) = WeightOf(NodeWeight, A) - WeightOf(NodeWeight, B \cup {x})
      BY <2>1 DEF ShiftOf
    <2>4. ShiftOf(T) = WeightOf(NodeWeight, A) - WeightOf(NodeWeight, B)
      BY DEF ShiftOf, A, B
    <2> HIDE DEF U
    <2>5. QED
      BY <1>1, <1>3, <1>4, <2>2, <2>3, <2>4 DEF U
  <1>5. CASE x \in T /\ x \notin SecondNodes
    <2>1. U \ SecondNodes = A \ {x} /\ (Region \cap SecondNodes) \ U = B /\ x \in A
      BY <1>5 DEF Flip
    <2> HIDE DEF A, B
    <2>2. WeightOf(NodeWeight, A \ {x}) = WeightOf(NodeWeight, A) - NodeWeight[x]
      BY <1>1, <1>2, <2>1, WeightDrop
    <2>3. ShiftOf(U) = WeightOf(NodeWeight, A \ {x}) - WeightOf(NodeWeight, B)
      BY <2>1 DEF ShiftOf
    <2>4. ShiftOf(T) = WeightOf(NodeWeight, A) - WeightOf(NodeWeight, B)
      BY DEF ShiftOf, A, B
    <2> HIDE DEF U
    <2>5. QED
      BY <1>1, <1>3, <1>5, <2>2, <2>3, <2>4 DEF U
  <1>6. CASE x \notin T /\ x \in SecondNodes
    <2>1. U \ SecondNodes = A /\ (Region \cap SecondNodes) \ U = B \ {x} /\ x \in B
      BY <1>6 DEF Flip
    <2> HIDE DEF A, B
    <2>2. WeightOf(NodeWeight, B \ {x}) = WeightOf(NodeWeight, B) - NodeWeight[x]
      BY <1>1, <1>2, <2>1, WeightDrop
    <2>3. ShiftOf(U) = WeightOf(NodeWeight, A) - WeightOf(NodeWeight, B \ {x})
      BY <2>1 DEF ShiftOf
    <2>4. ShiftOf(T) = WeightOf(NodeWeight, A) - WeightOf(NodeWeight, B)
      BY DEF ShiftOf, A, B
    <2> HIDE DEF U
    <2>5. QED
      BY <1>1, <1>3, <1>6, <2>2, <2>3, <2>4 DEF U
  <1>7. CASE x \notin T /\ x \notin SecondNodes
    <2>1. U \ SecondNodes = A \cup {x} /\ (Region \cap SecondNodes) \ U = B /\ x \notin A
      BY <1>7 DEF Flip
    <2> HIDE DEF A, B
    <2>2. WeightOf(NodeWeight, A \cup {x}) = WeightOf(NodeWeight, A) + NodeWeight[x]
      BY <1>1, <1>2, <2>1, WeightAdd
    <2>3. ShiftOf(U) = WeightOf(NodeWeight, A \cup {x}) - WeightOf(NodeWeight, B)
      BY <2>1 DEF ShiftOf
    <2>4. ShiftOf(T) = WeightOf(NodeWeight, A) - WeightOf(NodeWeight, B)
      BY DEF ShiftOf, A, B
    <2> HIDE DEF U
    <2>5. QED
      BY <1>1, <1>3, <1>7, <2>2, <2>3, <2>4 DEF U
  <1>8. QED
    BY <1>3, <1>4, <1>5, <1>6, <1>7 DEF ShiftOf

-----------------------------------------------------------------------------
InSecond == {n \in Region : assigned[n] = 1}
Moves == Len(transfers)

TypeInv ==
  /\ graph \in Graphs /\ capacity \in Capacities /\ startSizes \in [{0, 1} -> Nat]
  /\ assigned \in [Region -> {0, 1}]
  /\ size \in [{0, 1} -> Int]
  /\ gain \in [Region -> Int]
  /\ queue \in [{0, 1} -> SUBSET Region]
  /\ transfers \in Seq(Region) /\ gainSums \in Seq(Int) /\ sizeList \in Seq(Int)
  /\ Len(gainSums) = Moves /\ Len(sizeList) = Moves
  /\ result \in Int
  /\ pc \in {"start", "loop", "done"}

\* Nothing has moved before the loop, and the loop starts with room in a block.
StartInv ==
  /\ pc = "start" => transfers = <<>>
  /\ pc # "done" => result = 0
  /\ pc = "loop" => startSizes[0] < capacity \/ startSizes[1] < capacity

\* A node moves at most once: one that is queued is on the side of its queue and has
\* not moved; the assignment is what the moves make of the blocks' first sides.
MovesInv ==
  /\ \A i, j \in 1 .. Moves : transfers[i] = transfers[j] => i = j
  /\ \A q \in {0, 1} : \A n \in queue[q] :
       pc = "loop" => assigned[n] = q /\ n \notin MovedIn(transfers, Moves)
  /\ pc # "done" => InSecond = SecondAfter(transfers, Moves)

\* The block weights belong to the assignment.
SizeInv ==
  pc # "done" => /\ size[0] = startSizes[0] - ShiftOf(InSecond)
                 /\ size[1] = startSizes[1] + ShiftOf(InSecond)

\* The lists tell for each prefix of the moves the gain and a bound of both blocks.
PrefixInv ==
  \A k \in 1 .. Moves :
    LET T == SecondAfter(transfers, k)
    IN  /\ gainSums[k] = GainOf(EdgeView, T)
        /\ startSizes[0] - ShiftOf(T) <= sizeList[k]
        /\ startSizes[1] + ShiftOf(T) <= sizeList[k]

\* The gain table holds the loss of each queued node.
TableInv ==
  pc = "loop" => \A q \in {0, 1} : \A n \in queue[q] : gain[n] = Loss(EdgeView, n, q, InSecond)

FMInv == TypeInv /\ StartInv /\ MovesInv /\ SizeInv /\ PrefixInv /\ TableInv /\ OutcomePromised

\* The edges twoWayLocalFM sees are symmetric, whether or not they count as weighted.
LEMMA EdgeViewSymmetric == TypeInv => EdgeWeights(EdgeView)
  <1> SUFFICES ASSUME TypeInv, NEW n \in Visible, NEW m \in Visible
               PROVE  EdgeView[n][m] \in Nat /\ EdgeView[n][m] = EdgeView[m][n]
    BY DEF EdgeWeights
  <1>1. graph[n][m] \in Nat /\ graph[n][m] = graph[m][n]
    BY FMAssumption DEF TypeInv
  <1> DEFINE View(a, b) == IF edgesWeighted \/ graph[a][b] = 0 THEN graph[a][b] ELSE 1
  <1>2. EdgeView[n][m] = View(n, m) /\ EdgeView[m][n] = View(m, n)
    BY DEF EdgeView
  <1>3. View(n, m) = View(m, n) /\ View(n, m) \in Nat
    BY <1>1
  <1>4. QED
    BY <1>2, <1>3

\* Before the first move the second block is the partner's.
LEMMA NothingMoved ==
  /\ \A tr : SecondAfter(tr, 0) = Region \cap SecondNodes
  /\ ShiftOf(Region \cap SecondNodes) = 0
  /\ Block(0, Region \cap SecondNodes) = FirstNodes
  /\ Block(1, Region \cap SecondNodes) = SecondNodes
  /\ \A w : EdgeWeights(w) => GainOf(w, Region \cap SecondNodes) = 0
  <1> DEFINE T == Region \cap SecondNodes
  <1>1. \A tr : SecondAfter(tr, 0) = T
    <2>1. \A tr : MovedIn(tr, 0) = {}
      BY DEF MovedIn
    <2>2. QED
      BY <2>1 DEF SecondAfter, SecondNodes, Visible
  <1>2. ShiftOf(T) = 0
    <2>1. T \ SecondNodes = {} /\ (Region \cap SecondNodes) \ T = {}
      OBVIOUS
    <2>2. WeightOf(NodeWeight, {}) = 0
      BY SumEmpty, WeightIsSum
    <2>3. QED
      BY <2>1, <2>2 DEF ShiftOf
  <1>3. Block(0, T) = FirstNodes /\ Block(1, T) = SecondNodes
    BY FMAssumption DEF Block, SecondNodes, Visible
  <1>4. ASSUME NEW w, EdgeWeights(w) PROVE GainOf(w, T) = 0
    <2>1. T \in SUBSET Region
      OBVIOUS
    <2>2. CutBetween(w, FirstNodes, SecondNodes) \in Int
      <3>1. \A n \in FirstNodes, m \in SecondNodes : w[n][m] \in Int
        BY <1>4, <2>1, BlockFacts DEF EdgeWeights
      <3>2. QED
        BY <2>1, <3>1, BlockFacts, CutType
    <2>3. QED
      BY <1>3, <2>2 DEF GainOf
  <1>5. QED
    BY <1>1, <1>2, <1>3, <1>4

\* One more move.
LEMMA MovedAppend ==
  ASSUME NEW tr \in Seq(Region), NEW x \in Region, x \notin MovedIn(tr, Len(tr))
  PROVE  /\ \A k \in 0 .. Len(tr) : SecondAfter(Append(tr, x), k) = SecondAfter(tr, k)
         /\ SecondAfter(Append(tr, x), Len(tr) + 1) = Flip(SecondAfter(tr, Len(tr)), x)
  <1> DEFINE ts == Append(tr, x)
  <1>1. Len(tr) \in Nat /\ ts[Len(tr) + 1] = x /\ \A i \in 1 .. Len(tr) : ts[i] = tr[i]
    OBVIOUS
  <1> HIDE DEF ts
  <1>2. \A k \in 0 .. Len(tr) : MovedIn(ts, k) = MovedIn(tr, k)
    BY <1>1 DEF MovedIn
  <1>3. MovedIn(ts, Len(tr) + 1) = MovedIn(tr, Len(tr)) \cup {x}
    BY <1>1 DEF MovedIn
  <1>4. \A k \in 0 .. Len(tr) : SecondAfter(ts, k) = SecondAfter(tr, k)
    BY <1>2 DEF SecondAfter
  <1>5. SecondAfter(ts, Len(tr) + 1) = Flip(SecondAfter(tr, Len(tr)), x)
    BY <1>3 DEF SecondAfter, Flip
  <1>6. QED
    BY <1>4, <1>5 DEF ts

\* The blocks as the model names them.
LEMMA BlocksNow ==
  TypeInv => /\ \A q \in {0, 1} : BlockNow(q) = Block(q, InSecond)
             /\ InSecond \in SUBSET Region
             /\ \A q \in {0, 1} : \A n \in Region : n \in Block(q, InSecond) <=> assigned[n] = q
  <1> SUFFICES ASSUME TypeInv
               PROVE  /\ \A q \in {0, 1} : BlockNow(q) = Block(q, InSecond)
                      /\ \A q \in {0, 1} : \A n \in Region :
                           n \in Block(q, InSecond) <=> assigned[n] = q
    BY DEF InSecond
  <1>1. \A n \in Region : assigned[n] \in {0, 1} /\ (n \in InSecond <=> assigned[n] = 1)
    BY DEF TypeInv, InSecond
  <1> InSecond \subseteq Region
    BY DEF InSecond
  <1>2. BlockNow(0) = Block(0, InSecond)
    BY <1>1, FMAssumption DEF BlockNow, Block, Side, Visible
  <1>3. BlockNow(1) = Block(1, InSecond)
    BY <1>1, FMAssumption DEF BlockNow, Block, SecondNodes, Side, Visible
  <1>4. QED
    BY <1>1, <1>2, <1>3, FMAssumption DEF Block, SecondNodes, Visible

\* Every run starts right.
LEMMA InitFMInv == Init => FMInv
  <1> SUFFICES ASSUME Init PROVE FMInv
    OBVIOUS
  <1>1. TypeInv
    BY FMAssumption DEF Init, TypeInv, Side, Moves
  <1>2. Moves = 0 /\ StartInv
    BY DEF Init, StartInv, Moves
  <1>3. InSecond = Region \cap SecondNodes
    BY DEF InSecond, Init, Side, SecondNodes, Visible
  <1>4. MovesInv /\ PrefixInv /\ TableInv /\ OutcomePromised
    BY <1>2, <1>3, NothingMoved DEF Init, MovesInv, PrefixInv, TableInv, OutcomePromised
  <1>5. SizeInv
    <2>1. size = startSizes /\ size[0] \in Int /\ size[1] \in Int
      BY <1>1 DEF Init, TypeInv
    <2>2. QED
      BY <1>3, <2>1, NothingMoved DEF SizeInv
  <1>6. QED
    BY <1>1, <1>2, <1>4, <1>5 DEF FMInv

\* Filling the queues computes the losses.
LEMMA FillQueuesStep == FMInv /\ FillQueues => FMInv'
  <1> SUFFICES ASSUME FMInv, FillQueues PROVE FMInv'
    OBVIOUS
  <1> USE DEF FMInv
  <1> DEFINE T == InSecond
  <1>1. /\ EdgeView' = EdgeView /\ InSecond' = InSecond /\ Moves' = Moves /\ Moves = 0
        /\ InSecond = Region \cap SecondNodes
    <2>1. Moves = 0
      BY DEF FillQueues, StartInv, Moves
    <2>2. InSecond = SecondAfter(transfers, Moves)
      BY DEF FillQueues, MovesInv
    <2>3. QED
      BY <2>1, <2>2, NothingMoved
         DEF FillQueues, EdgeView, edgesWeighted, InSecond, Moves, input
  <1>2. EdgeWeights(EdgeView)
    BY EdgeViewSymmetric
  <1>3. \A n \in Region : /\ Side(n) \in {0, 1} /\ assigned[n] = Side(n)
                          /\ n \in Block(Side(n), InSecond)
    <2>1. \A n \in Region : assigned[n] = Side(n)
      BY <1>1 DEF InSecond, TypeInv, Side, SecondNodes, Visible
    <2>2. QED
      BY <2>1, BlocksNow DEF Side
  <1>4. \A n \in Region : /\ ComputeInitialGain(n) = Loss(EdgeView, n, Side(n), InSecond)
                          /\ ComputeInitialGain(n) \in Int
    <2> TAKE n \in Region
    <2>1. {m \in Visible \ {n} : Side(m) # Side(n)} = Block(1 - Side(n), InSecond)
      <3>1. CASE n \in FirstNodes
        <4>1. Side(n) = 0 /\ 1 - Side(n) = 1
          BY <3>1 DEF Side
        <4>2. Block(1 - Side(n), InSecond) = SecondNodes
          BY <1>1, <4>1, NothingMoved
        <4>3. QED
          BY <3>1, <4>1, <4>2 DEF Side, SecondNodes
      <3>2. CASE n \notin FirstNodes
        <4>1. Side(n) = 1 /\ 1 - Side(n) = 0
          BY <3>2 DEF Side
        <4>2. Block(1 - Side(n), InSecond) = FirstNodes
          BY <1>1, <4>1, NothingMoved
        <4>3. QED
          BY <3>2, <4>1, <4>2, FMAssumption DEF Side
      <3>3. QED
        BY <3>1, <3>2
    <2>2. {m \in Visible \ {n} : Side(m) = Side(n)} = Block(Side(n), InSecond) \ {n}
      BY <1>1, NothingMoved, FMAssumption DEF Side, SecondNodes, Visible
    <2>3. ComputeInitialGain(n) = Loss(EdgeView, n, Side(n), InSecond)
      BY <2>1, <2>2 DEF ComputeInitialGain, Loss
    <2>4. Loss(EdgeView, n, Side(n), InSecond) \in Int
      BY <1>2, <1>3, BlocksNow, GainMove
    <2>5. QED
      BY <2>3, <2>4
  <1>5. TypeInv'
    BY <1>4 DEF TypeInv, FillQueues, input, Moves
  <1>6. startSizes[0] < capacity \/ startSizes[1] < capacity
    <2>1. startSizes[0] \in Int /\ startSizes[1] \in Int
      BY DEF TypeInv
    <2>2. size[0] = startSizes[0] /\ size[1] = startSizes[1]
      BY <1>1, <2>1, NothingMoved DEF SizeInv, FillQueues
    <2>3. QED
      BY <2>2 DEF FillQueues
  <1>7. StartInv'
    BY <1>6 DEF StartInv, FillQueues, input
  <1>8. MovesInv'
    <2>1. MovedIn(transfers, Moves) = {}
      BY <1>1 DEF MovedIn
    <2>2. QED
      BY <1>1, <2>1 DEF MovesInv, FillQueues
  <1>9. SizeInv' /\ PrefixInv' /\ OutcomePromised'
    BY <1>1 DEF SizeInv, PrefixInv, OutcomePromised, FillQueues, input
  <1>10. TableInv'
    BY <1>1, <1>3, <1>4 DEF TableInv, FillQueues
  <1>11. QED
    BY <1>5, <1>7, <1>8, <1>9, <1>10

\* A move updates the table and the lists.
LEMMA MoveNodeStep ==
  ASSUME FMInv, NEW n \in Region, MoveNode(n)
  PROVE  FMInv'
  <1> USE DEF FMInv
  <1> DEFINE T == InSecond
  <1>1. PICK q \in {0, 1} :
          /\ n \in queue[q]
          /\ assigned' = [assigned EXCEPT ![n] = 1 - q]
          /\ size' = [size EXCEPT ![q] = @ - NodeWeight[n], ![1 - q] = @ + NodeWeight[n]]
          /\ queue' = ExtractMin(q, n)
          /\ gain' = UpdatedGains(n, q)
    BY DEF MoveNode
  <1>2. /\ pc = "loop" /\ pc' = "loop" /\ graph' = graph /\ capacity' = capacity
        /\ startSizes' = startSizes /\ result' = result
        /\ transfers' = Append(transfers, n)
        /\ gainSums' = Append(gainSums,
                         gain[n] + IF gainSums = <<>> THEN 0 ELSE Last(gainSums))
        /\ sizeList' = Append(sizeList, Max({size'[0], size'[1]}))
    BY DEF MoveNode, input
  <1>3. EdgeView' = EdgeView /\ EdgeWeights(EdgeView)
    BY <1>2, EdgeViewSymmetric DEF EdgeView, edgesWeighted
  <1>4. /\ T \in SUBSET Region
        /\ assigned[n] = q /\ n \in Block(q, T) /\ n \notin MovedIn(transfers, Moves)
        /\ InSecond' = Flip(T, n)
    <2>1. assigned[n] = q /\ n \notin MovedIn(transfers, Moves)
      BY <1>1, <1>2 DEF MovesInv
    <2>2. InSecond' = Flip(T, n)
      BY <1>1, <2>1 DEF InSecond, Flip, TypeInv
    <2>3. QED
      BY <2>1, <2>2, BlocksNow
  <1>5. q = 0 <=> n \notin T
    BY <1>4, BlockFlip
  <1>6. Moves \in Nat /\ Moves' = Moves + 1
    BY <1>2 DEF Moves, TypeInv
  <1>7. \A m \in queue'[0] \cup queue'[1] : m # n /\ m \in queue[0] \cup queue[1]
    BY <1>1, <1>2 DEF ExtractMin, TypeInv, MovesInv
  <1>8. \A p \in {0, 1} : \A m \in queue'[p] : m \in queue[p] /\ m # n
    BY <1>1, <1>2 DEF ExtractMin, TypeInv, MovesInv
  <1>9. gain' \in [Region -> Int]
        /\ \A m \in queue[0] \cup queue[1] : m # n =>
             gain'[m] = gain[m] + 2 * (IF assigned[m] = q THEN EdgeView[n][m]
                                                          ELSE - EdgeView[n][m])
    <2>1. \A m \in Region : EdgeView[n][m] \in Nat
      BY <1>3 DEF EdgeWeights, Visible
    <2>2. \A m \in Region : gain[m] \in Int
      BY DEF TypeInv
    <2>3. queue[0] \subseteq Region /\ queue[1] \subseteq Region
      BY DEF TypeInv
    <2>4. QED
      BY <1>1, <2>1, <2>2, <2>3 DEF UpdatedGains
  <1>10. /\ gain[n] = Loss(EdgeView, n, q, T) /\ gain[n] \in Int
         /\ GainOf(EdgeView, T) \in Int
         /\ GainOf(EdgeView, Flip(T, n)) = GainOf(EdgeView, T) + gain[n]
    <2>1. gain[n] = Loss(EdgeView, n, q, T)
      BY <1>1, <1>2 DEF TableInv
    <2>2. /\ GainOf(EdgeView, Flip(T, n)) = GainOf(EdgeView, T) + Loss(EdgeView, n, q, T)
          /\ GainOf(EdgeView, T) \in Int /\ Loss(EdgeView, n, q, T) \in Int
      <3> HIDE DEF T
      <3>1. QED
        BY <1>3, <1>4, GainMove
    <2>3. QED
      BY <2>1, <2>2
  <1>11. gain[n] + (IF gainSums = <<>> THEN 0 ELSE Last(gainSums)) = GainOf(EdgeView, Flip(T, n))
    <2>1. T = SecondAfter(transfers, Moves)
      BY <1>2 DEF MovesInv
    <2>2. Len(gainSums) = Moves /\ gainSums \in Seq(Int)
      BY DEF TypeInv
    <2>3. CASE gainSums = <<>>
      <3>1. GainOf(EdgeView, T) = 0
        BY <1>3, <2>1, <2>2, <2>3, NothingMoved
      <3>2. QED
        BY <1>10, <2>3, <3>1
    <2>4. CASE gainSums # <<>>
      <3>1. Moves \in 1 .. Moves
        BY <2>2, <2>4
      <3>2. Last(gainSums) = GainOf(EdgeView, T)
        BY <2>1, <2>2, <3>1 DEF PrefixInv, Last
      <3>3. QED
        BY <1>10, <2>4, <3>2
    <2>5. QED
      BY <2>3, <2>4
  <1>12. /\ size'[0] = startSizes[0] - ShiftOf(Flip(T, n))
         /\ size'[1] = startSizes[1] + ShiftOf(Flip(T, n))
         /\ size' \in [{0, 1} -> Int]
    <2>1. /\ ShiftOf(Flip(T, n)) = ShiftOf(T) + (IF q = 1 THEN - NodeWeight[n] ELSE NodeWeight[n])
          /\ ShiftOf(T) \in Int
      BY <1>4, <1>5, ShiftMove
    <2>2. NodeWeight[n] \in Nat /\ startSizes[0] \in Nat /\ startSizes[1] \in Nat
      BY FMAssumption DEF Visible, TypeInv
    <2>3. /\ size[0] = startSizes[0] - ShiftOf(T) /\ size[1] = startSizes[1] + ShiftOf(T)
          /\ size \in [{0, 1} -> Int]
      BY <1>2 DEF SizeInv, TypeInv
    <2>4. CASE q = 0
      <3>1. size'[0] = size[0] - NodeWeight[n] /\ size'[1] = size[1] + NodeWeight[n]
            /\ size' \in [{0, 1} -> Int]
        BY <1>1, <2>2, <2>3, <2>4
      <3>2. QED
        BY <2>1, <2>2, <2>3, <2>4, <3>1
    <2>5. CASE q = 1
      <3>1. size'[0] = size[0] + NodeWeight[n] /\ size'[1] = size[1] - NodeWeight[n]
            /\ size' \in [{0, 1} -> Int]
        BY <1>1, <2>2, <2>3, <2>5
      <3>2. QED
        BY <2>1, <2>2, <2>3, <2>5, <3>1
    <2>6. QED
      BY <2>4, <2>5
  <1> DEFINE large == Max({size'[0], size'[1]})
  <1>13. large \in Int /\ size'[0] <= large /\ size'[1] <= large
    <2> DEFINE S == {size'[0], size'[1]}
    <2>1. \E x \in S : \A y \in S : x >= y
      <3>1. size'[0] \in Int /\ size'[1] \in Int
        BY <1>12
      <3>2. CASE size'[0] >= size'[1]
        BY <3>1, <3>2
      <3>3. CASE size'[1] >= size'[0]
        BY <3>1, <3>3
      <3>4. QED
        BY <3>1, <3>2, <3>3
    <2>2. Max(S) \in S /\ \A y \in S : Max(S) >= y
      <3> HIDE DEF S
      <3>1. QED
        BY <2>1 DEF Max
    <2>3. size'[0] \in Int /\ size'[1] \in Int
      BY <1>12
    <2> HIDE DEF large
    <2>4. large \in S /\ \A y \in S : large >= y
      BY <2>2 DEF large
    <2>5. QED
      BY <2>3, <2>4
  <1>14. TypeInv'
    <2>1. transfers' \in Seq(Region) /\ gainSums' \in Seq(Int) /\ sizeList' \in Seq(Int)
      <3>1. gain[n] + (IF gainSums = <<>> THEN 0 ELSE Last(gainSums)) \in Int
        BY <1>10, <1>11
      <3> HIDE DEF large
      <3>2. sizeList' = Append(sizeList, large)
        BY <1>2 DEF large
      <3>3. QED
        BY <1>2, <1>13, <3>1, <3>2 DEF TypeInv
    <2>2. Len(gainSums') = Moves' /\ Len(sizeList') = Moves'
      BY <1>2 DEF TypeInv, Moves
    <2>3. assigned' \in [Region -> {0, 1}] /\ queue' \in [{0, 1} -> SUBSET Region]
      BY <1>1 DEF TypeInv, ExtractMin
    <2>4. QED
      BY <1>2, <1>9, <1>12, <2>1, <2>2, <2>3 DEF TypeInv
  <1>15. /\ \A k \in 0 .. Moves : SecondAfter(transfers', k) = SecondAfter(transfers, k)
         /\ SecondAfter(transfers', Moves + 1) = Flip(T, n)
    <2>1. T = SecondAfter(transfers, Moves) /\ transfers \in Seq(Region)
      BY <1>2 DEF MovesInv, TypeInv
    <2>2. QED
      BY <1>2, <1>4, <2>1, MovedAppend DEF Moves
  <1>16. StartInv'
    BY <1>2 DEF StartInv
  <1>17. MovesInv'
    <2>1. transfers'[Moves + 1] = n /\ \A i \in 1 .. Moves : transfers'[i] = transfers[i]
      BY <1>2 DEF Moves, TypeInv
    <2>2. \A i \in 1 .. Moves : transfers[i] # n
      BY <1>4 DEF MovedIn
    <2>3. \A i, j \in 1 .. Moves : transfers[i] = transfers[j] => i = j
      BY DEF MovesInv
    <2>4. \A i, j \in 1 .. Moves' : transfers'[i] = transfers'[j] => i = j
      BY <1>6, <2>1, <2>2, <2>3
    <2>5. MovedIn(transfers', Moves') = MovedIn(transfers, Moves) \cup {n}
      BY <1>6, <2>1 DEF MovedIn
    <2>6. \A p \in {0, 1} : \A m \in queue'[p] :
            assigned'[m] = p /\ m \notin MovedIn(transfers', Moves')
      <3> TAKE p \in {0, 1}
      <3> TAKE m \in queue'[p]
      <3>1. m \in queue[p] /\ m # n
        BY <1>8
      <3>2. assigned[m] = p /\ m \notin MovedIn(transfers, Moves) /\ m \in Region
        BY <1>2, <3>1 DEF MovesInv, TypeInv
      <3>3. QED
        BY <1>1, <2>5, <3>1, <3>2 DEF TypeInv
    <2>7. InSecond' = SecondAfter(transfers', Moves')
      BY <1>4, <1>6, <1>15
    <2>8. QED
      BY <2>4, <2>6, <2>7 DEF MovesInv
  <1>18. SizeInv'
    BY <1>2, <1>4, <1>12 DEF SizeInv
  <1>19. PrefixInv'
    <2>1. /\ gainSums'[Moves + 1] = GainOf(EdgeView, Flip(T, n))
          /\ \A i \in 1 .. Moves : gainSums'[i] = gainSums[i]
          /\ sizeList'[Moves + 1] = large
          /\ \A i \in 1 .. Moves : sizeList'[i] = sizeList[i]
      <3> HIDE DEF large
      <3>1. sizeList' = Append(sizeList, large)
        BY <1>2 DEF large
      <3>2. gainSums' = Append(gainSums, GainOf(EdgeView, Flip(T, n)))
        BY <1>2, <1>11
      <3>3. Len(gainSums) = Moves /\ Len(sizeList) = Moves
            /\ gainSums \in Seq(Int) /\ sizeList \in Seq(Int)
        BY DEF TypeInv
      <3>4. QED
        BY <3>1, <3>2, <3>3
    <2> SUFFICES ASSUME NEW k \in 1 .. Moves'
                 PROVE  LET U == SecondAfter(transfers', k)
                        IN  /\ gainSums'[k] = GainOf(EdgeView, U)
                            /\ startSizes[0] - ShiftOf(U) <= sizeList'[k]
                            /\ startSizes[1] + ShiftOf(U) <= sizeList'[k]
      BY <1>2, <1>3 DEF PrefixInv
    <2> HIDE DEF large
    <2>2. CASE k \in 1 .. Moves
      <3>1. SecondAfter(transfers', k) = SecondAfter(transfers, k)
        BY <1>6, <1>15, <2>2
      <3>2. QED
        BY <2>1, <2>2, <3>1 DEF PrefixInv
    <2>3. CASE k = Moves + 1
      BY <1>12, <1>13, <1>15, <2>1, <2>3
    <2>4. QED
      BY <1>6, <2>2, <2>3
  <1>20. TableInv'
    <2> SUFFICES ASSUME NEW p \in {0, 1}, NEW m \in queue'[p]
                 PROVE  gain'[m] = Loss(EdgeView, m, p, Flip(T, n))
      BY <1>3, <1>4 DEF TableInv
    <2>1. m \in queue[p] /\ m # n /\ m \in queue[0] \cup queue[1]
      BY <1>8
    <2>2. m \in Region /\ assigned[m] = p /\ gain[m] = Loss(EdgeView, m, p, T)
      BY <1>2, <2>1 DEF TypeInv, MovesInv, TableInv
    <2>3. m \in Block(p, T)
      BY <2>2, BlocksNow
    <2>4. Loss(EdgeView, m, p, Flip(T, n)) = Loss(EdgeView, m, p, T)
            + 2 * (IF p = q THEN EdgeView[n][m] ELSE - EdgeView[n][m])
      BY <1>3, <1>4, <2>1, <2>2, <2>3, LossMove
    <2>5. gain'[m] = gain[m] + 2 * (IF assigned[m] = q THEN EdgeView[n][m] ELSE - EdgeView[n][m])
      BY <1>9, <2>1
    <2>6. QED
      BY <2>2, <2>4, <2>5
  <1>21. OutcomePromised'
    BY <1>2 DEF OutcomePromised
  <1>22. QED
    BY <1>14, <1>16, <1>17, <1>18, <1>19, <1>20, <1>21

\* The prefix that is kept is a good one, if there is any.
LEMMA KeptIsGood == TypeInv /\ KeptMoves # 0 => KeptMoves \in GoodPrefixes
  <1> SUFFICES ASSUME TypeInv, KeptMoves # 0 PROVE KeptMoves \in GoodPrefixes
    OBVIOUS
  <1> DEFINE G == GoodPrefixes
             Best == {i \in G : \A j \in G : gainSums[j] <= gainSums[i]}
  <1>1. Moves \in Nat /\ G \subseteq 1 .. Moves /\ \A i \in G : gainSums[i] \in Int
    BY DEF TypeInv, GoodPrefixes, Moves
  <1>2. IsFiniteSet(G)
    <2>1. IsFiniteSet(1 .. Moves)
      BY <1>1, FS_Interval
    <2>2. QED
      BY <1>1, <2>1, FS_Subset
  <1>3. G # {} /\ KeptMoves = Min(Best)
    BY DEF KeptMoves
  <1>4. Best # {}
    <2> HIDE DEF G
    <2>1. \E i \in G : \A j \in G : gainSums[j] <= gainSums[i]
      BY <1>1, <1>2, <1>3, FiniteMax
    <2>2. QED
      BY <2>1
  <1>5. \E i \in Best : \A j \in Best : i <= j
    <2> DEFINE neg == [i \in Best |-> - i]
    <2>1. IsFiniteSet(Best) /\ \A i \in Best : i \in Nat /\ neg[i] = - i /\ neg[i] \in Int
      BY <1>1, <1>2, FS_Subset
    <2> HIDE DEF neg, Best
    <2>2. PICK i \in Best : \A j \in Best : neg[j] <= neg[i]
      BY <1>4, <2>1, FiniteMax
    <2>3. \A j \in Best : i <= j
      BY <2>1, <2>2
    <2>4. QED
      BY <2>3
  <1>6. Min(Best) \in Best
    <2> HIDE DEF Best
    <2>1. QED
      BY <1>5 DEF Min
  <1>7. QED
    BY <1>3, <1>6

\* An assignment with a gain under which both blocks fit is an outcome.
LEMMA GainIsOutcome ==
  ASSUME NEW w, NEW T \in SUBSET Region, NEW a, NEW b, NEW cap,
         ~ (a >= cap /\ b >= cap), GainOf(w, T) > 0,
         a - ShiftOf(T) <= cap, b + ShiftOf(T) <= cap
  PROVE  [gain |-> GainOf(w, T), toSecond |-> T]
           \in FMOutcomes(w, NodeWeight, FirstNodes, SecondNodes, Region, a, b, cap)
  <1> DEFINE gainOf(U)  == CutBetween(w, FirstNodes, SecondNodes)
                        - CutBetween(w, (FirstNodes \cup Region) \ U, (SecondNodes \ Region) \cup U)
             Better == {U \in SUBSET Region : /\ ~ (a >= cap /\ b >= cap)
                                              /\ gainOf(U) > 0
                                              /\ a - ShiftOf(U) <= cap
                                              /\ b + ShiftOf(U) <= cap}
  <1>1. gainOf(T) = GainOf(w, T)
    <2>1. /\ Block(0, T) = (FirstNodes \cup Region) \ T
          /\ Block(1, T) = (SecondNodes \ Region) \cup T
      BY DEF Block
    <2>2. QED
      BY <2>1, Zenon DEF GainOf
  <1>2. FMOutcomes(w, NodeWeight, FirstNodes, SecondNodes, Region, a, b, cap) =
          {[gain |-> 0, toSecond |-> Region \cap SecondNodes]}
            \cup {[gain |-> gainOf(U), toSecond |-> U] : U \in Better}
    BY Zenon DEF FMOutcomes, ShiftOf
  <1> HIDE DEF gainOf
  <1>3. T \in Better
    BY <1>1
  <1> HIDE DEF Better
  <1>4. QED
    BY <1>1, <1>2, <1>3, Zenon

\* Nor has anything to move.
LEMMA NoneIsOutcome ==
  \A w, a, b, cap :
    [gain |-> 0, toSecond |-> Region \cap SecondNodes]
      \in FMOutcomes(w, NodeWeight, FirstNodes, SecondNodes, Region, a, b, cap)
  BY Zenon DEF FMOutcomes

\* Both blocks are full: nothing moves.
LEMMA ReturnOverloadedStep == FMInv /\ ReturnOverloaded => FMInv'
  <1> SUFFICES ASSUME FMInv, ReturnOverloaded PROVE FMInv'
    OBVIOUS
  <1> USE DEF FMInv
  <1>1. EdgeView' = EdgeView /\ InSecond' = InSecond /\ Moves' = Moves
    BY DEF ReturnOverloaded, EdgeView, edgesWeighted, InSecond, Moves, input
  <1>2. TypeInv' /\ StartInv' /\ MovesInv' /\ SizeInv' /\ PrefixInv' /\ TableInv'
    BY <1>1 DEF ReturnOverloaded, TypeInv, StartInv, MovesInv, SizeInv, PrefixInv, TableInv, input
  <1>3. OutcomePromised'
    <2>1. Moves = 0 /\ InSecond = SecondAfter(transfers, Moves)
      BY DEF ReturnOverloaded, StartInv, MovesInv, Moves
    <2>2. InSecond = Region \cap SecondNodes
      BY <2>1, NothingMoved
    <2>3. result' = 0 /\ startSizes' = startSizes /\ capacity' = capacity
      BY DEF ReturnOverloaded, StartInv, input
    <2>4. {n \in Region : assigned'[n] = 1} = Region \cap SecondNodes
      BY <1>1, <2>2 DEF InSecond
    <2>5. QED
      BY <2>3, <2>4, NoneIsOutcome DEF OutcomePromised, SecondNodes
  <1>4. QED
    BY <1>2, <1>3

\* Rolling back leaves the prefix that is kept.
LEMMA RecoverBestCutStep == FMInv /\ RecoverBestCut => FMInv'
  <1> SUFFICES ASSUME FMInv, RecoverBestCut PROVE FMInv'
    OBVIOUS
  <1> USE DEF FMInv
  <1> DEFINE k == KeptMoves
             undone == {transfers[i] : i \in k + 1 .. Len(transfers)}
             back(q) == WeightOf(NodeWeight, {n \in undone : assigned[n] # q})
             U == SecondAfter(transfers, k)
  <1>1. /\ pc = "loop" /\ pc' = "done" /\ graph' = graph /\ capacity' = capacity
        /\ startSizes' = startSizes /\ gain' = gain /\ queue' = queue
        /\ transfers' = transfers /\ gainSums' = gainSums /\ sizeList' = sizeList
        /\ assigned' = [n \in Region |-> IF n \in undone THEN 1 - assigned[n] ELSE assigned[n]]
        /\ size' = [q \in {0, 1} |-> size[q] + back(q) - back(1 - q)]
        /\ result' = IF k = 0 THEN 0 ELSE gainSums[k]
    BY DEF RecoverBestCut, input
  <1>2. EdgeView' = EdgeView /\ Moves' = Moves /\ Moves \in Nat
    BY <1>1 DEF EdgeView, edgesWeighted, Moves, TypeInv
  <1>3. k = 0 \/ k \in GoodPrefixes
    BY KeptIsGood
  <1>4. k \in 0 .. Moves
    BY <1>2, <1>3 DEF GoodPrefixes, TypeInv
  <1>5. undone \subseteq Region
    BY <1>4 DEF TypeInv, Moves
  <1>6. \A q \in {0, 1} : back(q) \in Int
    <2> SUFFICES ASSUME NEW q \in {0, 1} PROVE back(q) \in Int
      OBVIOUS
    <2> DEFINE D == {n \in undone : assigned[n] # q}
    <2>1. IsFiniteSet(D) /\ \A n \in D : NodeWeight[n] \in Int
      <3>1. D \subseteq Region
        BY <1>5
      <3> HIDE DEF D
      <3>2. QED
        BY <3>1, FMAssumption, FS_Subset DEF Visible
    <2> HIDE DEF D
    <2>2. WeightOf(NodeWeight, D) \in Int
      BY <2>1, WeightType
    <2>3. QED
      BY <2>2 DEF D
  <1> HIDE DEF k
  <1>7. InSecond' = U
    <2>1. /\ \A i, j \in 1 .. Moves : transfers[i] = transfers[j] => i = j
          /\ InSecond = SecondAfter(transfers, Moves)
          /\ \A i \in 1 .. Moves : transfers[i] \in Region
      BY <1>1 DEF MovesInv, TypeInv, Moves
    <2>2. /\ MovedIn(transfers, Moves) = MovedIn(transfers, k) \cup undone
          /\ MovedIn(transfers, k) \cap undone = {}
      BY <1>2, <1>4, <2>1 DEF MovedIn, Moves
    <2>3. \A n \in Region : assigned[n] \in {0, 1}
                            /\ (assigned[n] = 1 <=> n \in SecondAfter(transfers, Moves))
      BY <2>1 DEF TypeInv, InSecond
    <2> HIDE DEF undone
    <2>4. \A n \in Region : assigned'[n] = 1 <=> n \in U
      BY <1>1, <2>2, <2>3 DEF SecondAfter
    <2>5. QED
      BY <2>4 DEF InSecond, SecondAfter
  <1>8. result' \in Int
    BY <1>1, <1>3 DEF TypeInv, GoodPrefixes
  <1>9. TypeInv'
    <2>1. assigned' \in [Region -> {0, 1}]
      BY <1>1 DEF TypeInv
    <2>2. size' \in [{0, 1} -> Int]
      <3> HIDE DEF back, undone
      <3>1. QED
        BY <1>1, <1>6 DEF TypeInv
    <2>3. QED
      BY <1>1, <1>2, <1>8, <2>1, <2>2 DEF TypeInv
  <1>10. StartInv' /\ SizeInv' /\ TableInv'
    BY <1>1 DEF StartInv, SizeInv, TableInv
  <1>11. MovesInv'
    BY <1>1, <1>2 DEF MovesInv
  <1>12. PrefixInv'
    BY <1>1, <1>2 DEF PrefixInv
  <1>13. OutcomePromised'
    <2>1. U \in SUBSET Region /\ {n \in Region : assigned'[n] = 1} = U
      BY <1>7 DEF SecondAfter, InSecond
    <2> HIDE DEF U
    <2>2. SUFFICES [gain |-> result', toSecond |-> U] \in
                      FMOutcomes(EdgeView, NodeWeight, FirstNodes, SecondNodes, Region,
                                 startSizes[0], startSizes[1], capacity)
      BY <1>1, <1>2, <2>1 DEF OutcomePromised, SecondNodes
    <2>3. CASE k = 0
      <3>1. U = Region \cap SecondNodes /\ result' = 0
        BY <1>1, <2>3, NothingMoved DEF U
      <3>2. QED
        BY <3>1, NoneIsOutcome
    <2>4. CASE k # 0
      <3>1. k \in 1 .. Moves /\ gainSums[k] > 0 /\ sizeList[k] <= capacity
            /\ sizeList[k] \in Int
        BY <1>2, <1>3, <2>4 DEF GoodPrefixes, TypeInv
      <3>2. /\ gainSums[k] = GainOf(EdgeView, U)
            /\ startSizes[0] - ShiftOf(U) <= sizeList[k]
            /\ startSizes[1] + ShiftOf(U) <= sizeList[k]
        BY <3>1 DEF PrefixInv, U
      <3>3. startSizes[0] \in Nat /\ startSizes[1] \in Nat /\ capacity \in Nat
        BY FMAssumption DEF TypeInv
      <3>4. ShiftOf(U) \in Int
        <4>1. Region # {}
          <5>1. transfers[k] \in Region
            BY <3>1 DEF TypeInv, Moves
          <5>2. QED
            BY <5>1
        <4>2. QED
          BY <2>1, <4>1, ShiftMove
      <3>5. ~ (startSizes[0] >= capacity /\ startSizes[1] >= capacity)
        BY <1>1, <3>3 DEF StartInv
      <3>6. /\ startSizes[0] - ShiftOf(U) <= capacity
            /\ startSizes[1] + ShiftOf(U) <= capacity
        BY <3>1, <3>2, <3>3, <3>4
      <3>7. GainOf(EdgeView, U) > 0 /\ result' = GainOf(EdgeView, U)
        BY <1>1, <2>4, <3>1, <3>2
      <3>8. [gain |-> GainOf(EdgeView, U), toSecond |-> U] \in
               FMOutcomes(EdgeView, NodeWeight, FirstNodes, SecondNodes, Region,
                          startSizes[0], startSizes[1], capacity)
        BY <2>1, <3>5, <3>6, <3>7, GainIsOutcome
      <3>9. QED
        BY <3>7, <3>8
    <2>5. QED
      BY <2>3, <2>4
  <1>14. QED
    BY <1>9, <1>10, <1>11, <1>12, <1>13

\* Nothing changes.
LEMMA StutterStep == FMInv /\ UNCHANGED vars => FMInv'
  <1> SUFFICES ASSUME FMInv, UNCHANGED vars PROVE FMInv'
    OBVIOUS
  <1>1. EdgeView' = EdgeView /\ InSecond' = InSecond /\ Moves' = Moves
    BY DEF vars, EdgeView, edgesWeighted, InSecond, Moves, input
  <1>2. QED
    BY <1>1 DEF FMInv, vars, input, TypeInv, StartInv, MovesInv, SizeInv, PrefixInv, TableInv,
                OutcomePromised

\* The invariant of twoWayLocalFM.
THEOREM SpecFMInv == Spec => []FMInv
  <1>1. Init => FMInv
    BY InitFMInv
  <1>2. FMInv /\ [Next]_vars => FMInv'
    <2> SUFFICES ASSUME FMInv, [Next]_vars PROVE FMInv'
      OBVIOUS
    <2>1. CASE ReturnOverloaded
      BY <2>1, ReturnOverloadedStep
    <2>2. CASE FillQueues
      BY <2>2, FillQueuesStep
    <2>3. CASE \E n \in Region : MoveNode(n)
      BY <2>3, MoveNodeStep
    <2>4. CASE RecoverBestCut
      BY <2>4, RecoverBestCutStep
    <2>5. CASE Returned \/ UNCHANGED vars
      BY <2>5, StutterStep DEF Returned
    <2>6. QED
      BY <2>1, <2>2, <2>3, <2>4, <2>5 DEF Next
  <1>3. QED
    BY <1>1, <1>2, PTL DEF Spec

\* The gains that order the queues are never out of date: while nodes are moved, the
\* entry of every node that may still move is what the cut would lose.
THEOREM GainsStayExact == Spec => []GainTableExact
  <1>1. FMInv => GainTableExact
    <2> SUFFICES ASSUME FMInv, pc = "loop", NEW q \in {0, 1}, NEW n \in queue[q]
                 PROVE  gain[n] = CutBetween(EdgeView, BlockNow(0), BlockNow(1))
                          - CutBetween(EdgeView, BlockNow(q) \ {n}, BlockNow(1 - q) \cup {n})
      BY DEF GainTableExact
    <2>1. TypeInv /\ EdgeWeights(EdgeView)
      BY EdgeViewSymmetric DEF FMInv
    <2>2. n \in Region /\ assigned[n] = q /\ gain[n] = Loss(EdgeView, n, q, InSecond)
      BY DEF FMInv, TypeInv, MovesInv, TableInv
    <2>3. /\ n \in Block(q, InSecond) /\ InSecond \in SUBSET Region
          /\ \A p \in {0, 1} : BlockNow(p) = Block(p, InSecond)
      BY <2>1, <2>2, BlocksNow
    <2>4. CutBetween(EdgeView, Block(0, InSecond), Block(1, InSecond))
            - CutBetween(EdgeView, Block(q, InSecond) \ {n}, Block(1 - q, InSecond) \cup {n})
            = Loss(EdgeView, n, q, InSecond)
      BY <2>1, <2>2, <2>3, GainMove
    <2>5. BlockNow(1 - q) = Block(1 - q, InSecond)
      BY <2>3
    <2>6. QED
      BY <2>2, <2>3, <2>4, <2>5
  <1>2. QED
    BY <1>1, SpecFMInv, PTL

\* twoWayLocalFM returns an outcome the distributed refinement counts on: nothing moved
\* and the gain is 0, or the cut fell by the gain and both blocks fit.
THEOREM PromiseKept == Spec => []OutcomePromised
  <1>1. FMInv => OutcomePromised
    BY DEF FMInv
  <1>2. QED
    BY <1>1, SpecFMInv, PTL

(***************************************************************************)
(* twoWayLocalDiffusion.  A node wakes up in the round after a neighbour,  *)
(* so one that is asleep has the load it started with, and so have its     *)
(* neighbours, which are of the same block and have been awake for a round *)
(* at most: they have not changed yet (DiffusionInv).  So no load differs  *)
(* across an edge to a node asleep, and what the active nodes exchange     *)
(* cancels out (SumCancels).  Loads after r rounds can be divided by       *)
(* Inertia as often as rounds are left, so that nothing is rounded; and    *)
(* since a node has fewer neighbours than Inertia, no load outgrows the    *)
(* ones around it.                                                         *)
(***************************************************************************)

\* The states the diffusion may be in, and the nodes that a node exchanges load with.
Loads == [load : [Region -> Int], active : SUBSET Region]
Near(n) == Neighbors(graph, n) \cap Region
Delta(s, n) == MapThenSumSet(LAMBDA m : s.load[m] - s.load[n], Near(n))
Evened(s) == [n \in Region |-> IF n \in s.active THEN s.load[n] + Delta(s, n) \div Inertia
                               ELSE s.load[n]]

LEMMA DiffuseIs ==
  \A s : Diffuse(s) = [load |-> Evened(s),
                       active |-> s.active \cup (Region \cap NeighborsOf(graph, s.active))]
  BY Zenon DEF Diffuse, Evened, Delta, Near

\* The difference in load to the neighbours is a sum.
LEMMA DeltaIsSum ==
  ASSUME NEW s, NEW n
  PROVE  Delta(s, n) = Sum([m \in Near(n) |-> s.load[m] - s.load[n]], Near(n))
  <1> DEFINE D == Near(n)
             f == [m \in D |-> s.load[m] - s.load[n]]
             Deltas(h) == h = [t \in SUBSET D |->
               IF t = {} THEN 0
               ELSE (s.load[CHOOSE x \in t : TRUE] - s.load[n]) + h[t \ {CHOOSE x \in t : TRUE}]]
             k == CHOOSE h : Deltas(h)
  <1>1. Delta(s, n) = k[D]
    BY Zenon DEF Delta, MapThenSumSet, MapThenFoldSet
  <1>2. \A h : Deltas(h) <=> Sums(h, f, D)
    <2>1. \A t \in SUBSET D : t # {} =>
            f[Pick(t)] = s.load[CHOOSE x \in t : TRUE] - s.load[n]
      <3> SUFFICES ASSUME NEW t \in SUBSET D, t # {}
                   PROVE  f[Pick(t)] = s.load[Pick(t)] - s.load[n]
        BY DEF Pick
      <3>1. Pick(t) \in D
        BY PickIn
      <3>2. QED
        BY <3>1
    <2> SUFFICES ASSUME NEW h
                 PROVE  Deltas(h) <=> Sums(h, f, D)
      OBVIOUS
    <2> DEFINE Value(t) == IF t = {} THEN 0
                 ELSE (s.load[CHOOSE x \in t : TRUE] - s.load[n])
                        + h[t \ {CHOOSE x \in t : TRUE}]
               Other(t) == IF t = {} THEN 0 ELSE f[Pick(t)] + h[t \ {Pick(t)}]
    <2>2. \A t \in SUBSET D : Value(t) = Other(t)
      <3> HIDE DEF f
      <3>1. QED
        BY <2>1 DEF Pick
    <2>3. Deltas(h) <=> h = [t \in SUBSET D |-> Value(t)]
      OBVIOUS
    <2>4. Sums(h, f, D) <=> h = [t \in SUBSET D |-> Other(t)]
      BY DEF Sums
    <2> HIDE DEF Value, Other
    <2>5. [t \in SUBSET D |-> Value(t)] = [t \in SUBSET D |-> Other(t)]
      BY <2>2
    <2>6. QED
      BY <2>3, <2>4, <2>5
  <1>3. k = CHOOSE h : Sums(h, f, D)
    <2> HIDE DEF Deltas, f
    <2>1. QED
      BY <1>2
  <1>4. QED
    BY <1>1, <1>3 DEF Sum

\* Neighbours exchange load with each other; there are fewer than Inertia.
LEMMA NearFacts ==
  ASSUME graph \in Graphs, NEW n \in Region
  PROVE  /\ Near(n) \in SUBSET Region /\ IsFiniteSet(Near(n))
         /\ \A m \in Region : m \in Near(n) <=> n \in Near(m)
         /\ \A m \in Region : m \in Near(n) <=> m \in Neighbors(graph, n)
         /\ Inertia \in Nat \ {0} /\ Cardinality(Near(n)) \in Nat
         /\ Cardinality(Near(n)) <= Inertia - 1
  <1>1. /\ graph \in [Visible -> [Visible -> Nat]] /\ Region \subseteq Visible
        /\ \A x, y \in Visible : graph[x][y] = graph[y][x]
        /\ IsFiniteSet(Region) /\ IsFiniteSet(Visible)
    BY FMAssumption, FS_Union DEF Visible
  <1>2. Near(n) \in SUBSET Region /\ IsFiniteSet(Near(n))
    BY <1>1, FS_Subset DEF Near
  <1>3. \A m \in Region : /\ m \in Near(n) <=> m # n /\ graph[n][m] > 0
                          /\ n \in Near(m) <=> m # n /\ graph[m][n] > 0
                          /\ m \in Near(n) <=> m \in Neighbors(graph, n)
    BY <1>1 DEF Near, Neighbors
  <1>4. \A m \in Region : m \in Near(n) <=> n \in Near(m)
    BY <1>1, <1>3
  <1> DEFINE R(x) == {m \in Visible : graph[x][m] # 0}
             S == RegionOf(0) \cup (Visible \ FirstNodes)
             c == [x \in S |-> Cardinality(R(x))]
             C == {Cardinality(R(x)) : x \in S}
  <1>5. n \in S /\ IsFiniteSet(S) /\ S \subseteq Visible
    <2>1. n \in S /\ S \subseteq Visible
      BY <1>1 DEF RegionOf, Side
    <2>2. QED
      BY <1>1, <2>1, FS_Subset
  <1>6. \A x \in S : c[x] \in Nat
    <2>1. \A x \in S : IsFiniteSet(R(x))
      BY <1>1, FS_Subset
    <2> HIDE DEF R, S
    <2>2. QED
      BY <2>1, FS_CardinalityType
  <1>7. PICK x \in S : \A y \in S : c[y] <= c[x]
    <2> HIDE DEF S, c
    <2>1. QED
      BY <1>5, <1>6, FiniteMax
  <1>8. Max(C) \in Nat /\ c[n] <= Max(C)
    <2>1. c[x] \in C /\ \A y \in C : y <= c[x]
      <3> HIDE DEF S, R
      <3>1. QED
        BY <1>7
    <2>2. \E y \in C : \A z \in C : y >= z
      <3>1. \A z \in C : z \in Nat
        BY <1>6
      <3> HIDE DEF C
      <3>2. QED
        BY <2>1, <3>1
    <2>3. Max(C) \in C /\ \A z \in C : Max(C) >= z
      <3> HIDE DEF C
      <3>1. QED
        BY <2>2 DEF Max
    <2>4. \A z \in C : z \in Nat
      BY <1>6
    <2>5. c[n] \in C
      <3> HIDE DEF S, R
      <3>1. QED
        BY <1>5
    <2> HIDE DEF C, c
    <2>6. QED
      BY <2>3, <2>4, <2>5
  <1>9. Inertia = 1 + Max(C)
    BY DEF Inertia
  <1>10. Cardinality(Near(n)) <= c[n] /\ Cardinality(Near(n)) \in Nat /\ c[n] \in Nat
    <2>1. Near(n) \subseteq R(n) /\ IsFiniteSet(R(n))
      <3>1. \A m \in Region : graph[n][m] > 0 => graph[n][m] # 0
        BY <1>1
      <3>2. IsFiniteSet(R(n))
        BY <1>1, FS_Subset
      <3>3. QED
        BY <1>1, <1>2, <1>3, <3>1, <3>2
    <2> HIDE DEF R
    <2>2. Cardinality(Near(n)) <= Cardinality(R(n)) /\ Cardinality(Near(n)) \in Nat
      BY <2>1, <1>2, FS_Subset, FS_CardinalityType
    <2>3. c[n] = Cardinality(R(n)) /\ c[n] \in Nat
      BY <1>5, <1>6
    <2>4. QED
      BY <2>2, <2>3
  <1> HIDE DEF C, c, S
  <1>11. QED
    BY <1>2, <1>3, <1>4, <1>8, <1>9, <1>10

\* What an active node gets is an integer, and the loads stay loads.
LEMMA DiffuseType ==
  ASSUME graph \in Graphs, NEW s \in Loads
  PROVE  /\ \A n \in Region : Delta(s, n) \in Int
         /\ Diffuse(s) \in Loads
  <1>1. s.load \in [Region -> Int] /\ s.active \in SUBSET Region
    BY DEF Loads
  <1>2. ASSUME NEW n \in Region PROVE Delta(s, n) \in Int /\ Inertia \in Nat \ {0}
    <2> DEFINE f == [m \in Near(n) |-> s.load[m] - s.load[n]]
    <2>1. Near(n) \in SUBSET Region /\ IsFiniteSet(Near(n)) /\ Inertia \in Nat \ {0}
      BY NearFacts
    <2>2. \A m \in Near(n) : f[m] \in Int
      BY <1>1, <2>1
    <2> HIDE DEF f
    <2>3. Sum(f, Near(n)) \in Int
      BY <2>1, <2>2, SumType
    <2>4. QED
      BY <2>1, <2>3, DeltaIsSum DEF f
  <1>3. Evened(s) \in [Region -> Int]
    <2>1. \A a \in Int : \A b \in Nat \ {0} : a \div b \in Int
      OBVIOUS
    <2>2. QED
      BY <1>1, <1>2, <2>1 DEF Evened
  <1>4. QED
    BY <1>1, <1>2, <1>3, DiffuseIs DEF Loads

\* The powers of Inertia.
LEMMA ScaleFacts ==
  ASSUME graph \in Graphs, Region # {}
  PROVE  /\ DiffusionRounds \in Nat /\ Inertia \in Nat \ {0}
         /\ Scale[0] = 1
         /\ \A r \in 0 .. DiffusionRounds : Scale[r] \in Nat \ {0}
         /\ \A r \in 1 .. DiffusionRounds : Scale[r] = Scale[r - 1] * Inertia
  <1>1. DiffusionRounds \in Nat /\ Inertia \in Nat \ {0}
    BY FMAssumption, NearFacts
  <1> DEFINE S == Nat \ {0}
             G == [x \in S |-> x * Inertia]
             Scales(h) == h = [r \in 0 .. DiffusionRounds |->
                                 IF r = 0 THEN 1 ELSE h[r - 1] * Inertia]
  <1>2. G \in [S -> S]
    <2>1. \A a, b \in Nat \ {0} : a * b \in Nat \ {0}
      OBVIOUS
    <2>2. QED
      BY <1>1, <2>1
  <1>3. PICK h : Iterates(h, DiffusionRounds, S, 1, G)
    <2>1. 1 \in S
      OBVIOUS
    <2> HIDE DEF S, G
    <2>2. QED
      BY <1>1, <1>2, <2>1, RecursionExists
  <1>4. Scales(h)
    <2> DEFINE d(r) == IF r = 0 THEN 1 ELSE h[r - 1] * Inertia
    <2>1. \A r \in 0 .. DiffusionRounds : h[r] = d(r)
      <3>1. /\ h \in [0 .. DiffusionRounds -> S] /\ h[0] = 1
            /\ \A r \in 0 .. (DiffusionRounds - 1) : h[r + 1] = h[r] * Inertia
        <4>1. /\ h \in [0 .. DiffusionRounds -> S] /\ h[0] = 1
              /\ \A r \in 0 .. (DiffusionRounds - 1) : h[r + 1] = G[h[r]]
          BY <1>3 DEF Iterates
        <4>2. \A r \in 0 .. (DiffusionRounds - 1) : r \in 0 .. DiffusionRounds
          BY <1>1
        <4>3. \A r \in 0 .. (DiffusionRounds - 1) : h[r] \in S
          BY <4>1, <4>2
        <4>4. QED
          BY <4>1, <4>3
      <3>2. \A r \in 0 .. DiffusionRounds :
              r # 0 => r - 1 \in 0 .. (DiffusionRounds - 1) /\ (r - 1) + 1 = r
        BY <1>1
      <3>3. QED
        BY <3>1, <3>2
    <2>2. h = [r \in 0 .. DiffusionRounds |-> h[r]]
      BY <1>3 DEF Iterates
    <2> HIDE DEF d
    <2>3. h = [r \in 0 .. DiffusionRounds |-> d(r)]
      BY <2>1, <2>2
    <2>4. QED
      BY <2>3 DEF d
  <1>5. Scale = CHOOSE g : Scales(g)
    BY Zenon DEF Scale
  <1>6. Scales(Scale)
    <2> HIDE DEF Scales
    <2>1. QED
      BY <1>4, <1>5
  <1>7. /\ Scale[0] = 1
        /\ \A r \in 1 .. DiffusionRounds : Scale[r] = Scale[r - 1] * Inertia
    <2>1. 0 \in 0 .. DiffusionRounds
          /\ \A r \in 1 .. DiffusionRounds : r \in 0 .. DiffusionRounds /\ r # 0
      BY <1>1
    <2> DEFINE d(r) == IF r = 0 THEN 1 ELSE Scale[r - 1] * Inertia
    <2>2. \A r \in 0 .. DiffusionRounds : Scale[r] = d(r)
      <3>1. Scale = [r \in 0 .. DiffusionRounds |-> d(r)]
        BY <1>6
      <3> HIDE DEF d
      <3>2. QED
        BY <3>1
    <2>3. QED
      BY <2>1, <2>2
  <1>8. \A r \in 0 .. DiffusionRounds : Scale[r] \in Nat \ {0}
    <2> DEFINE T == {r \in Nat : r <= DiffusionRounds /\ Scale[r] \notin Nat \ {0}}
    <2>1. SUFFICES ASSUME T # {} PROVE FALSE
      BY <1>1
    <2>2. PICK r \in T : \A j \in T : r <= j
      <3>1. T \in SUBSET Nat
        OBVIOUS
      <3> HIDE DEF T
      <3>2. QED
        BY <2>1, <3>1, LeastNatural
    <2>3. r # 0 /\ r \in Nat /\ r <= DiffusionRounds /\ Scale[r] \notin Nat \ {0}
      BY <1>7
    <2>4. r - 1 \in Nat /\ r - 1 <= DiffusionRounds /\ ~ (r <= r - 1) /\ r \in 1 .. DiffusionRounds
      BY <1>1, <2>3
    <2>5. Scale[r - 1] \in Nat \ {0}
      BY <2>2, <2>4
    <2>6. \A a, b \in Nat \ {0} : a * b \in Nat \ {0}
      OBVIOUS
    <2>7. QED
      BY <1>1, <1>7, <2>3, <2>4, <2>5, <2>6
  <1>9. QED
    BY <1>1, <1>7, <1>8

\* What the two blocks start with.
LEMMA InitialFacts ==
  ASSUME graph \in Graphs, Region # {},
         NEW c0, c0 = Cardinality(RegionOf(0)), NEW c1, c1 = Cardinality(RegionOf(1)),
         NEW top, top = Scale[DiffusionRounds]
  PROVE  /\ c0 \in Nat /\ c1 \in Nat /\ top \in Nat \ {0}
         /\ LoadUnit = c0 * c1 * top /\ LoadUnit \in Nat
         /\ IsFiniteSet(RegionOf(0)) /\ IsFiniteSet(RegionOf(1))
         /\ RegionOf(0) \cup RegionOf(1) = Region /\ RegionOf(0) \cap RegionOf(1) = {}
         /\ \A n \in RegionOf(0) : c0 > 0 /\ InitialLoads.load[n] = c1 * top
         /\ \A n \in RegionOf(1) : c1 > 0 /\ InitialLoads.load[n] = - (c0 * top)
         /\ InitialLoads \in Loads /\ InitialLoads.active = SecondRound
  <1>1. top \in Nat \ {0}
    BY ScaleFacts
  <1>2. /\ IsFiniteSet(RegionOf(0)) /\ IsFiniteSet(RegionOf(1))
        /\ RegionOf(0) \cup RegionOf(1) = Region /\ RegionOf(0) \cap RegionOf(1) = {}
    <2>1. IsFiniteSet(Region)
      BY FMAssumption
    <2>2. RegionOf(0) \subseteq Region /\ RegionOf(1) \subseteq Region
      BY DEF RegionOf
    <2>3. QED
      BY <2>1, <2>2, FS_Subset DEF RegionOf, Side
  <1>3. c0 \in Nat /\ c1 \in Nat
    BY <1>2, FS_CardinalityType
  <1>4. LoadUnit = c0 * c1 * top
    BY Zenon DEF LoadUnit
  <1>5. LoadUnit \in Nat
    <2>1. \A a, b \in Nat : a * b \in Nat
      OBVIOUS
    <2>2. QED
      BY <1>1, <1>3, <1>4, <2>1
  <1>6. /\ RegionOf(0) # {} => c0 > 0
        /\ RegionOf(1) # {} => c1 > 0
    BY <1>2, <1>3, FS_EmptySet
  <1>7. \A a \in Nat, b \in Nat, c \in Nat :
          /\ a > 0 => (a * b * c) \div a = b * c
          /\ b > 0 => (a * b * c) \div b = a * c
          /\ - (a * c) \in Int /\ b * c \in Int
    <2>1. \A a \in Nat, d \in Int : a > 0 => (a * d) \div a = d
      OBVIOUS
    <2>2. \A a, b, c \in Nat : a * b * c = a * (b * c) /\ a * b * c = b * (a * c)
                               /\ b * c \in Int /\ a * c \in Int
      OBVIOUS
    <2>3. QED
      BY <2>1, <2>2
  <1>8. InitialLoads = [load |-> [n \in Region |->
                           IF Side(n) = 0 THEN LoadUnit \div c0 ELSE - (LoadUnit \div c1)],
                        active |-> SecondRound]
    BY Zenon DEF InitialLoads
  <1>9. \A n \in Region : n \in RegionOf(0) <=> Side(n) = 0
    BY DEF RegionOf
  <1>10. \A n \in RegionOf(0) : c0 > 0 /\ InitialLoads.load[n] = c1 * top
    BY <1>1, <1>2, <1>3, <1>4, <1>6, <1>7, <1>8, <1>9
  <1>11. \A n \in RegionOf(1) : c1 > 0 /\ InitialLoads.load[n] = - (c0 * top)
    BY <1>1, <1>2, <1>3, <1>4, <1>6, <1>7, <1>8, <1>9
  <1>12. InitialLoads \in Loads /\ InitialLoads.active = SecondRound
    <2>1. \A n \in Region : InitialLoads.load[n] \in Int
      <3>1. c1 * top \in Int /\ - (c0 * top) \in Int
        BY <1>1, <1>3, <1>7
      <3>2. QED
        BY <1>2, <1>10, <1>11, <3>1
    <2> DEFINE l == InitialLoads.load
    <2>2. l = [n \in Region |-> l[n]] /\ InitialLoads = [load |-> l, active |-> SecondRound]
      BY <1>8
    <2>3. SecondRound \in SUBSET Region
      BY DEF SecondRound
    <2> HIDE DEF l
    <2>4. l \in [Region -> Int]
      BY <2>1, <2>2 DEF l
    <2>5. QED
      BY <2>2, <2>3, <2>4 DEF Loads
  <1>13. QED
    BY <1>1, <1>2, <1>3, <1>4, <1>5, <1>10, <1>11, <1>12

\* What holds of the diffusion after r rounds: only nodes with the same initial load as
\* all their neighbours are asleep, and whoever borders one of them has his own still;
\* the loads add up to nothing, and can be divided without a rest.
DiffusionInv(r, s) ==
  /\ s \in Loads
  /\ SecondRound \subseteq s.active
  /\ \A n \in Region \ s.active : s.load[n] = InitialLoads.load[n]
  /\ \A n \in s.active : \A m \in Near(n) \ s.active : s.load[n] = InitialLoads.load[n]
  /\ Sum(s.load, Region) = 0
  /\ \A n \in Region : - LoadUnit <= s.load[n] /\ s.load[n] <= LoadUnit
  /\ \A n \in Region : \E k \in Int : s.load[n] = Scale[DiffusionRounds - r] * k

\* The diffusion starts well.
LEMMA InitialDiffusion ==
  ASSUME graph \in Graphs, Region # {}
  PROVE  DiffusionInv(0, InitialLoads)
  <1> DEFINE c0 == Cardinality(RegionOf(0))
             c1 == Cardinality(RegionOf(1))
             top == Scale[DiffusionRounds]
             l == InitialLoads.load
             R0 == RegionOf(0)
             R1 == RegionOf(1)
  <1>1. /\ c0 \in Nat /\ c1 \in Nat /\ top \in Nat \ {0}
        /\ LoadUnit = c0 * c1 * top /\ LoadUnit \in Nat
        /\ IsFiniteSet(R0) /\ IsFiniteSet(R1) /\ R0 \cup R1 = Region /\ R0 \cap R1 = {}
        /\ \A n \in R0 : c0 > 0 /\ l[n] = c1 * top
        /\ \A n \in R1 : c1 > 0 /\ l[n] = - (c0 * top)
        /\ InitialLoads \in Loads /\ InitialLoads.active = SecondRound
    <2> HIDE DEF c0, c1, top
    <2>1. QED
      BY InitialFacts DEF c0, c1, top
  <1>2. l \in [Region -> Int]
    BY <1>1 DEF Loads
  <1> HIDE DEF c0, c1, top, l, R0, R1
  <1>3. c1 * top \in Int /\ - (c0 * top) \in Int
    BY <1>1
  <1>4. Sum(l, Region) = 0
    <2>1. Sum(l, Region) = Sum(l, R0) + Sum(l, R1)
      BY <1>1, <1>2, SumUnion
    <2>2. Sum(l, R0) = c0 * (c1 * top)
      <3>1. \A n \in R0 : l[n] \in Int /\ c1 * top <= l[n] /\ l[n] <= c1 * top
        BY <1>1, <1>3
      <3>2. c0 * (c1 * top) <= Sum(l, R0) /\ Sum(l, R0) <= c0 * (c1 * top)
        BY <1>1, <1>3, <3>1, SumBetween DEF c0, R0
      <3>3. Sum(l, R0) \in Int /\ c0 * (c1 * top) \in Int
        BY <1>1, <1>3, <3>1, SumType
      <3>4. QED
        BY <3>2, <3>3
    <2>3. Sum(l, R1) = c1 * (- (c0 * top))
      <3>1. \A n \in R1 : l[n] \in Int /\ - (c0 * top) <= l[n] /\ l[n] <= - (c0 * top)
        BY <1>1, <1>3
      <3>2. c1 * (- (c0 * top)) <= Sum(l, R1) /\ Sum(l, R1) <= c1 * (- (c0 * top))
        BY <1>1, <1>3, <3>1, SumBetween DEF c1, R1
      <3>3. Sum(l, R1) \in Int /\ c1 * (- (c0 * top)) \in Int
        BY <1>1, <1>3, <3>1, SumType
      <3>4. QED
        BY <3>2, <3>3
    <2>4. c0 * (c1 * top) + c1 * (- (c0 * top)) = 0
      BY <1>1
    <2>5. QED
      BY <2>1, <2>2, <2>3, <2>4
  <1>5. ASSUME NEW n \in Region
        PROVE  /\ - LoadUnit <= l[n] /\ l[n] <= LoadUnit
               /\ \E k \in Int : l[n] = top * k
    <2>1. CASE n \in R0
      <3>1. c0 >= 1 /\ l[n] = c1 * top
        BY <1>1, <2>1
      <3>2. \A a, b \in Nat : a >= 1 => b <= a * b
        OBVIOUS
      <3>3. c1 * top \in Nat /\ c0 * (c1 * top) = LoadUnit
        BY <1>1
      <3>4. c1 * top <= LoadUnit
        BY <1>1, <3>1, <3>2, <3>3
      <3>5. l[n] = top * c1 /\ c1 \in Int
        BY <1>1, <3>1
      <3>6. QED
        BY <1>1, <3>1, <3>3, <3>4, <3>5
    <2>2. CASE n \in R1
      <3>1. c1 >= 1 /\ l[n] = - (c0 * top)
        BY <1>1, <2>2
      <3>2. \A a, b \in Nat : a >= 1 => b <= a * b
        OBVIOUS
      <3>3. c0 * top \in Nat /\ c1 * (c0 * top) = LoadUnit
        BY <1>1
      <3>4. c0 * top <= LoadUnit
        BY <1>1, <3>1, <3>2, <3>3
      <3>5. l[n] = top * (- c0) /\ - c0 \in Int
        BY <1>1, <3>1
      <3>6. QED
        BY <1>1, <3>1, <3>3, <3>4, <3>5
    <2>3. QED
      BY <1>1, <2>1, <2>2
  <1>6. DiffusionRounds - 0 = DiffusionRounds
    BY ScaleFacts
  <1>7. QED
    BY <1>1, <1>4, <1>5, <1>6 DEF DiffusionInv, l, top

\* No load differs across an edge to a node asleep.
LEMMA SleepersEven ==
  ASSUME graph \in Graphs, NEW r, NEW s, DiffusionInv(r, s),
         NEW n \in s.active, NEW m \in Near(n) \ s.active
  PROVE  s.load[m] = s.load[n]
  <1>1. s.active \in SUBSET Region /\ n \in Region
    BY DEF DiffusionInv, Loads
  <1>2. m \in Region /\ n \in Near(m) /\ n \in Neighbors(graph, m)
    BY <1>1, NearFacts
  <1>3. m \notin SecondRound
    BY DEF DiffusionInv
  <1>4. Side(n) = Side(m)
    BY <1>2, <1>3 DEF SecondRound
  <1>5. InitialLoads.load[n] = InitialLoads.load[m]
    BY <1>1, <1>2, <1>4 DEF InitialLoads
  <1>6. s.load[n] = InitialLoads.load[n] /\ s.load[m] = InitialLoads.load[m]
    BY <1>2 DEF DiffusionInv
  <1>7. QED
    BY <1>5, <1>6

\* What the active nodes get adds up to nothing.
LEMMA FlowCancels ==
  ASSUME graph \in Graphs, NEW r, NEW s, DiffusionInv(r, s),
         NEW flow, \A n \in s.active : flow[n] = Delta(s, n)
  PROVE  Sum(flow, s.active) = 0
  <1>1. s.active \in SUBSET Region /\ s.load \in [Region -> Int] /\ IsFiniteSet(s.active)
    BY FMAssumption, FS_Subset DEF DiffusionInv, Loads
  <1>2. PICK A, v : A = s.active /\ v = s.load
    OBVIOUS
  <1>3. PICK N : N = [n \in A |-> Near(n) \cap A]
    OBVIOUS
  <1>4. \A n \in A : N[n] \in SUBSET A
    BY <1>3
  <1>5. \A n, m \in A : m \in N[n] <=> n \in N[m]
    BY <1>1, <1>2, <1>3, NearFacts
  <1>6. ASSUME NEW n \in A
        PROVE  flow[n] = Sum([m \in N[n] |-> v[m] - v[n]], N[n])
    <2>1. PICK M : M = Near(n)
      OBVIOUS
    <2>2. M \in SUBSET Region /\ IsFiniteSet(M) /\ n \in Region
      BY <1>1, <1>2, <2>1, NearFacts
    <2>3. PICK f : f = [m \in M |-> v[m] - v[n]]
      OBVIOUS
    <2>4. \A m \in M : f[m] \in Int /\ (m \notin A => f[m] = 0)
      <3>1. \A m \in M : v[m] \in Int /\ v[n] \in Int
        BY <1>1, <1>2, <2>2
      <3>2. \A m \in M : m \notin A => v[m] = v[n]
        BY <1>2, <2>1, SleepersEven
      <3>3. QED
        BY <2>3, <3>1, <3>2
    <2>5. Sum(f, M) = Sum(f, M \cap A) + Sum(f, M \ A)
      <3>1. IsFiniteSet(M \cap A) /\ IsFiniteSet(M \ A)
        BY <2>2, FS_Subset
      <3>2. M = (M \cap A) \cup (M \ A) /\ (M \cap A) \cap (M \ A) = {}
        OBVIOUS
      <3>3. PICK X, Y : X = M \cap A /\ Y = M \ A
        OBVIOUS
      <3>4. Sum(f, X \cup Y) = Sum(f, X) + Sum(f, Y)
        <4>1. \A m \in X \cup Y : f[m] \in Int
          BY <2>4, <3>3
        <4>2. X \cap Y = {} /\ IsFiniteSet(X) /\ IsFiniteSet(Y)
          BY <3>1, <3>3
        <4>3. QED
          BY ONLY <4>1, <4>2, SumUnion
      <3>5. QED
        BY <3>2, <3>3, <3>4
    <2>6. Sum(f, M \ A) = 0
      BY <2>2, <2>4, FS_Subset, SumZero
    <2>7. Sum(f, M \cap A) \in Int
      BY <2>2, <2>4, FS_Subset, SumType
    <2>8. flow[n] = Sum(f, M \cap A)
      <3>1. flow[n] = Sum(f, M)
        BY <1>2, <2>1, <2>3, DeltaIsSum
      <3>2. QED
        BY <2>5, <2>6, <2>7, <3>1
    <2>9. Sum(f, M \cap A) = Sum([m \in N[n] |-> v[m] - v[n]], N[n])
      <3>1. N[n] = M \cap A /\ IsFiniteSet(N[n])
        BY <1>3, <2>1, <2>2, FS_Subset
      <3>2. PICK g : g = [m \in N[n] |-> v[m] - v[n]]
        OBVIOUS
      <3>3. \A m \in N[n] : f[m] = g[m]
        BY <2>3, <3>1, <3>2
      <3>4. Sum(f, N[n]) = Sum(g, N[n])
        BY <3>1, <3>3, SumSame
      <3>5. QED
        BY <3>1, <3>2, <3>4
    <2>10. QED
      BY <2>8, <2>9
  <1>7. \A n \in A : v[n] \in Int
    BY <1>1, <1>2
  <1>8. IsFiniteSet(A)
    BY <1>1, <1>2
  <1>9. PICK w : w = flow
    OBVIOUS
  <1>10. \A n \in A : w[n] = Sum([m \in N[n] |-> v[m] - v[n]], N[n])
    BY <1>6, <1>9
  <1>11. Sum(w, A) = 0
    BY ONLY <1>4, <1>5, <1>7, <1>8, <1>10, SumCancels
  <1>12. QED
    BY <1>2, <1>9, <1>11

\* What a node gets in a round is a whole part of what it could get, and takes it no
\* further than the largest load.
LEMMA GetsFacts ==
  ASSUME graph \in Graphs, Region # {}, NEW r \in 0 .. (DiffusionRounds - 1), NEW s,
         DiffusionInv(r, s), NEW n \in Region, NEW q, q = Delta(s, n) \div Inertia
  PROVE  /\ q \in Int /\ Delta(s, n) = Inertia * q
         /\ \E k \in Int : q = Scale[DiffusionRounds - (r + 1)] * k
         /\ - LoadUnit <= s.load[n] + q /\ s.load[n] + q <= LoadUnit
  <1>1. PICK v, M, I, c, e : /\ v = s.load /\ M = Near(n) /\ I = Inertia
                             /\ c = Scale[DiffusionRounds - r]
                             /\ e = Scale[DiffusionRounds - (r + 1)]
    OBVIOUS
  <1>2. v \in [Region -> Int]
    BY <1>1 DEF DiffusionInv, Loads
  <1>3. /\ M \in SUBSET Region /\ IsFiniteSet(M) /\ I \in Nat \ {0}
        /\ Cardinality(M) \in Nat /\ Cardinality(M) <= I - 1
    BY <1>1, NearFacts
  <1>4. e \in Nat \ {0} /\ c = e * I
    <2>1. /\ DiffusionRounds \in Nat
          /\ \A x \in 0 .. DiffusionRounds : Scale[x] \in Nat \ {0}
          /\ \A x \in 1 .. DiffusionRounds : Scale[x] = Scale[x - 1] * Inertia
      BY ScaleFacts
    <2>2. /\ DiffusionRounds - r \in 1 .. DiffusionRounds
          /\ DiffusionRounds - (r + 1) = (DiffusionRounds - r) - 1
          /\ DiffusionRounds - (r + 1) \in 0 .. DiffusionRounds
      BY <2>1
    <2>3. QED
      BY <1>1, <2>1, <2>2
  <1>5. PICK L : L = LoadUnit
    OBVIOUS
  <1>6. L \in Nat /\ \A x \in Region : - L <= v[x] /\ v[x] <= L
    <2>1. LoadUnit \in Nat
      BY InitialFacts
    <2>2. QED
      BY <1>1, <1>5, <2>1 DEF DiffusionInv
  <1>7. PICK f : f = [m \in M |-> v[m] - v[n]]
    OBVIOUS
  <1>8. Delta(s, n) = Sum(f, M)
    BY <1>1, <1>7, DeltaIsSum
  <1>9. \A m \in M : f[m] \in Int /\ - L - v[n] <= f[m] /\ f[m] <= L - v[n]
    <2>1. ASSUME NEW m \in M
          PROVE  f[m] \in Int /\ - L - v[n] <= f[m] /\ f[m] <= L - v[n]
      <3>1. v[m] \in Int /\ v[n] \in Int /\ - L <= v[m] /\ v[m] <= L /\ f[m] = v[m] - v[n]
        BY <1>2, <1>3, <1>6, <1>7
      <3>2. QED
        BY <1>6, <3>1
    <2>2. QED
      BY <2>1
  <1>10. \E k \in Int : Sum(f, M) = c * k
    <2>1. \A x \in Region : \E k \in Int : v[x] = c * k
      BY <1>1 DEF DiffusionInv
    <2>2. PICK K : K = [x \in Region |-> CHOOSE k \in Int : v[x] = c * k]
      OBVIOUS
    <2>3. \A x \in Region : K[x] \in Int /\ v[x] = c * K[x]
      BY <2>1, <2>2
    <2>4. PICK g : g = [m \in M |-> K[m] - K[n]]
      OBVIOUS
    <2>5. c \in Int
      BY <1>3, <1>4
    <2>6. \A m \in M : g[m] \in Int /\ f[m] = c * g[m]
      <3>1. ASSUME NEW m \in M PROVE g[m] \in Int /\ f[m] = c * g[m]
        <4>1. /\ K[m] \in Int /\ K[n] \in Int /\ v[m] = c * K[m] /\ v[n] = c * K[n]
              /\ g[m] = K[m] - K[n] /\ f[m] = v[m] - v[n]
          BY <1>3, <1>7, <2>3, <2>4
        <4>2. \A a, b \in Int : c * (a - b) = c * a - c * b
          BY <2>5
        <4>3. QED
          BY <4>1, <4>2
      <3>2. QED
        BY <3>1
    <2>7. Sum(f, M) = c * Sum(g, M)
      BY ONLY <1>3, <2>5, <2>6, SumScale
    <2>8. Sum(g, M) \in Int
      BY ONLY <1>3, <2>6, SumType
    <2>9. QED
      BY <2>7, <2>8
  <1>11. PICK k \in Int : Sum(f, M) = c * k
    BY <1>10
  <1>12. Sum(f, M) = I * (e * k) /\ e * k \in Int
    BY <1>3, <1>4, <1>11
  <1>13. q = e * k
    <2>1. \A a \in Nat \ {0}, b \in Int : (a * b) \div a = b
      OBVIOUS
    <2>2. QED
      BY <1>1, <1>3, <1>8, <1>12, <2>1
  <1>14. Delta(s, n) = Inertia * q /\ q \in Int
    BY <1>1, <1>8, <1>12, <1>13
  <1>15. - L <= v[n] + q /\ v[n] + q <= L
    <2>1. v[n] \in Int /\ - L <= v[n] /\ v[n] <= L
      BY <1>2, <1>6
    <2>2. PICK a, b : a = L - v[n] /\ b = - L - v[n]
      OBVIOUS
    <2>3. a \in Int /\ b \in Int /\ a >= 0 /\ b <= 0
      BY <1>6, <2>1, <2>2
    <2>4. PICK j : j = Cardinality(M)
      OBVIOUS
    <2>5. j * b <= Sum(f, M) /\ Sum(f, M) <= j * a
      <3>1. \A m \in M : f[m] \in Int /\ b <= f[m] /\ f[m] <= a
        BY <1>9, <2>2
      <3>2. QED
        BY ONLY <1>3, <2>3, <2>4, <3>1, SumBetween
    <2>6. j \in Nat /\ j <= I /\ I \in Nat \ {0}
      BY <1>3, <2>4
    <2>7. j * a <= I * a /\ I * b <= j * b
      BY <2>3, <2>6
    <2>8. I * q <= I * a /\ I * b <= I * q
      <3>1. Sum(f, M) = I * q /\ I * q \in Int
        BY <1>12, <1>13, <1>3
      <3>2. I * a \in Int /\ I * b \in Int /\ j * a \in Int /\ j * b \in Int
        BY <2>3, <2>6
      <3>3. QED
        BY <2>5, <2>7, <3>1, <3>2
    <2>9. q <= a /\ b <= q
      BY <1>14, <2>3, <2>6, <2>8
    <2>10. QED
      BY <1>6, <1>14, <2>1, <2>2, <2>9
  <1>16. QED
    BY <1>1, <1>5, <1>13, <1>14, <1>15

\* A round of the diffusion.
LEMMA DiffuseKeeps ==
  ASSUME graph \in Graphs, Region # {}, NEW r \in 0 .. (DiffusionRounds - 1), NEW s,
         DiffusionInv(r, s)
  PROVE  DiffusionInv(r + 1, Diffuse(s))
  <1>1. PICK t : t = Diffuse(s)
    OBVIOUS
  <1>2. /\ s \in Loads /\ s.load \in [Region -> Int] /\ s.active \in SUBSET Region
        /\ t \in Loads /\ t.load \in [Region -> Int] /\ t.active \in SUBSET Region
    <2>1. s \in Loads
      BY DEF DiffusionInv
    <2>2. t \in Loads
      BY <1>1, <2>1, DiffuseType
    <2>3. QED
      BY <2>1, <2>2 DEF Loads
  <1>3. t.load = Evened(s) /\ t.active = s.active \cup (Region \cap NeighborsOf(graph, s.active))
    BY <1>1, DiffuseIs
  <1>4. ASSUME NEW n \in s.active, NEW m \in Near(n) PROVE m \in t.active
    BY <1>3 DEF NeighborsOf, Near
  <1>5. PICK d : d = [n \in Region |-> IF n \in s.active THEN Delta(s, n) \div Inertia ELSE 0]
    OBVIOUS
  <1>6. ASSUME NEW n \in Region
        PROVE  /\ d[n] \in Int /\ t.load[n] = s.load[n] + d[n]
               /\ n \in s.active => Delta(s, n) = Inertia * d[n]
               /\ \E k \in Int : d[n] = Scale[DiffusionRounds - (r + 1)] * k
               /\ - LoadUnit <= t.load[n] /\ t.load[n] <= LoadUnit
    <2>1. s.load[n] \in Int /\ Scale[DiffusionRounds - (r + 1)] * 0 = 0
      <3>1. DiffusionRounds \in Nat /\ \A x \in 0 .. DiffusionRounds : Scale[x] \in Nat \ {0}
        BY ScaleFacts
      <3>2. DiffusionRounds - (r + 1) \in 0 .. DiffusionRounds
        BY <3>1
      <3>3. QED
        BY <1>2, <3>1, <3>2
    <2>2. CASE n \in s.active
      <3>1. d[n] = Delta(s, n) \div Inertia /\ t.load[n] = s.load[n] + d[n]
        BY <1>3, <1>5, <2>2 DEF Evened
      <3>2. QED
        BY <3>1, GetsFacts
    <2>3. CASE n \notin s.active
      <3>1. d[n] = 0 /\ t.load[n] = s.load[n]
        BY <1>3, <1>5, <2>3 DEF Evened
      <3>2. - LoadUnit <= s.load[n] /\ s.load[n] <= LoadUnit
        BY DEF DiffusionInv
      <3>3. QED
        BY <2>1, <2>3, <3>1, <3>2
    <2>4. QED
      BY <2>2, <2>3
  <1>7. ASSUME NEW n \in Region \ t.active PROVE t.load[n] = InitialLoads.load[n]
    <2>1. n \notin s.active /\ t.load[n] = s.load[n]
      BY <1>3 DEF Evened
    <2>2. QED
      BY <2>1 DEF DiffusionInv
  <1>8. ASSUME NEW n \in t.active, NEW m \in Near(n) \ t.active
        PROVE  t.load[n] = InitialLoads.load[n]
    <2>1. n \notin s.active /\ n \in Region
      BY <1>2, <1>4
    <2>2. t.load[n] = s.load[n]
      BY <1>3, <2>1 DEF Evened
    <2>3. QED
      BY <2>1, <2>2 DEF DiffusionInv
  <1>9. Sum(t.load, Region) = 0
    <2>1. PICK A, B, v, w, I : /\ A = s.active /\ B = Region \ A /\ v = s.load
                               /\ w = t.load /\ I = Inertia
      OBVIOUS
    <2>2. /\ IsFiniteSet(Region) /\ IsFiniteSet(A) /\ IsFiniteSet(B)
          /\ A \cup B = Region /\ A \cap B = {} /\ I \in Nat \ {0}
      BY <1>2, <2>1, FMAssumption, FS_Subset, ScaleFacts
    <2>3. \A n \in Region : v[n] \in Int /\ d[n] \in Int /\ w[n] = v[n] + d[n]
      BY <1>2, <1>6, <2>1
    <2>4. Sum(w, Region) = Sum(v, Region) + Sum(d, Region)
      BY ONLY <2>2, <2>3, SumAdd
    <2>5. Sum(d, A \cup B) = Sum(d, A) + Sum(d, B)
      <3>1. \A n \in A \cup B : d[n] \in Int
        BY <2>2, <2>3
      <3>2. QED
        BY ONLY <2>2, <3>1, SumUnion
    <2>6. Sum(d, B) = 0
      <3>1. \A n \in B : d[n] = 0
        BY <1>5, <2>1
      <3>2. QED
        BY ONLY <2>2, <3>1, SumZero
    <2>7. Sum(d, A) = 0
      <3>1. PICK flow : flow = [n \in A |-> I * d[n]]
        OBVIOUS
      <3>2. \A n \in s.active : flow[n] = Delta(s, n)
        BY <1>2, <1>6, <2>1, <3>1
      <3>3. Sum(flow, A) = 0
        BY <2>1, <3>2, FlowCancels
      <3>4. \A n \in A : d[n] \in Int /\ flow[n] = I * d[n]
        BY <2>2, <2>3, <3>1
      <3>5. I \in Int
        BY <2>2
      <3>6. Sum(flow, A) = I * Sum(d, A)
        BY ONLY <2>2, <3>4, <3>5, SumScale
      <3>7. Sum(d, A) \in Int
        BY ONLY <2>2, <3>4, SumType
      <3>8. \A x \in Int : I * x = 0 => x = 0
        BY <2>2
      <3>9. QED
        BY <3>3, <3>6, <3>7, <3>8
    <2>8. Sum(v, Region) = 0
      BY <2>1 DEF DiffusionInv
    <2>9. QED
      BY <2>1, <2>2, <2>4, <2>5, <2>6, <2>7, <2>8
  <1>10. ASSUME NEW n \in Region
         PROVE  \E k \in Int : t.load[n] = Scale[DiffusionRounds - (r + 1)] * k
    <2>1. PICK c, e, I, x, y : /\ c = Scale[DiffusionRounds - r] /\ I = Inertia
                               /\ e = Scale[DiffusionRounds - (r + 1)]
                               /\ x = s.load[n] /\ y = d[n]
      OBVIOUS
    <2>2. e \in Nat \ {0} /\ I \in Nat \ {0} /\ c = e * I
      <3>1. /\ DiffusionRounds \in Nat /\ Inertia \in Nat \ {0}
            /\ \A j \in 0 .. DiffusionRounds : Scale[j] \in Nat \ {0}
            /\ \A j \in 1 .. DiffusionRounds : Scale[j] = Scale[j - 1] * Inertia
        BY ScaleFacts
      <3>2. /\ DiffusionRounds - r \in 1 .. DiffusionRounds
            /\ DiffusionRounds - (r + 1) = (DiffusionRounds - r) - 1
            /\ DiffusionRounds - (r + 1) \in 0 .. DiffusionRounds
        BY <3>1
      <3>3. QED
        BY <2>1, <3>1, <3>2
    <2>3. PICK k \in Int : x = c * k
      BY <2>1 DEF DiffusionInv
    <2>4. PICK j \in Int : y = e * j
      BY <1>6, <2>1
    <2>5. e * I * k + e * j = e * (I * k + j) /\ I * k + j \in Int
      BY <2>2
    <2>6. t.load[n] = e * (I * k + j)
      BY <1>6, <2>1, <2>2, <2>3, <2>4, <2>5
    <2>7. QED
      BY <2>1, <2>5, <2>6
  <1>11. SecondRound \subseteq t.active
    BY <1>3 DEF DiffusionInv
  <1>12. DiffusionInv(r + 1, t)
    BY <1>2, <1>6, <1>7, <1>8, <1>9, <1>10, <1>11 DEF DiffusionInv
  <1>13. QED
    BY <1>1, <1>12

\* Every round of the diffusion takes on from the one before.
LEMMA DiffusionSteps ==
  ASSUME graph \in Graphs, Region # {}
  PROVE  /\ DOMAIN Diffusion = 0 .. DiffusionRounds
         /\ Diffusion[0] = InitialLoads
         /\ \A r \in 0 .. (DiffusionRounds - 1) : Diffusion[r + 1] = Diffuse(Diffusion[r])
  <1> DEFINE N == DiffusionRounds
             G == [s \in Loads |-> Diffuse(s)]
             Value(h, r) == IF r = 0 THEN InitialLoads ELSE Diffuse(h[r - 1])
             Rounds(h) == h = [r \in 0 .. N |-> Value(h, r)]
  <1>1. N \in Nat
    BY FMAssumption
  <1>2. PICK h : Iterates(h, N, Loads, InitialLoads, G)
    <2>1. InitialLoads \in Loads
      BY InitialFacts
    <2>2. G \in [Loads -> Loads]
      BY DiffuseType
    <2> HIDE DEF N, G
    <2>3. QED
      BY <1>1, <2>1, <2>2, RecursionExists
  <1>3. Rounds(h)
    <2>1. /\ h \in [0 .. N -> Loads] /\ h[0] = InitialLoads
          /\ \A r \in 0 .. (N - 1) : h[r + 1] = G[h[r]]
      <3> HIDE DEF N, G
      <3>1. QED
        BY <1>2 DEF Iterates
    <2>2. \A r \in 0 .. N : h[r] = Value(h, r)
      <3>1. ASSUME NEW r \in 0 .. N, r # 0 PROVE h[r] = Diffuse(h[r - 1])
        <4>1. r - 1 \in 0 .. (N - 1) /\ r - 1 \in 0 .. N /\ (r - 1) + 1 = r
          BY <1>1, <3>1
        <4>2. h[r - 1] \in Loads /\ h[(r - 1) + 1] = G[h[r - 1]]
          BY <2>1, <4>1
        <4>3. QED
          BY <4>1, <4>2
      <3>2. QED
        BY <2>1, <3>1
    <2>3. h = [r \in 0 .. N |-> h[r]]
      BY <2>1
    <2> HIDE DEF Value
    <2>4. QED
      BY <2>2, <2>3
  <1>4. Diffusion = CHOOSE g : Rounds(g)
    BY Zenon DEF Diffusion
  <1>5. Rounds(Diffusion)
    <2> HIDE DEF Rounds
    <2>1. QED
      BY <1>3, <1>4
  <1>6. DOMAIN Diffusion = 0 .. N /\ \A r \in 0 .. N : Diffusion[r] = Value(Diffusion, r)
    <2> HIDE DEF Value
    <2>1. QED
      BY <1>5
  <1>7. \A r \in 0 .. (N - 1) : r + 1 \in 0 .. N /\ r + 1 # 0 /\ (r + 1) - 1 = r
    BY <1>1
  <1>8. 0 \in 0 .. N
    BY <1>1
  <1>9. \A r \in 0 .. (N - 1) : Diffusion[r + 1] = Diffuse(Diffusion[r])
    BY <1>6, <1>7
  <1>10. QED
    BY <1>6, <1>8, <1>9

\* So the invariant holds after every round.
LEMMA AllRounds ==
  ASSUME graph \in Graphs, Region # {}, NEW r \in DOMAIN Diffusion
  PROVE  DiffusionInv(r, Diffusion[r])
  <1>1. DiffusionRounds \in Nat /\ r \in 0 .. DiffusionRounds
    BY FMAssumption, DiffusionSteps
  <1> DEFINE T == {k \in Nat : k <= DiffusionRounds /\ ~ DiffusionInv(k, Diffusion[k])}
  <1>2. SUFFICES ASSUME T # {} PROVE FALSE
    BY <1>1
  <1>3. PICK k \in T : \A j \in T : k <= j
    <2>1. T \in SUBSET Nat
      OBVIOUS
    <2> HIDE DEF T
    <2>2. QED
      BY <1>2, <2>1, LeastNatural
  <1>4. k # 0 /\ k \in Nat /\ k <= DiffusionRounds /\ ~ DiffusionInv(k, Diffusion[k])
    BY InitialDiffusion, DiffusionSteps
  <1>5. /\ k - 1 \in Nat /\ k - 1 <= DiffusionRounds /\ ~ (k <= k - 1)
        /\ k - 1 \in 0 .. (DiffusionRounds - 1) /\ (k - 1) + 1 = k
    BY <1>1, <1>4
  <1>6. DiffusionInv(k - 1, Diffusion[k - 1])
    BY <1>3, <1>5
  <1>7. Diffusion[k] = Diffuse(Diffusion[k - 1])
    BY <1>5, DiffusionSteps
  <1>8. DiffusionInv((k - 1) + 1, Diffuse(Diffusion[k - 1]))
    BY <1>5, <1>6, DiffuseKeeps
  <1>9. QED
    BY <1>4, <1>5, <1>7, <1>8

\* The diffusion that breaks ties never throws and never loses a load, on any graph and
\* for any number of rounds, although most nodes sleep.
THEOREM DiffusionKeepsLoad == Spec => []LoadIsKept
  <1>1. TypeInv => LoadIsKept
    <2> SUFFICES ASSUME TypeInv, NEW r \in DOMAIN Diffusion, NEW s, s = Diffusion[r]
                 PROVE  /\ \A n \in s.active :
                             \A m \in (Neighbors(graph, n) \cap Region) \ s.active :
                               s.load[m] = s.load[n]
                        /\ MapThenSumSet(LAMBDA n : s.load[n], Region) = 0
                        /\ \A n \in Region : s.load[n] \in (- LoadUnit) .. LoadUnit
      BY DEF LoadIsKept
    <2>1. graph \in Graphs
      BY DEF TypeInv
    <2>2. MapThenSumSet(LAMBDA n : s.load[n], Region) = Sum(s.load, Region)
      <3>1. MapThenSumSet(LAMBDA n : s.load[n], Region) = WeightOf(s.load, Region)
        BY Zenon DEF WeightOf, MapThenSumSet
      <3>2. QED
        BY <3>1, WeightIsSum
    <2>3. CASE Region = {}
      <3>1. Sum(s.load, {}) = 0
        BY SumEmpty
      <3>2. QED
        BY <2>2, <2>3, <3>1
    <2>4. CASE Region # {}
      <3>1. DiffusionInv(r, s)
        BY <2>1, <2>4, AllRounds
      <3>2. \A n \in s.active : \A m \in Near(n) \ s.active : s.load[m] = s.load[n]
        BY <2>1, <3>1, SleepersEven
      <3>3. Sum(s.load, Region) = 0 /\ s.load \in [Region -> Int]
        BY <3>1 DEF DiffusionInv, Loads
      <3>4. LoadUnit \in Nat
        BY <2>1, <2>4, InitialFacts
      <3>5. \A n \in Region : s.load[n] \in (- LoadUnit) .. LoadUnit
        BY <3>1, <3>3, <3>4 DEF DiffusionInv
      <3>6. QED
        BY <2>2, <3>2, <3>3, <3>5 DEF Near
    <2>5. QED
      BY <2>3, <2>4
  <1>2. FMInv => TypeInv
    BY DEF FMInv
  <1>3. QED
    BY <1>1, <1>2, SpecFMInv, PTL
=============================================================================
