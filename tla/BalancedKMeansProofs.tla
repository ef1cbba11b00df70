------------------------ MODULE BalancedKMeansProofs -------------------------
(***************************************************************************)
(* Proofs about BalancedKMeans, for every input, every number of           *)
(* processes, of levels and of blocks, and every setting of the sampling.  *)
(*                                                                         *)
(* Points are either fresh, with bounds nobody reads as such, or their     *)
(* bounds are right (PointInv).  The search for the closest center keeps   *)
(* this because the centers come in the order of their distance from the   *)
(* box of the process, which no point of the process is closer to          *)
(* (CandidatesSorted, BoxBelow): when the search ends early, the centers   *)
(* it leaves out are all farther away than the second best (Searched).  A  *)
(* change of influence scales a bound by the ratio of its own center's, or *)
(* the least of the ratios (BoundsScale); a move of the centers by at most *)
(* m costs a bound what the square of the distance can change by, with a   *)
(* root that is rounded up (UpperMoves, LowerMoves).                       *)
(*                                                                         *)
(* The search starts from the largest number there is, so the theorems     *)
(* about bounds assume that no effective distance reaches it (InRange).    *)
(* The two others are about the loop: its samples (SampleInv), and that    *)
(* the processes are in the same sums, because a sample is empty on all of *)
(* them or on none (SumsInv).                                              *)
(***************************************************************************)
EXTENDS BalancedKMeans, PartGraphProofs, SequenceTheorems

-----------------------------------------------------------------------------
(***************************************************************************)
(* Prefix sums of block sizes, roots, and the shape of inputs, levels and  *)
(* centers.                                                                *)
(***************************************************************************)

\* What is added up for the prefix sums is what WeightOf adds up.
LEMMA PrefixIsWeight ==
  ASSUME NEW sizes, NEW b
  PROVE  BlockSizesPrefixSum(sizes, b) = WeightOf(sizes, 1 .. b)
  BY Zenon DEF BlockSizesPrefixSum, SumOver, WeightOf

Sizes == Seq(Nat \ {0})

\* Each old block takes the place of as many new ones as it is divided into.
LEMMA PrefixStep ==
  ASSUME NEW sizes \in Sizes
  PROVE  /\ BlockSizesPrefixSum(sizes, 0) = 0
         /\ \A b \in 0 .. (Len(sizes) - 1) :
              BlockSizesPrefixSum(sizes, b + 1) = BlockSizesPrefixSum(sizes, b) + sizes[b + 1]
         /\ \A b \in 0 .. Len(sizes) : BlockSizesPrefixSum(sizes, b) \in Int
  <1>1. Len(sizes) \in Nat /\ \A b \in 1 .. Len(sizes) : sizes[b] \in Int
    BY DEF Sizes
  <1>2. BlockSizesPrefixSum(sizes, 0) = 0
    <2>1. 1 .. 0 = {}
      OBVIOUS
    <2>2. QED
      BY <2>1, PrefixIsWeight, WeightEmpty
  <1>3. ASSUME NEW b \in 0 .. Len(sizes) PROVE BlockSizesPrefixSum(sizes, b) \in Int
    <2>1. IsFiniteSet(1 .. b) /\ \A x \in 1 .. b : sizes[x] \in Int
      BY <1>1, FS_Interval
    <2>2. QED
      BY <2>1, PrefixIsWeight, WeightType
  <1>4. ASSUME NEW b \in 0 .. (Len(sizes) - 1)
        PROVE  BlockSizesPrefixSum(sizes, b + 1) = BlockSizesPrefixSum(sizes, b) + sizes[b + 1]
    <2>1. PICK S : S = 1 .. b
      OBVIOUS
    <2>2. IsFiniteSet(S) /\ b + 1 \notin S /\ S \cup {b + 1} = 1 .. (b + 1)
      <3>1. b \in Int /\ 1 \in Int /\ b >= 0
        BY <1>1
      <3>2. IsFiniteSet(1 .. b)
        BY <3>1, FS_Interval
      <3>3. b + 1 \notin 1 .. b /\ (1 .. b) \cup {b + 1} = 1 .. (b + 1)
        BY <3>1
      <3>4. QED
        BY <2>1, <3>2, <3>3
    <2>3. \A x \in S \cup {b + 1} : sizes[x] \in Int
      BY <1>1, <2>1
    <2>4. WeightOf(sizes, S \cup {b + 1}) = WeightOf(sizes, S) + sizes[b + 1]
      BY <2>2, <2>3, WeightAdd
    <2>5. QED
      BY <2>1, <2>2, <2>4, PrefixIsWeight
  <1>5. QED
    BY <1>2, <1>3, <1>4

\* Prefix sums grow.
LEMMA PrefixGrows ==
  ASSUME NEW sizes \in Sizes
  PROVE  \A b, c \in 0 .. Len(sizes) :
           b <= c => BlockSizesPrefixSum(sizes, b) + (c - b) <= BlockSizesPrefixSum(sizes, c)
  <1>1. Len(sizes) \in Nat /\ \A b \in 1 .. Len(sizes) : sizes[b] \in Nat \ {0}
    BY DEF Sizes
  <1> DEFINE P(b) == BlockSizesPrefixSum(sizes, b)
  <1>2. /\ \A b \in 0 .. (Len(sizes) - 1) : P(b + 1) = P(b) + sizes[b + 1]
        /\ \A b \in 0 .. Len(sizes) : P(b) \in Int
    BY PrefixStep
  <1> HIDE DEF P
  <1>3. ASSUME NEW b \in 0 .. Len(sizes), NEW c \in 0 .. Len(sizes), b <= c,
               ~ P(b) + (c - b) <= P(c)
        PROVE  FALSE
    <2> DEFINE T == {m \in 0 .. Len(sizes) : b <= m /\ ~ P(b) + (m - b) <= P(m)}
    <2>1. T \in SUBSET Nat /\ T # {}
      BY <1>3
    <2> HIDE DEF T
    <2>2. PICK m \in T : \A k \in T : m <= k
      BY <2>1, LeastNatural
    <2> USE DEF T
    <2>3. m # b
      BY <1>2
    <2>4. m - 1 \in 0 .. (Len(sizes) - 1) /\ b <= m - 1 /\ m - 1 \notin T
      BY <1>1, <2>2, <2>3
    <2>5. P(b) + (m - 1 - b) <= P(m - 1)
      BY <1>1, <2>4
    <2>6. P(m) = P(m - 1) + sizes[m] /\ sizes[m] \in Nat \ {0}
      <3>1. (m - 1) + 1 = m /\ m \in 1 .. Len(sizes)
        BY <1>1, <2>4
      <3>2. QED
        BY <1>1, <1>2, <2>4, <3>1
    <2>7. P(m - 1) \in Int /\ P(b) \in Int /\ m \in Int
      BY <1>1, <1>2, <2>4
    <2>8. P(b) + (m - b) <= P(m)
      BY <2>5, <2>6, <2>7
    <2>9. QED
      BY <2>8
  <1>4. QED
    BY <1>3 DEF P

\* RootUp finds its root.
LEMMA RootFound ==
  ASSUME NEW a \in Nat, NEW b \in Nat \ {0}
  PROVE  /\ RootUp(a, b) \in Nat
         /\ RootUp(a, b) * RootUp(a, b) * b >= a
         /\ RootUp(a, b) = 0 \/ (RootUp(a, b) - 1) * (RootUp(a, b) - 1) * b < a
  <1> DEFINE T == {r \in 0 .. a : r * r * b >= a}
  <1>1. a * a * b >= a
    <2>1. CASE a = 0
      BY <2>1
    <2>2. CASE a > 0
      <3>1. a * b >= 1
        BY <2>2
      <3>2. a * (a * b) >= a * 1
        BY <2>2, <3>1
      <3>3. QED
        BY <3>2
    <2>3. QED
      BY <2>1, <2>2
  <1>2. T \in SUBSET Nat /\ a \in T
    BY <1>1
  <1> HIDE DEF T
  <1>3. PICK r \in T : \A k \in T : r <= k
    BY <1>2, LeastNatural
  <1> USE DEF T
  <1>4. r = 0 \/ (r - 1) * (r - 1) * b < a
    <2>1. CASE r # 0
      <3>1. r - 1 \in 0 .. a /\ r - 1 \notin T
        BY <1>3, <2>1
      <3>2. (r - 1) * (r - 1) * b \in Int
        BY <3>1
      <3>3. QED
        BY <3>1, <3>2
    <2>2. QED
      BY <2>1
  <1>5. r \in 0 .. a /\ r * r * b >= a
    BY <1>3
  <1>6. /\ RootUp(a, b) \in 0 .. a
        /\ RootUp(a, b) * RootUp(a, b) * b >= a
        /\ RootUp(a, b) = 0 \/ (RootUp(a, b) - 1) * (RootUp(a, b) - 1) * b < a
    BY ONLY <1>4, <1>5, Zenon DEF RootUp
  <1>7. QED
    BY <1>6

\* Inputs are well formed.
LEMMA InputShape ==
  ASSUME input \in Inputs
  PROVE  /\ IsFiniteSet(Points) /\ Points \subseteq Int
         /\ \A i \in Points : input.pos[i] \in Int /\ input.home[i] \in PEs
         /\ Levels \in Seq(Sizes) /\ Len(Levels) \in Nat \ {0} /\ Len(Levels[1]) = 1
         /\ \A l \in 1 .. (Len(Levels) - 1) :
              Len(Levels[l + 1]) = BlockSizesPrefixSum(Levels[l], Len(Levels[l]))
  <1>1. WellFormed(input)
    BY KMeansAssumption
  <1>2. QED
    BY <1>1 DEF WellFormed, Points, Levels, Sizes

\* Processes are numbered from 0.
LEMMA ProcessShape ==
  /\ IsFiniteSet(PEs) /\ PEs # {} /\ PEs = 0 .. (Cardinality(PEs) - 1)
  /\ Cardinality(PEs) \in Nat \ {0}
  <1>1. IsFiniteSet(PEs) /\ PEs # {} /\ PEs = 0 .. (Cardinality(PEs) - 1)
    BY KMeansAssumption
  <1>2. QED
    BY <1>1, FS_CardinalityType, FS_EmptySet

\* The old blocks of a level, each of which is divided.
LEMMA GroupingShape ==
  ASSUME input \in Inputs, level \in 1 .. (Len(Levels) + 1)
  PROVE  /\ Grouping \in Sizes /\ Len(Grouping) \in Nat \ {0}
         /\ NumNew \in Nat \ {0} /\ NewBlocks = 0 .. (NumNew - 1) /\ IsFiniteSet(NewBlocks)
         /\ 0 \in NewBlocks
         /\ \A b \in 0 .. (Len(Grouping) - 1) : /\ Range0(b) # {} /\ IsFiniteSet(Range0(b))
                                                /\ Range0(b) \subseteq NewBlocks
  <1>1. /\ Levels \in Seq(Sizes) /\ Len(Levels) \in Nat \ {0} /\ Len(Levels[1]) = 1
        /\ \A l \in 1 .. (Len(Levels) - 1) :
             Len(Levels[l + 1]) = BlockSizesPrefixSum(Levels[l], Len(Levels[l]))
    BY InputShape
  <1>2. \A l \in 1 .. Len(Levels) : Levels[l] \in Sizes
    BY <1>1
  <1>3. \A l \in 1 .. Len(Levels) : Len(Levels[l]) \in Nat \ {0}
    <2> DEFINE T == {l \in 1 .. Len(Levels) : Len(Levels[l]) = 0}
    <2>1. \A l \in 1 .. Len(Levels) : Len(Levels[l]) \in Nat
      BY <1>2 DEF Sizes
    <2>2. ASSUME T # {} PROVE FALSE
      <3>1. T \in SUBSET Nat
        OBVIOUS
      <3> HIDE DEF T
      <3>2. PICK m \in T : \A k \in T : m <= k
        BY <2>2, <3>1, LeastNatural
      <3> USE DEF T
      <3>3. m # 1
        <4>1. Len(Levels[m]) = 0
          BY <3>2
        <4>2. Len(Levels[1]) = 1
          BY <1>1
        <4>3. QED
          BY ONLY <4>1, <4>2
      <3>4. m - 1 \in 1 .. (Len(Levels) - 1) /\ (m - 1) + 1 = m /\ m - 1 \notin T
        BY <1>1, <3>2, <3>3
      <3>5. PICK z : z = Levels[m - 1]
        OBVIOUS
      <3>6. z \in Sizes /\ Len(z) \in Nat \ {0}
        BY <1>2, <2>1, <3>4, <3>5
      <3>7. BlockSizesPrefixSum(z, 0) + (Len(z) - 0) <= BlockSizesPrefixSum(z, Len(z))
        BY <3>6, PrefixGrows
      <3>8. BlockSizesPrefixSum(z, 0) = 0
        BY <3>6, PrefixStep
      <3>9. Len(Levels[m]) = BlockSizesPrefixSum(z, Len(z))
        BY <1>1, <3>4, <3>5
      <3>10. QED
        BY <3>2, <3>6, <3>7, <3>8, <3>9
    <2>3. QED
      BY <2>1, <2>2
  <1>4. Grouping \in Sizes /\ Len(Grouping) \in Nat \ {0}
    <2>1. CASE level <= Len(Levels)
      BY <1>2, <1>3, <2>1 DEF Grouping
    <2>2. CASE ~ level <= Len(Levels)
      <3>1. PICK z : z = Levels[Len(Levels)]
        OBVIOUS
      <3>2. z \in Sizes /\ Len(z) \in Nat \ {0}
        BY <1>1, <1>2, <1>3, <3>1
      <3>3. BlockSizesPrefixSum(z, 0) + (Len(z) - 0) <= BlockSizesPrefixSum(z, Len(z))
        BY <3>2, PrefixGrows
      <3>4. BlockSizesPrefixSum(z, 0) = 0 /\ BlockSizesPrefixSum(z, Len(z)) \in Int
        BY <3>2, PrefixStep
      <3>5. PICK k : k = BlockSizesPrefixSum(z, Len(z))
        OBVIOUS
      <3>6. k \in Nat \ {0} /\ Grouping = <<k>>
        BY <2>2, <3>1, <3>2, <3>3, <3>4, <3>5 DEF Grouping
      <3>7. QED
        BY <3>6 DEF Sizes
    <2>3. QED
      BY <2>1, <2>2
  <1>5. \A b, c \in 0 .. Len(Grouping) : b <= c => RangeStart(b) + (c - b) <= RangeStart(c)
    BY <1>4, PrefixGrows DEF RangeStart
  <1>6. RangeStart(0) = 0 /\ \A b \in 0 .. Len(Grouping) : RangeStart(b) \in Int
    BY <1>4, PrefixStep DEF RangeStart
  <1>7. NumNew \in Nat \ {0}
    <2>1. PICK n : n = Len(Grouping)
      OBVIOUS
    <2>2. n \in Nat \ {0} /\ 0 \in 0 .. n /\ n \in 0 .. n
      BY <1>4, <2>1
    <2>3. RangeStart(0) + (n - 0) <= RangeStart(n)
      BY <1>5, <2>1, <2>2
    <2>4. RangeStart(n) \in Int
      BY <1>6, <2>1, <2>2
    <2>5. QED
      BY <1>6, <2>1, <2>2, <2>3, <2>4 DEF NumNew
  <1>8. IsFiniteSet(NewBlocks) /\ 0 \in NewBlocks
    BY <1>7, FS_Interval DEF NewBlocks
  <1>9. ASSUME NEW b \in 0 .. (Len(Grouping) - 1)
        PROVE  Range0(b) # {} /\ IsFiniteSet(Range0(b)) /\ Range0(b) \subseteq NewBlocks
    <2>1. PICK n : n = Len(Grouping)
      OBVIOUS
    <2>2. /\ n \in Nat \ {0} /\ b \in 0 .. n /\ b + 1 \in 0 .. n
          /\ 0 \in 0 .. n /\ n \in 0 .. n
      BY <1>4, <2>1
    <2>3. /\ RangeStart(b) + (b + 1 - b) <= RangeStart(b + 1)
          /\ RangeStart(0) + (b - 0) <= RangeStart(b)
          /\ RangeStart(b + 1) + (n - (b + 1)) <= RangeStart(n)
      BY <1>5, <2>1, <2>2
    <2>4. PICK s, e : s = RangeStart(b) /\ e = RangeStart(b + 1)
      OBVIOUS
    <2>5. s \in Int /\ e \in Int /\ RangeStart(n) \in Int
      BY <1>6, <2>1, <2>2, <2>4
    <2>6. s + 1 <= e /\ 0 <= s /\ e <= NumNew
      BY <1>6, <2>1, <2>2, <2>3, <2>4, <2>5 DEF NumNew
    <2>7. Range0(b) = s .. (e - 1)
      BY <2>4 DEF Range0
    <2>8. IsFiniteSet(s .. (e - 1))
      BY <2>5, FS_Interval
    <2>9. s \in s .. (e - 1) /\ s .. (e - 1) \subseteq 0 .. (NumNew - 1)
      BY <1>7, <2>5, <2>6
    <2>10. QED
      BY <2>7, <2>8, <2>9 DEF NewBlocks
  <1>10. QED
    BY <1>4, <1>7, <1>8, <1>9 DEF NewBlocks

\* A process finds the point of a rank among its own.
LEMMA OwnCenterType ==
  ASSUME input \in Inputs, NEW p, NEW block, NEW b, NEW k, NEW c
  PROVE  OwnCenter(p, block, b, k, c) \in Int
  <1> DEFINE mine == OldBlockPart(p, block, b)
             at == CenterIndex(PrefixSum(Cardinality(PEs), block, b), k, c)
                     - PrefixSum(p, block, b)
             R == {e \in mine \X mine : Before(e[1], e[2])}
             found == CHOOSE i \in mine : Cardinality({x \in mine : Before(x, i)}) = at
  <1>1. IsFiniteSet(mine) /\ mine \subseteq Points
    BY InputShape, FS_Subset DEF OldBlockPart, LocalPoints
  <1>2. \A i \in mine : i \in Int /\ input.pos[i] \in Int /\ input.home[i] \in Int
    BY <1>1, InputShape, ProcessShape
  <1> HIDE DEF mine
  <1>3. Orders(R, mine)
    <2>1. \A x, y : <<x, y>> \in R <=> x \in mine /\ y \in mine /\ Before(x, y)
      OBVIOUS
    <2> HIDE DEF R
    <2>2. QED
      BY <1>2, <2>1 DEF Orders, Before
  <1>4. ASSUME at \in 0 .. (Cardinality(mine) - 1) PROVE input.pos[found] \in Int
    <2>1. \A i \in mine : Below(R, mine, i) = {x \in mine : Before(x, i)}
      BY DEF Below
    <2> HIDE DEF R, at
    <2>2. \E i \in mine : Cardinality(Below(R, mine, i)) = at
      BY <1>1, <1>3, <1>4, Ranks
    <2>3. found \in mine
      BY <2>1, <2>2
    <2>4. QED
      BY <1>2, <2>3
  <1>5. QED
    BY <1>4 DEF OwnCenter, mine

\* The first centers are integers.
LEMMA InitialCentersType ==
  ASSUME input \in Inputs, NEW sizes, NEW block
  PROVE  InitialCenters(sizes, block)
           \in [0 .. (BlockSizesPrefixSum(sizes, Len(sizes)) - 1) -> Int]
  <1> DEFINE start(b) == BlockSizesPrefixSum(sizes, b)
             oldOf(j) == CHOOSE b \in 0 .. (Len(sizes) - 1) : j >= start(b) /\ j < start(b + 1)
             seen(j) == [p \in PEs |-> OwnCenter(p, block, oldOf(j), sizes[oldOf(j) + 1],
                                                 j - start(oldOf(j)))]
             sum(j) == SumOver(LAMBDA p : seen(j)[p], PEs)
  <1>1. ASSUME NEW j PROVE sum(j) \in Int
    <2>1. \A p \in PEs : seen(j)[p] \in Int
      BY OwnCenterType
    <2>2. PICK f : f = seen(j)
      OBVIOUS
    <2> HIDE DEF seen
    <2>3. WeightOf(f, PEs) \in Int
      BY <2>1, <2>2, ProcessShape, WeightType
    <2>4. sum(j) = WeightOf(seen(j), PEs)
      BY Zenon DEF SumOver, WeightOf
    <2>5. QED
      BY <2>2, <2>3, <2>4
  <1>2. InitialCenters(sizes, block)
          = [j \in 0 .. (start(Len(sizes)) - 1) |-> sum(j)]
    BY Zenon DEF InitialCenters
  <1> HIDE DEF sum
  <1>3. QED
    BY <1>1, <1>2

-----------------------------------------------------------------------------
(***************************************************************************)
(* The search for the closest center.                                      *)
(***************************************************************************)

\* h takes a, G[1, a], G[2, G[1, a]] and so on.
Scans(h, n, S, a, G) ==
  h \in [0 .. n -> S] /\ h[0] = a /\ \A k \in 0 .. (n - 1) : h[k + 1] = G[<<k + 1, h[k]>>]

\* The same of a function that depends on the number of the step.
LEMMA ScanExists ==
  ASSUME NEW S, NEW a \in S, NEW n \in Nat, NEW G \in [(1 .. n) \X S -> S]
  PROVE  \E h : Scans(h, n, S, a, G)
  <1> DEFINE S2 == Nat \X S
             G2 == [s \in S2 |-> <<s[1] + 1, IF s[1] + 1 \in 1 .. n
                                             THEN G[<<s[1] + 1, s[2]>>] ELSE s[2]>>]
  <1>1. G2 \in [S2 -> S2]
    <2>1. ASSUME NEW s \in S2 PROVE G2[s] \in S2
      <3>1. s[1] + 1 \in 1 .. n => G[<<s[1] + 1, s[2]>>] \in S
        OBVIOUS
      <3>2. QED
        BY <3>1
    <2>2. QED
      BY <2>1
  <1>2. <<0, a>> \in S2
    OBVIOUS
  <1>3. \A s \in S2 : G2[s][1] = s[1] + 1
    OBVIOUS
  <1>4. \A k \in 0 .. (n - 1), s \in S : G2[<<k, s>>][2] = G[<<k + 1, s>>]
    OBVIOUS
  <1> HIDE DEF G2
  <1>5. PICK f \in [0 .. n -> S2] :
          f[0] = <<0, a>> /\ \A k \in 0 .. (n - 1) : f[k + 1] = G2[f[k]]
    <2>1. PICK b, D, H : b = <<0, a>> /\ D = S2 /\ H = G2
      OBVIOUS
    <2>2. b \in D /\ H \in [D -> D]
      BY <1>1, <1>2, <2>1
    <2>3. PICK f : Iterates(f, n, D, b, H)
      BY ONLY <2>2, n \in Nat, RecursionExists
    <2>4. QED
      BY <2>1, <2>3 DEF Iterates
  <1>6. \A k \in 0 .. n : f[k][1] = k
    <2> DEFINE T == {k \in 0 .. n : f[k][1] # k}
    <2>1. ASSUME T # {} PROVE FALSE
      <3>1. T \in SUBSET Nat
        OBVIOUS
      <3> HIDE DEF T
      <3>2. PICK m \in T : \A k \in T : m <= k
        BY <2>1, <3>1, LeastNatural
      <3> USE DEF T
      <3>3. m # 0
        BY <1>5
      <3>4. m - 1 \in 0 .. (n - 1) /\ m - 1 \notin T /\ (m - 1) + 1 = m
        BY <3>2, <3>3
      <3>5. f[m - 1] \in S2 /\ f[m - 1][1] = m - 1
        BY <1>5, <3>4
      <3>6. f[m] = G2[f[m - 1]]
        BY <1>5, <3>4
      <3>7. QED
        BY <1>3, <3>2, <3>4, <3>5, <3>6
    <2>2. QED
      BY <2>1
  <1> DEFINE h == [k \in 0 .. n |-> f[k][2]]
  <1>7. h \in [0 .. n -> S] /\ h[0] = a
    BY <1>5
  <1>8. ASSUME NEW k \in 0 .. (n - 1) PROVE h[k + 1] = G[<<k + 1, h[k]>>]
    <2>1. f[k] \in S2 /\ f[k][1] = k /\ f[k + 1] = G2[f[k]] /\ f[k][2] \in S
      BY <1>5, <1>6
    <2>2. f[k] = <<k, f[k][2]>>
      BY <2>1
    <2>3. G2[<<k, f[k][2]>>][2] = G[<<k + 1, f[k][2]>>]
      BY <1>4, <2>1
    <2>4. h[k] = f[k][2] /\ h[k + 1] = f[k + 1][2]
      OBVIOUS
    <2>5. QED
      BY <2>1, <2>2, <2>3, <2>4
  <1>9. Scans(h, n, S, a, G)
    BY <1>7, <1>8 DEF Scans
  <1>10. QED
    BY <1>9

\* The blocks of the level have centers and influences.
HasCenters ==
  /\ centers \in [NewBlocks -> Int]
  /\ influence \in [NewBlocks -> Nat \ {0}]

\* Effective distances are not negative.
LEMMA EffDistType ==
  ASSUME input \in Inputs, HasCenters, NEW i \in Points, NEW j \in NewBlocks
  PROVE  EffDist(i, j) \in Nat
  <1>1. input.pos[i] \in Int /\ centers[j] \in Int /\ influence[j] \in Nat \ {0}
    BY InputShape DEF HasCenters
  <1>2. PICK d : d = centers[j] - input.pos[i]
    OBVIOUS
  <1>3. d \in Int /\ d * d \in Nat
    BY <1>1, <1>2
  <1>4. d * d * influence[j] \in Nat
    BY <1>1, <1>3
  <1>5. QED
    BY <1>2, <1>4 DEF EffDist, Sq

\* The larger number has the larger square.
LEMMA SquareGrows ==
  ASSUME NEW x \in Nat, NEW y \in Int, x <= y \/ x <= - y
  PROVE  x * x <= y * y
  <1>1. CASE x <= y
    <2>1. x * x <= x * y /\ x * y <= y * y
      BY <1>1
    <2>2. QED
      BY <2>1
  <1>2. CASE x <= - y
    <2>1. PICK z \in Nat : z = - y
      BY <1>2
    <2>2. x * x <= x * z /\ x * z <= z * z
      BY <1>2, <2>1
    <2>3. z * z = y * y
      BY <2>1
    <2>4. QED
      BY <2>1, <2>2, <2>3
  <1>3. QED
    BY <1>1, <1>2

\* No local point is closer to a center than the box around all of them.
LEMMA BoxBelow ==
  ASSUME input \in Inputs, HasCenters, NEW p, NEW i \in LocalPoints(p), NEW j \in NewBlocks
  PROVE  BoxDist(p, j) \in Nat /\ BoxDist(p, j) <= EffDist(i, j)
  <1> DEFINE low == Min({input.pos[k] : k \in LocalPoints(p)})
             high == Max({input.pos[k] : k \in LocalPoints(p)})
             c == centers[j]
             m == Max({0, low - c, c - high})
  <1>1. i \in Points /\ input.pos[i] \in Int /\ c \in Int /\ influence[j] \in Nat \ {0}
    BY InputShape DEF HasCenters, LocalPoints
  <1>2. /\ low <= input.pos[i] /\ input.pos[i] <= high
        /\ low \in Int /\ high \in Int
    <2>1. PICK D, f : D = LocalPoints(p) /\ f = input.pos
      OBVIOUS
    <2>2. IsFiniteSet(D) /\ D # {} /\ i \in D /\ \A x \in D : f[x] \in Int
      BY <2>1, InputShape, FS_Subset DEF LocalPoints
    <2>3. /\ \E x \in D : Max({f[y] : y \in D}) = f[x]
          /\ \A x \in D : f[x] <= Max({f[y] : y \in D})
          /\ \E x \in D : Min({f[y] : y \in D}) = f[x]
          /\ \A x \in D : Min({f[y] : y \in D}) <= f[x]
      BY ONLY <2>2, ExtremeValues
    <2>4. low = Min({f[y] : y \in D}) /\ high = Max({f[y] : y \in D})
      BY <2>1
    <2> HIDE DEF low, high
    <2>5. QED
      BY <2>1, <2>2, <2>3, <2>4
  <1> HIDE DEF low, high
  <1>3. m \in {0, low - c, c - high} /\ 0 <= m /\ m \in Int
    <2> DEFINE S == {0, low - c, c - high}
    <2>1. S \subseteq Int /\ S # {} /\ 0 \in S
      BY <1>1, <1>2
    <2>2. IsFiniteSet({0}) /\ IsFiniteSet({0} \cup {low - c})
      BY FS_Singleton, FS_AddElement
    <2>3. IsFiniteSet(({0} \cup {low - c}) \cup {c - high})
      BY <2>2, FS_AddElement
    <2>4. S = ({0} \cup {low - c}) \cup {c - high}
      OBVIOUS
    <2>5. m = Max(S)
      OBVIOUS
    <2> HIDE DEF S, m
    <2>6. Max(S) \in S /\ \A x \in S : x <= Max(S)
      BY <2>1, <2>3, <2>4, Extremes
    <2>7. QED
      BY <2>1, <2>5, <2>6 DEF S
  <1>4. BoxDist(p, j) = m * m * influence[j]
    BY DEF BoxDist, Sq, low, high
  <1> HIDE DEF m
  <1>5. PICK d : d = c - input.pos[i]
    OBVIOUS
  <1>6. d \in Int /\ m \in Nat /\ (m <= d \/ m <= - d)
    BY <1>1, <1>2, <1>3, <1>5
  <1>7. m * m <= d * d /\ m * m \in Nat /\ d * d \in Nat
    BY <1>6, SquareGrows
  <1>8. PICK x, y, f : x = m * m /\ y = d * d /\ f = influence[j]
    OBVIOUS
  <1>9. x * f \in Nat /\ x * f <= y * f
    BY <1>1, <1>7, <1>8
  <1>10. EffDist(i, j) = y * f
    BY <1>5, <1>8 DEF EffDist, Sq
  <1>11. QED
    BY <1>4, <1>8, <1>9, <1>10

\* The first of an order is no farther from the box than the others.
InOrder(order, n, p, S) ==
  /\ n \in Nat \ {0} /\ order \in [1 .. n -> S]
  /\ \A j \in S : \E c \in 1 .. n : order[c] = j
  /\ \A c, d \in 1 .. n : c <= d => BoxDist(p, order[c]) <= BoxDist(p, order[d])

\* The centers of an old block are sorted by their distances from the box.
LEMMA CandidatesSorted ==
  ASSUME input \in Inputs, HasCenters, NEW p, LocalPoints(p) # {}, NEW b,
         Range0(b) \subseteq NewBlocks, Range0(b) # {}, IsFiniteSet(Range0(b))
  PROVE  InOrder(Candidates(p, b), Cardinality(Range0(b)), p, Range0(b))
  <1> DEFINE closer(j, k) == \/ BoxDist(p, j) < BoxDist(p, k)
                             \/ BoxDist(p, j) = BoxDist(p, k) /\ j < k
  <1> DEFINE S == Range0(b)
             n == Cardinality(Range0(b))
             nth(c) == CHOOSE j \in S : Cardinality({k \in S : closer(k, j)}) = c - 1
             order == Candidates(p, b)
  <1>1. order = [c \in 1 .. n |-> nth(c)]
    BY DEF Candidates
  <1> HIDE DEF S, n, nth, order
  <1>2. IsFiniteSet(S) /\ S # {} /\ S \subseteq NewBlocks /\ n = Cardinality(S) /\ n \in Nat \ {0}
    BY FS_CardinalityType, FS_EmptySet DEF S, n
  <1>3. \A j \in S : j \in Int /\ BoxDist(p, j) \in Nat
    BY <1>2, BoxBelow DEF NewBlocks
  <1> DEFINE R == {e \in S \X S : closer(e[1], e[2])}
  <1>4. \A x, y : <<x, y>> \in R <=> x \in S /\ y \in S /\ closer(x, y)
    OBVIOUS
  <1> HIDE DEF R
  <1>5. Orders(R, S)
    BY <1>3, <1>4 DEF Orders
  <1>6. \A j \in S : Below(R, S, j) = {k \in S : closer(k, j)}
    BY <1>4 DEF Below
  <1>7. /\ \A x \in S : Cardinality(Below(R, S, x)) \in 0 .. (n - 1)
        /\ \A x, y \in S : Cardinality(Below(R, S, x)) = Cardinality(Below(R, S, y)) => x = y
        /\ \A x, y \in S : <<x, y>> \in R =>
             Cardinality(Below(R, S, x)) < Cardinality(Below(R, S, y))
        /\ \A r \in 0 .. (n - 1) : \E x \in S : Cardinality(Below(R, S, x)) = r
    BY <1>2, <1>5, Ranks
  <1> DEFINE rank(j) == Cardinality(Below(R, S, j))
  <1>9. ASSUME NEW c \in 1 .. n PROVE nth(c) \in S /\ rank(nth(c)) = c - 1
    <2>1. c - 1 \in 0 .. (n - 1)
      BY <1>2
    <2>2. \E x \in S : Cardinality({k \in S : closer(k, x)}) = c - 1
      <3>1. PICK x \in S : Cardinality(Below(R, S, x)) = c - 1
        BY <1>7, <2>1
      <3> HIDE DEF closer
      <3>2. QED
        BY <1>6, <3>1
    <2>3. nth(c) \in S /\ Cardinality({k \in S : closer(k, nth(c))}) = c - 1
      <3> HIDE DEF closer
      <3>1. QED
        BY <2>2 DEF nth
    <2> HIDE DEF closer
    <2>4. QED
      BY <1>6, <2>3
  <1>10. order \in [1 .. n -> S] /\ \A c \in 1 .. n : order[c] \in S /\ rank(order[c]) = c - 1
    BY <1>1, <1>9
  <1>11. ASSUME NEW j \in S PROVE \E c \in 1 .. n : order[c] = j
    <2>1. rank(j) + 1 \in 1 .. n /\ (rank(j) + 1) - 1 = rank(j)
      BY <1>2, <1>7
    <2>2. rank(order[rank(j) + 1]) = rank(j) /\ order[rank(j) + 1] \in S
      BY <1>10, <2>1
    <2>3. order[rank(j) + 1] = j
      BY <1>7, <2>2
    <2>4. QED
      BY <2>1, <2>3
  <1>12. ASSUME NEW c \in 1 .. n, NEW d \in 1 .. n, c <= d
         PROVE  BoxDist(p, order[c]) <= BoxDist(p, order[d])
    <2>1. PICK x \in S, y \in S : x = order[c] /\ y = order[d]
      BY <1>10
    <2>2. rank(x) <= rank(y) /\ rank(x) \in Int /\ rank(y) \in Int
      BY <1>10, <1>12, <2>1
    <2>3. ~ <<y, x>> \in R
      BY <1>7, <2>2
    <2>4. ~ closer(y, x)
      BY <1>4, <2>3
    <2>5. QED
      BY <1>3, <2>1, <2>4
  <1>13. QED
    BY <1>2, <1>10, <1>11, <1>12 DEF InOrder, S, n, order

\* What a point may have found.
Found == [block : Int, value : Nat, second : Nat, over : BOOLEAN]

\* A search of the centers order[1] to order[c]: the best one and a bound for the others,
\* which holds for all centers when the search is over.
Searched(found, c, order, n, i) ==
  /\ found \in Found
  /\ c = 0 => found.value = Huge /\ found.second = Huge /\ ~ found.over
  /\ c > 0 => /\ \E k \in 1 .. n : found.block = order[k]
              /\ found.value = EffDist(i, found.block) /\ found.value <= found.second
  /\ \A k \in 1 .. n :
       k <= c \/ found.over =>
         \/ order[k] = found.block
         \/ found.second <= EffDist(i, order[k])

\* The search keeps what it has found so far.
LEMMA LookAtSearches ==
  ASSUME input \in Inputs, HasCenters, NEW p, NEW i \in LocalPoints(p),
         \A j \in NewBlocks : EffDist(i, j) < Huge,
         NEW S \in SUBSET NewBlocks, NEW n, NEW order, InOrder(order, n, p, S),
         NEW c \in 0 .. (n - 1), NEW found, Searched(found, c, order, n, i)
  PROVE  Searched(LookAt(found, p, i, order[c + 1]), c + 1, order, n, i)
  <1>1. PICK j, d, box : j = order[c + 1] /\ d = EffDist(i, j) /\ box = BoxDist(p, j)
    OBVIOUS
  <1>2. /\ n \in Nat /\ order \in [1 .. n -> S] /\ c \in Nat /\ c + 1 \in 1 .. n
        /\ \A k \in 1 .. n : c + 1 <= k => box <= BoxDist(p, order[k])
    BY <1>1 DEF InOrder
  <1>3. i \in Points /\ j \in NewBlocks /\ \A k \in 1 .. n : order[k] \in NewBlocks
    BY <1>1, <1>2 DEF LocalPoints
  <1>4. d \in Nat /\ d < Huge /\ \A k \in 1 .. n : EffDist(i, order[k]) \in Nat
    BY <1>1, <1>3, EffDistType
  <1>5. /\ box \in Nat /\ box <= d
        /\ \A k \in 1 .. n : BoxDist(p, order[k]) \in Nat
                             /\ BoxDist(p, order[k]) <= EffDist(i, order[k])
    BY <1>1, <1>3, BoxBelow
  <1>6. found \in Found /\ Huge \in Nat
    BY KMeansAssumption DEF Searched
  <1>7. CASE found.over \/ SearchEnds(found, box)
    <2>1. LookAt(found, p, i, j) = [found EXCEPT !.over = TRUE]
      BY <1>1, <1>7 DEF LookAt
    <2>2. PICK new : new = [found EXCEPT !.over = TRUE]
      OBVIOUS
    <2>3. /\ new \in Found /\ new.over /\ new.block = found.block /\ new.value = found.value
          /\ new.second = found.second
      BY <1>6, <2>2 DEF Found
    <2>4. c > 0
      BY <1>4, <1>5, <1>6, <1>7 DEF Searched, SearchEnds
    <2>5. \A k \in 1 .. n : order[k] = found.block \/ found.second <= EffDist(i, order[k])
      <3>1. CASE found.over
        BY <3>1 DEF Searched
      <3>2. CASE ~ found.over
        <4>1. found.second <= box /\ found.second \in Nat
          BY <1>6, <1>7, <3>2 DEF SearchEnds, Found
        <4>2. ASSUME NEW k \in 1 .. n, ~ k <= c PROVE found.second <= EffDist(i, order[k])
          <5>1. c + 1 <= k
            BY <1>2, <4>2
          <5>2. box <= BoxDist(p, order[k])
            BY <1>2, <5>1
          <5>3. QED
            BY <1>4, <1>5, <4>1, <5>2
        <4>3. QED
          BY <4>2 DEF Searched
      <3>3. QED
        BY <3>1, <3>2
    <2>6. Searched(new, c + 1, order, n, i)
      BY <1>2, <2>3, <2>4, <2>5 DEF Searched
    <2>7. QED
      BY <1>1, <2>1, <2>2, <2>6
  <1>8. CASE ~ (found.over \/ SearchEnds(found, box)) /\ d < found.value
    <2>1. LookAt(found, p, i, j) = [found EXCEPT !.block = j, !.value = d, !.second = found.value]
      BY <1>1, <1>8 DEF LookAt
    <2>2. PICK new : new = [found EXCEPT !.block = j, !.value = d, !.second = found.value]
      OBVIOUS
    <2>3. /\ new \in Found /\ new.over = found.over /\ new.block = j /\ new.value = d
          /\ new.second = found.value /\ ~ new.over
      <3>1. j \in Int
        BY <1>3 DEF NewBlocks
      <3>2. ~ found.over
        BY <1>8
      <3>3. QED
        BY <1>4, <1>6, <2>2, <3>1, <3>2 DEF Found
    <2>4. ASSUME NEW k \in 1 .. n, k <= c + 1, order[k] # j
          PROVE  found.value <= EffDist(i, order[k])
      <3>1. k <= c /\ c > 0
        BY <1>1, <1>2, <2>4
      <3>2. order[k] = found.block \/ found.second <= EffDist(i, order[k])
        BY <3>1 DEF Searched
      <3>3. found.value = EffDist(i, found.block) /\ found.value <= found.second
        BY <3>1 DEF Searched
      <3>4. found.value \in Nat /\ found.second \in Nat
        BY <1>6 DEF Found
      <3>5. QED
        BY <1>4, <3>2, <3>3, <3>4
    <2>5. d <= found.value
      BY <1>4, <1>6, <1>8 DEF Found
    <2>6. Searched(new, c + 1, order, n, i)
      BY <1>1, <1>2, <2>3, <2>4, <2>5 DEF Searched
    <2>7. QED
      BY <1>1, <2>1, <2>2, <2>6
  <1>9. CASE ~ (found.over \/ SearchEnds(found, box)) /\ ~ d < found.value
    <2>1. PICK m : m = Min({found.second, d})
      OBVIOUS
    <2>2. found.second \in Nat /\ found.value \in Nat
      BY <1>6 DEF Found
    <2>3. m \in Nat /\ m <= found.second /\ m <= d /\ (m = found.second \/ m = d)
      <3> DEFINE T == {found.second, d}
      <3>1. T # {} /\ T \subseteq Int
        BY <1>4, <2>2
      <3>2. IsFiniteSet({found.second} \cup {d})
        BY FS_Singleton, FS_AddElement
      <3>3. T = {found.second} \cup {d}
        OBVIOUS
      <3> HIDE DEF T
      <3>4. Min(T) \in T /\ \A x \in T : Min(T) <= x
        BY <3>1, <3>2, <3>3, Extremes
      <3>5. QED
        BY <1>4, <2>1, <2>2, <3>4 DEF T
    <2>4. LookAt(found, p, i, j) = [found EXCEPT !.second = m]
      BY <1>1, <1>9, <2>1 DEF LookAt
    <2>5. PICK new : new = [found EXCEPT !.second = m]
      OBVIOUS
    <2>6. /\ new \in Found /\ new.over = found.over /\ new.block = found.block
          /\ new.value = found.value /\ new.second = m /\ ~ new.over
      BY <1>6, <1>9, <2>3, <2>5 DEF Found
    <2>7. c > 0
      BY <1>4, <1>6, <1>9, <2>2 DEF Searched
    <2>8. found.value <= m
      BY <1>4, <1>9, <2>2, <2>3, <2>7 DEF Searched
    <2>9. ASSUME NEW k \in 1 .. n, k <= c + 1
          PROVE  order[k] = found.block \/ m <= EffDist(i, order[k])
      <3>1. CASE k = c + 1
        BY <1>1, <2>3, <3>1
      <3>2. CASE k # c + 1
        <4>1. k <= c
          BY <1>2, <2>9, <3>2
        <4>2. order[k] = found.block \/ found.second <= EffDist(i, order[k])
          BY <4>1 DEF Searched
        <4>3. QED
          BY <1>4, <2>2, <2>3, <4>2
      <3>3. QED
        BY <3>1, <3>2
    <2>10. Searched(new, c + 1, order, n, i)
      BY <1>2, <2>6, <2>7, <2>8, <2>9 DEF Searched
    <2>11. QED
      BY <1>1, <2>4, <2>5, <2>10
  <1>10. QED
    BY <1>7, <1>8, <1>9

\* One center more leaves a record of the same type.
LEMMA LookAtType ==
  ASSUME input \in Inputs, HasCenters, NEW p, NEW i \in LocalPoints(p), NEW j \in NewBlocks,
         NEW found \in Found
  PROVE  LookAt(found, p, i, j) \in Found
  <1>1. PICK d, m : d = EffDist(i, j) /\ m = Min({found.second, d})
    OBVIOUS
  <1>2. d \in Nat /\ j \in Int
    BY <1>1, EffDistType DEF LocalPoints, NewBlocks
  <1>3. m \in Nat
    <2> DEFINE T == {found.second, d}
    <2>1. T # {} /\ T \subseteq Nat
      BY <1>2 DEF Found
    <2>2. IsFiniteSet({found.second} \cup {d})
      BY FS_Singleton, FS_AddElement
    <2>3. T = {found.second} \cup {d} /\ m = Min(T)
      BY <1>1
    <2> HIDE DEF T
    <2>4. Min(T) \in T
      BY <2>1, <2>2, <2>3, Extremes
    <2>5. QED
      BY <2>1, <2>3, <2>4
  <1>4. \/ LookAt(found, p, i, j) = [found EXCEPT !.over = TRUE]
        \/ LookAt(found, p, i, j)
             = [found EXCEPT !.block = j, !.value = d, !.second = found.value]
        \/ LookAt(found, p, i, j) = [found EXCEPT !.second = m]
    BY <1>1 DEF LookAt
  <1>5. /\ [found EXCEPT !.over = TRUE] \in Found
        /\ [found EXCEPT !.block = j, !.value = d, !.second = found.value] \in Found
        /\ [found EXCEPT !.second = m] \in Found
    BY <1>2, <1>3 DEF Found
  <1>6. QED
    BY <1>4, <1>5

\* Every search finds the closest center, and a bound for all others.
LEMMA ClosestRight ==
  ASSUME input \in Inputs, HasCenters, NEW p, NEW i \in LocalPoints(p),
         \A j \in NewBlocks : EffDist(i, j) < Huge,
         level \in 1 .. (Len(Levels) + 1), father[i] \in 0 .. (Len(Grouping) - 1)
  PROVE  /\ Closest(p, i).block \in Range0(father[i])
         /\ Closest(p, i).value = EffDist(i, Closest(p, i).block)
         /\ Closest(p, i).value \in Nat /\ Closest(p, i).second \in Nat
         /\ \A j \in Range0(father[i]) : EffDist(i, Closest(p, i).block) <= EffDist(i, j)
         /\ \A j \in Range0(father[i]) \ {Closest(p, i).block} :
              Closest(p, i).second <= EffDist(i, j)
  <1> DEFINE S == Range0(father[i])
             n == Cardinality(S)
             order == Candidates(p, father[i])
             a == [block |-> 0, value |-> Huge, second |-> Huge, over |-> FALSE]
             Scan(f) == f = [c \in 0 .. Len(order) |->
                               IF c = 0 THEN a ELSE LookAt(f[c - 1], p, i, order[c])]
             scan == CHOOSE f : Scan(f)
  <1>1. Closest(p, i) = scan[Len(order)]
    BY Zenon DEF Closest
  <1>2. InOrder(order, n, p, S) /\ S \subseteq NewBlocks
    BY GroupingShape, CandidatesSorted
  <1>3. n \in Nat \ {0} /\ order \in [1 .. n -> S] /\ \A j \in S : \E c \in 1 .. n : order[c] = j
    BY <1>2 DEF InOrder
  <1> HIDE DEF S, n, order, scan
  <1>4. Len(order) = n
    <2>1. order \in Seq(S)
      BY <1>3
    <2>2. QED
      BY <1>3, <2>1, LenProperties
  <1>5. a \in Found
    BY KMeansAssumption DEF Found
  <1> HIDE DEF a
  <1>6. \E f : Scan(f)
    <2> DEFINE G == [s \in (1 .. n) \X Found |-> LookAt(s[2], p, i, order[s[1]])]
    <2>1. G \in [(1 .. n) \X Found -> Found]
      BY <1>2, <1>3, LookAtType
    <2>2. \A k \in 1 .. n, s \in Found : G[<<k, s>>] = LookAt(s, p, i, order[k])
      OBVIOUS
    <2> HIDE DEF G
    <2>3. PICK m, A, b, H : m = n /\ A = Found /\ b = a /\ H = G
      OBVIOUS
    <2>4. m \in Nat /\ b \in A /\ H \in [(1 .. m) \X A -> A]
      BY <1>3, <1>5, <2>1, <2>3
    <2>5. PICK h : Scans(h, m, A, b, H)
      BY ONLY <2>4, ScanExists
    <2>6. /\ h \in [0 .. n -> Found] /\ h[0] = a
          /\ \A k \in 0 .. (n - 1) : h[k + 1] = G[<<k + 1, h[k]>>]
      BY <2>3, <2>5 DEF Scans
    <2>7. ASSUME NEW c \in 0 .. n, c # 0 PROVE h[c] = LookAt(h[c - 1], p, i, order[c])
      <3>1. c - 1 \in 0 .. (n - 1) /\ c - 1 \in 0 .. n /\ c \in 1 .. n /\ (c - 1) + 1 = c
        BY <1>3, <2>7
      <3>2. h[c] = G[<<c, h[c - 1]>>] /\ h[c - 1] \in Found
        BY <2>6, <3>1
      <3>3. QED
        BY <2>2, <3>1, <3>2
    <2>8. h = [c \in 0 .. n |-> IF c = 0 THEN a ELSE LookAt(h[c - 1], p, i, order[c])]
      BY <2>6, <2>7
    <2>9. Scan(h)
      BY <1>4, <2>8
    <2>10. QED
      BY <2>9
  <1>7. scan = [c \in 0 .. n |-> IF c = 0 THEN a ELSE LookAt(scan[c - 1], p, i, order[c])]
    <2>1. Scan(scan)
      BY <1>6, Zenon DEF scan
    <2>2. QED
      BY <1>4, <2>1
  <1> HIDE DEF Scan
  <1>8. \A c \in 0 .. n : Searched(scan[c], c, order, n, i)
    <2> DEFINE T == {c \in 0 .. n : ~ Searched(scan[c], c, order, n, i)}
    <2>1. ASSUME T # {} PROVE FALSE
      <3>1. T \in SUBSET Nat
        OBVIOUS
      <3> HIDE DEF T
      <3>2. PICK m \in T : \A k \in T : m <= k
        BY <2>1, <3>1, LeastNatural
      <3> USE DEF T
      <3>3. m # 0
        <4>1. a.value = Huge /\ a.second = Huge /\ ~ a.over
          BY DEF a
        <4>2. Searched(a, 0, order, n, i)
          BY <1>3, <1>5, <4>1 DEF Searched
        <4>3. scan[0] = a
          BY <1>3, <1>7
        <4>4. QED
          BY <3>2, <4>2, <4>3
      <3>4. /\ m - 1 \in 0 .. (n - 1) /\ m - 1 \in 0 .. n /\ m - 1 \notin T
            /\ (m - 1) + 1 = m /\ m \in 0 .. n
        BY <1>3, <3>2, <3>3
      <3>5. PICK c, found : c = m - 1 /\ found = scan[m - 1]
        OBVIOUS
      <3>6. Searched(found, c, order, n, i) /\ c \in 0 .. (n - 1)
        BY <3>4, <3>5
      <3>7. Searched(LookAt(found, p, i, order[c + 1]), c + 1, order, n, i)
        BY <1>2, <3>6, LookAtSearches
      <3>8. scan[m] = LookAt(found, p, i, order[m])
        BY <1>7, <3>3, <3>4, <3>5
      <3>9. QED
        BY <3>2, <3>4, <3>5, <3>7, <3>8
    <2>2. QED
      BY <2>1
  <1>9. PICK r : r = scan[n]
    OBVIOUS
  <1>10. Searched(r, n, order, n, i) /\ Closest(p, i) = r
    BY <1>1, <1>3, <1>4, <1>8, <1>9
  <1>11. /\ r \in Found /\ r.block \in S /\ r.value = EffDist(i, r.block) /\ r.value <= r.second
         /\ \A k \in 1 .. n : order[k] = r.block \/ r.second <= EffDist(i, order[k])
    BY <1>3, <1>10 DEF Searched
  <1>12. \A j \in S : j = r.block \/ r.second <= EffDist(i, j)
    BY <1>3, <1>11
  <1>13. r.value \in Nat /\ r.second \in Nat /\ \A j \in S : EffDist(i, j) \in Nat
    BY <1>2, <1>11, EffDistType DEF Found, LocalPoints
  <1>14. \A j \in S : EffDist(i, r.block) <= EffDist(i, j)
    BY <1>11, <1>12, <1>13
  <1>15. QED
    BY <1>10, <1>11, <1>12, <1>13, <1>14 DEF S

-----------------------------------------------------------------------------
(***************************************************************************)
(* Arithmetic of the bounds: moves of centers and changes of influence.    *)
(***************************************************************************)

\* Products grow with their factors.
LEMMA ProductGrows ==
  ASSUME NEW a \in Nat, NEW b \in Nat, NEW c \in Nat, NEW d \in Nat, a <= c, b <= d
  PROVE  a * b <= c * d /\ a * b \in Nat /\ c * d \in Nat
  <1>1. a * b <= c * b
    OBVIOUS
  <1>2. c * b <= c * d
    OBVIOUS
  <1>3. a * b \in Nat /\ c * b \in Nat /\ c * d \in Nat
    OBVIOUS
  <1>4. QED
    BY <1>1, <1>2, <1>3

\* The upper bound after a center has moved by at most m.
LEMMA UpperMoves ==
  ASSUME NEW u \in Nat, NEW f \in Nat \ {0}, NEW d \in Nat, NEW m \in Nat, NEW e \in Nat,
         d * d * f <= u, e <= d + m
  PROVE  e * e * f <= u + (2 * m * RootUp(u, f) + m * m) * f
  <1>1. PICK r \in Nat : r = RootUp(u, f) /\ r * r * f >= u
    BY RootFound
  <1>2. d <= r
    <2> SUFFICES ASSUME r < d PROVE FALSE
      BY <1>1
    <2>1. r * r + 1 <= d * d
      <3>1. r * (r + 1) <= d * d /\ r * (r + 1) = r * r + r
        BY ProductGrows
      <3>2. r + 1 <= d /\ (r + 1) * (r + 1) <= d * d
        BY ProductGrows
      <3>3. (r + 1) * (r + 1) = r * r + 2 * r + 1
        OBVIOUS
      <3>4. r * r \in Nat /\ d * d \in Nat
        OBVIOUS
      <3>5. QED
        BY <3>2, <3>3, <3>4
    <2>2. (r * r + 1) * f <= (d * d) * f
      <3>1. r * r + 1 \in Nat /\ d * d \in Nat
        OBVIOUS
      <3>2. QED
        BY <2>1, <3>1, ProductGrows
    <2>3. (r * r + 1) * f = r * r * f + f
      OBVIOUS
    <2>4. r * r * f \in Nat /\ d * d * f \in Nat
      OBVIOUS
    <2>5. QED
      BY <1>1, <2>2, <2>3, <2>4
  <1>3. e * e <= (d + m) * (d + m)
    BY ProductGrows
  <1>4. (d + m) * (d + m) = d * d + (2 * m * d + m * m)
    OBVIOUS
  <1>5. 2 * m * d <= 2 * m * r /\ 2 * m * d \in Nat /\ 2 * m * r \in Nat
    <2>1. 2 * m \in Nat
      OBVIOUS
    <2>2. QED
      BY <1>2, <2>1, ProductGrows
  <1>6. PICK x, y, z, w : x = e * e /\ y = d * d /\ z = 2 * m * r /\ w = m * m
    OBVIOUS
  <1>7. x \in Nat /\ y \in Nat /\ z \in Nat /\ w \in Nat /\ x <= y + (z + w)
    BY <1>3, <1>4, <1>5, <1>6
  <1>8. x * f <= (y + (z + w)) * f
    BY <1>7, ProductGrows
  <1>9. (y + (z + w)) * f = y * f + (z + w) * f /\ y * f \in Nat /\ (z + w) * f \in Nat
    BY <1>7
  <1>10. x * f <= u + (z + w) * f
    <2>1. x * f \in Nat /\ y * f <= u
      BY <1>6, <1>7
    <2>2. QED
      BY <1>8, <1>9, <2>1
  <1>11. QED
    BY <1>1, <1>6, <1>10

\* What the lower bound loses is enough: with r * r * k >= l and r <= d, moving by m
\* costs at least as much.
LEMMA LowerGap ==
  ASSUME NEW l \in Nat, NEW k \in Nat \ {0}, NEW d \in Nat \ {0}, NEW m \in Nat, NEW r \in Nat,
         m <= r, r <= d, l <= r * r * k
  PROVE  (l - (2 * m * r - m * m) * k) * (d * d) <= l * ((d - m) * (d - m))
  <1>1. PICK s \in Nat, t \in Nat, g \in Nat : r = m + s /\ d = r + t /\ r * r * k = l + g
    <2>1. r - m \in Nat /\ d - r \in Nat /\ r * r * k - l \in Nat
      <3>1. r * r * k \in Nat
        OBVIOUS
      <3>2. QED
        BY <3>1
    <2>2. r = m + (r - m) /\ d = r + (d - r) /\ r * r * k = l + (r * r * k - l)
      OBVIOUS
    <2>3. QED
      BY <2>1, <2>2
  <1> DEFINE left == (l - (2 * m * r - m * m) * k) * (d * d)
             right == l * ((d - m) * (d - m))
  <1>2. right - left = m * ((2 * m * r - m * m) * 0 + (2 * r - m) * (d * d) * k - l * (2 * d - m))
    OBVIOUS
  <1>3. (2 * r - m) * (d * d) * k - l * (2 * d - m)
          = ((2 * r - m) * (d * d) - (r * r) * (2 * d - m)) * k + g * (2 * d - m)
    <2>1. l = r * r * k - g
      BY <1>1
    <2>2. QED
      BY <2>1
  <1>4. (2 * r - m) * (d * d) - (r * r) * (2 * d - m) = (d - r) * (2 * d * r - m * (d + r))
    OBVIOUS
  <1>5. 2 * d * r - m * (d + r) = s * (d + r) + t * r
    BY <1>1
  <1>6. /\ d - r = t /\ s * (d + r) + t * r \in Nat /\ 2 * d - m \in Nat
    <2>1. d + r \in Nat /\ s * (d + r) \in Nat /\ t * r \in Nat
      BY <1>1
    <2>2. QED
      BY <1>1, <2>1
  <1>7. PICK x \in Nat, y \in Nat : x = s * (d + r) + t * r /\ y = 2 * d - m
    BY <1>6
  <1>8. right - left = m * ((t * x) * k + g * y)
    BY <1>2, <1>3, <1>4, <1>5, <1>6, <1>7
  <1>9. m * ((t * x) * k + g * y) \in Nat
    <2>1. (t * x) * k \in Nat /\ g * y \in Nat
      <3>1. t * x \in Nat
        BY <1>1, <1>7
      <3>2. QED
        BY <1>1, <1>7, <3>1
    <2>2. QED
      BY <2>1
  <1>10. left \in Int /\ right \in Int
    OBVIOUS
  <1>11. QED
    BY <1>8, <1>9, <1>10

\* A positive factor can be left out on both sides.
LEMMA FactorCancels ==
  ASSUME NEW a \in Int, NEW b \in Int, NEW c \in Nat \ {0}
  PROVE  (a * c <= b * c => a <= b) /\ (a * c < b * c => a < b)
  <1>1. ASSUME b < a PROVE b * c < a * c
    <2>1. PICK e \in Nat \ {0} : a = b + e
      <3>1. a - b \in Nat \ {0} /\ a = b + (a - b)
        BY <1>1
      <3>2. QED
        BY <3>1
    <2>2. a * c = b * c + e * c /\ e * c > 0 /\ e * c \in Int /\ b * c \in Int
      BY <2>1
    <2>3. QED
      BY <2>2
  <1>2. a = b => a * c = b * c
    OBVIOUS
  <1>3. a * c \in Int /\ b * c \in Int
    OBVIOUS
  <1>4. QED
    BY <1>1, <1>2, <1>3

\* The smaller square has the smaller root.
LEMMA RootsCompare ==
  ASSUME NEW a \in Nat, NEW b \in Nat
  PROVE  (a * a <= b * b => a <= b) /\ (a * a < b * b => a < b)
  <1>1. ASSUME b < a PROVE b * b < a * a
    <2>1. b + 1 <= a /\ (b + 1) * (b + 1) <= a * a
      BY <1>1, ProductGrows
    <2>2. (b + 1) * (b + 1) = b * b + 2 * b + 1
      OBVIOUS
    <2>3. b * b \in Nat /\ a * a \in Nat
      OBVIOUS
    <2>4. QED
      BY <2>1, <2>2, <2>3
  <1>2. a = b => a * a = b * b
    OBVIOUS
  <1>3. a * a \in Nat /\ b * b \in Nat
    OBVIOUS
  <1>4. QED
    BY <1>1, <1>2, <1>3

\* The lower bound after all centers have moved by at most m.
LEMMA LowerMoves ==
  ASSUME NEW l \in Nat, NEW f \in Nat \ {0}, NEW k \in Nat \ {0}, f <= k,
         NEW d \in Nat, NEW e \in Nat, NEW m \in Nat,
         l <= d * d * f, d <= e + m, ~ l < m * m * k
  PROVE  l - (2 * m * RootUp(l, k) - m * m) * k <= e * e * f
  <1>1. PICK r \in Nat : /\ r = RootUp(l, k) /\ r * r * k >= l
                         /\ r = 0 \/ (r - 1) * (r - 1) * k < l
    BY RootFound
  <1>2. m * m \in Nat /\ d * d \in Nat /\ r * r \in Nat /\ e * e \in Nat
    OBVIOUS
  <1>3. m * m * k \in Nat /\ r * r * k \in Nat /\ d * d * f \in Nat /\ d * d * k \in Nat
        /\ m * m * f \in Nat /\ e * e * f \in Nat
    BY <1>2
  <1>4. (m * m) * f <= (m * m) * k /\ (d * d) * f <= (d * d) * k
    BY <1>2, ProductGrows
  <1>5. m <= d
    <2>1. (m * m) * f <= (d * d) * f
      BY <1>3, <1>4
    <2>2. m * m <= d * d
      BY <1>2, <2>1, FactorCancels
    <2>3. QED
      BY <2>2, RootsCompare
  <1>6. m <= r
    <2>1. (m * m) * k <= (r * r) * k
      BY <1>1, <1>3
    <2>2. m * m <= r * r
      BY <1>2, <2>1, FactorCancels
    <2>3. QED
      BY <2>2, RootsCompare
  <1>7. r <= d
    <2>1. CASE r = 0
      BY <2>1
    <2>2. CASE r # 0
      <3>1. PICK q \in Nat : q = r - 1
        BY <2>2
      <3>2. q * q \in Nat /\ q * q * k \in Nat
        BY <3>1
      <3>3. (q * q) * k < (d * d) * k
        BY <1>1, <1>3, <1>4, <2>2, <3>1, <3>2
      <3>4. q * q < d * d
        BY <1>2, <3>2, <3>3, FactorCancels
      <3>5. q < d
        BY <3>4, RootsCompare
      <3>6. QED
        BY <3>1, <3>5
    <2>3. QED
      BY <2>1, <2>2
  <1>8. PICK x \in Int : x = l - (2 * m * r - m * m) * k
    OBVIOUS
  <1>9. CASE d = 0
    <2>1. m = 0 /\ d * d = 0
      BY <1>5, <1>9
    <2>2. l = 0 /\ x = l
      BY <1>3, <1>8, <2>1
    <2>3. QED
      BY <1>1, <1>3, <1>8, <2>2
  <1>10. CASE d # 0
    <2>1. x * (d * d) <= l * ((d - m) * (d - m))
      BY <1>1, <1>5, <1>6, <1>7, <1>8, <1>10, LowerGap
    <2>2. PICK y \in Nat, z \in Nat : y = d - m /\ z = y * y
      <3>1. d - m \in Nat /\ (d - m) * (d - m) \in Nat
        BY <1>5
      <3>2. QED
        BY <3>1
    <2>3. l * z <= (d * d * f) * z
      BY <1>3, <2>2, ProductGrows
    <2>4. (d * d * f) * z = (z * f) * (d * d)
      OBVIOUS
    <2>5. x * (d * d) <= (z * f) * (d * d)
      <3>1. x * (d * d) \in Int /\ l * z \in Int /\ (z * f) * (d * d) \in Int
        OBVIOUS
      <3>2. QED
        BY <2>1, <2>2, <2>3, <2>4, <3>1
    <2>6. x <= z * f
      <3>1. d * d \in Nat \ {0}
        BY <1>10
      <3>2. z * f \in Int
        OBVIOUS
      <3>3. QED
        BY <2>5, <3>1, <3>2, FactorCancels
    <2>7. z <= e * e
      BY <2>2, ProductGrows
    <2>8. z * f <= (e * e) * f
      BY <1>2, <2>7, ProductGrows
    <2>9. z * f \in Int
      OBVIOUS
    <2>10. x <= e * e * f
      BY <1>3, <2>6, <2>8, <2>9
    <2>11. QED
      BY <1>1, <1>8, <2>10
  <1>11. QED
    BY <1>9, <1>10

\* Both bounds after a change of an influence from f to g, with z the squared distance.
LEMMA BoundsScale ==
  ASSUME NEW z \in Nat, NEW f \in Nat \ {0}, NEW g \in Nat \ {0}, NEW b \in Nat
  PROVE  /\ z * f <= b => z * g <= CeilDiv(b * g, f)
         /\ b <= z * f => (b * g) \div f <= z * g
         /\ CeilDiv(b * g, f) \in Nat /\ (b * g) \div f \in Nat
  <1>1. PICK y \in Nat : y = b * g
    OBVIOUS
  <1>2. z * f \in Nat /\ z * g \in Nat
    OBVIOUS
  <1>3. /\ y \div f \in Nat /\ f * (y \div f) <= y
        /\ (y + f - 1) \div f \in Nat /\ y <= f * ((y + f - 1) \div f)
    <2>1. y + f - 1 \in Nat
      OBVIOUS
    <2>2. \A n \in Nat : n \div f \in Nat /\ f * (n \div f) <= n /\ n < f * (n \div f) + f
      OBVIOUS
    <2>3. PICK q \in Nat, u \in Nat : q = (y + f - 1) \div f /\ u = y \div f
      BY <2>1, <2>2
    <2>4. f * u <= y /\ y + f - 1 < f * q + f /\ f * q \in Nat
      BY <2>1, <2>2, <2>3
    <2>5. QED
      BY <2>3, <2>4
  <1>4. ASSUME z * f <= b PROVE z * g <= CeilDiv(b * g, f)
    <2>1. PICK q \in Nat : q = (y + f - 1) \div f
      BY <1>3
    <2>2. (z * f) * g <= y
      BY <1>1, <1>2, <1>4, ProductGrows
    <2>3. (z * g) * f <= q * f
      <3>1. (z * f) * g = (z * g) * f /\ f * q = q * f /\ (z * g) * f \in Int /\ q * f \in Int
        OBVIOUS
      <3>2. QED
        BY <1>3, <2>1, <2>2, <3>1
    <2>4. z * g <= q
      BY <1>2, <2>3, FactorCancels
    <2>5. QED
      BY <1>1, <2>1, <2>4 DEF CeilDiv
  <1>5. ASSUME b <= z * f PROVE (b * g) \div f <= z * g
    <2>1. PICK u \in Nat : u = y \div f
      BY <1>3
    <2>2. y <= (z * f) * g
      BY <1>1, <1>2, <1>5, ProductGrows
    <2>3. u * f <= (z * g) * f
      <3>1. (z * f) * g = (z * g) * f /\ f * u = u * f /\ (z * g) * f \in Int /\ u * f \in Int
        OBVIOUS
      <3>2. QED
        BY <1>3, <2>1, <2>2, <3>1
    <2>4. u <= z * g
      BY <1>2, <2>3, FactorCancels
    <2>5. QED
      BY <1>1, <2>1, <2>4
  <1>6. QED
    BY <1>1, <1>3, <1>4, <1>5 DEF CeilDiv

-----------------------------------------------------------------------------
(***************************************************************************)
(* Samples, and when the loop may end.                                     *)
(***************************************************************************)

\* Powers of two.
LEMMA PowerOfTwo ==
  ASSUME NEW n \in Nat
  PROVE  2 ^ n \in Nat /\ 2 ^ n >= n /\ 2 ^ n >= 1
  <1> DEFINE S == 1 .. n
             f == [x \in S |-> {x}]
  <1>1. IsFiniteSet(S) /\ Cardinality(S) = n
    BY FS_Interval
  <1>2. f \in Injection(S, SUBSET S)
    BY DEF Injection, IsInjective
  <1> HIDE DEF S, f
  <1>3. IsFiniteSet(SUBSET S) /\ Cardinality(SUBSET S) = 2 ^ n
    BY <1>1, FS_SUBSET
  <1>4. Cardinality(SUBSET S) \in Nat /\ n <= Cardinality(SUBSET S)
    BY <1>1, <1>2, <1>3, FS_CardinalityType, FS_Injection
  <1>5. Cardinality(SUBSET S) # 0
    BY <1>3, FS_EmptySet
  <1>6. QED
    BY <1>3, <1>4, <1>5

\* A process with points has a number of them.
LEMMA LocalShape ==
  ASSUME input \in Inputs, NEW p
  PROVE  /\ IsFiniteSet(LocalPoints(p)) /\ Cardinality(LocalPoints(p)) \in Nat
         /\ LocalPoints(p) \subseteq Points
         /\ IsFiniteSet(SampledOf(p))
  BY InputShape, FS_Subset, FS_CardinalityType DEF LocalPoints, SampledOf

\* A first sample, unless it is everything.
LEMMA FirstSample ==
  ASSUME NEW k \in Nat \ {0}, MinSamplingNodes # -1
  PROVE  MinSamplingNodes \in Nat \ {0} /\ MinNodes(k) \in Nat
  <1>1. MinSamplingNodes \in Nat \ {0} /\ Cardinality(PEs) \in Nat \ {0}
    BY ProcessShape, KMeansAssumption
  <1>2. PICK x \in Nat : x = MinSamplingNodes * k
    BY <1>1
  <1>3. x \div Cardinality(PEs) \in Nat
    BY <1>1
  <1>4. QED
    BY <1>1, <1>2, <1>3 DEF MinNodes

\* There are enough rounds for the sample to reach all points.
LEMMA RoundsType ==
  ASSUME input \in Inputs, NEW k \in Nat \ {0}
  PROVE  SamplingRounds(k) \in Nat
  <1>1. CASE ~ RandomInit(k)
    BY <1>1 DEF SamplingRounds
  <1>2. CASE RandomInit(k)
    <2> DEFINE N == Cardinality(Points)
               T == {r \in 0 .. N : 2 ^ r * MinSamplingNodes * k >= N}
    <2>1. N \in Nat /\ MinSamplingNodes \in Nat \ {0}
      BY <1>2, InputShape, FirstSample, FS_CardinalityType DEF RandomInit
    <2>2. SamplingRounds(k) = 1 + Min(T)
      BY <1>2 DEF SamplingRounds
    <2> HIDE DEF N
    <2>3. N \in T
      <3>1. 2 ^ N \in Nat /\ 2 ^ N >= N
        BY <2>1, PowerOfTwo
      <3>2. PICK x \in Nat : x = 2 ^ N
        BY <3>1
      <3>3. x * 1 <= x * MinSamplingNodes /\ x * MinSamplingNodes \in Nat
        BY <2>1, ProductGrows
      <3>4. (x * MinSamplingNodes) * 1 <= (x * MinSamplingNodes) * k
            /\ (x * MinSamplingNodes) * k \in Nat
        BY <2>1, <3>3, ProductGrows
      <3>5. x * MinSamplingNodes * k >= N
        BY <2>1, <3>1, <3>2, <3>3, <3>4
      <3>6. QED
        BY <2>1, <3>2, <3>5
    <2>4. IsFiniteSet(T) /\ T \subseteq Int
      <3>1. IsFiniteSet(0 .. N)
        BY <2>1, FS_Interval
      <3>2. T \in SUBSET (0 .. N)
        OBVIOUS
      <3> HIDE DEF T
      <3>3. IsFiniteSet(T)
        BY <3>1, <3>2, FS_Subset
      <3>4. QED
        BY <3>2, <3>3
    <2>5. T \subseteq Nat
      OBVIOUS
    <2> HIDE DEF T
    <2>6. Min(T) \in T
      BY <2>3, <2>4, Extremes
    <2>7. PICK m \in Nat : m = Min(T)
      BY <2>5, <2>6
    <2>8. 1 + m \in Nat
      OBVIOUS
    <2>9. QED
      BY <2>2, <2>7, <2>8
  <1>3. QED
    BY <1>1, <1>2

\* From the last round on the sample is everything.  Before, it is empty either on every
\* process or on none.
LEMMA SampleShape ==
  ASSUME input \in Inputs, NEW k \in Nat \ {0}, NEW p \in PEs, NEW r \in Nat
  PROVE  /\ r >= SamplingRounds(k) - 1 => SampleSize(k, p, r) = Cardinality(LocalPoints(p))
         /\ RandomInit(k) => LocalPoints(p) # {} /\ SampleSize(k, p, r) \in Nat
         /\ RandomInit(k) =>
              (SampleSize(k, p, r) = 0 <=> ~ r >= SamplingRounds(k) - 1 /\ MinNodes(k) = 0)
  <1>1. PICK n \in Nat : n = Cardinality(LocalPoints(p))
    BY LocalShape
  <1>2. PICK m : m = MinNodes(k)
    OBVIOUS
  <1>3. RandomInit(k) => m \in Nat /\ n > m
    BY <1>1, <1>2, FirstSample DEF RandomInit
  <1>4. RandomInit(k) => n >= 1 /\ LocalPoints(p) # {}
    <2>1. LocalPoints(p) = {} => n = 0
      BY <1>1, FS_EmptySet
    <2>2. QED
      BY <1>3, <2>1
  <1>5. r >= SamplingRounds(k) - 1 => SampleSize(k, p, r) = n
    BY <1>1 DEF SampleSize
  <1>6. ASSUME RandomInit(k), ~ r >= SamplingRounds(k) - 1
        PROVE  SampleSize(k, p, r) \in Nat /\ (SampleSize(k, p, r) = 0 <=> m = 0)
    <2>1. 2 ^ r \in Nat /\ 2 ^ r >= 1 /\ m \in Nat
      BY <1>3, <1>6, PowerOfTwo
    <2>2. PICK x \in Nat, y \in Nat : x = 2 ^ r /\ y = x * m
      BY <2>1
    <2>3. y = 0 <=> m = 0
      <3>1. 1 * m <= x * m
        BY <2>1, <2>2, ProductGrows
      <3>2. m = 0 => x * m = 0
        BY <2>2
      <3>3. QED
        BY <2>1, <2>2, <3>1, <3>2
    <2>4. SampleSize(k, p, r) = Min({y, n})
      BY <1>1, <1>2, <1>6, <2>2 DEF SampleSize
    <2> DEFINE T == {y, n}
    <2>5. IsFiniteSet({y} \cup {n})
      BY FS_Singleton, FS_AddElement
    <2>6. T = {y} \cup {n} /\ T # {} /\ T \subseteq Int
      OBVIOUS
    <2> HIDE DEF T
    <2>7. Min(T) \in T /\ \A x1 \in T : Min(T) <= x1
      BY <2>5, <2>6, Extremes
    <2>8. Min(T) \in {y, n} /\ Min(T) <= y
      BY <2>7 DEF T
    <2>9. QED
      BY <1>4, <1>6, <2>3, <2>4, <2>8 DEF T
  <1>7. QED
    BY <1>1, <1>2, <1>3, <1>4, <1>5, <1>6

AllAre(s) == pc = [p \in PEs |-> s]
Working == pc \in [PEs -> {"assign", "weights", "centers"}]
Stuck == pc \in [PEs -> {"crashed", "bounds"}]
EveryoneHasPoints == \A p \in PEs : LocalPoints(p) # {}

(***************************************************************************)
(* The sample of every process has the size of its round, and the loop is  *)
(* left only when all points are in it and the blocks are balanced or the  *)
(* iterations are used up.  A loop that begins has points on all           *)
(* processes.                                                              *)
(***************************************************************************)
SampleInv ==
  IF RandomInit(NumNew)
  THEN \A p \in PEs : Cardinality(SampledOf(p)) = SampleSize(NumNew, p, iter)
  ELSE sampled = Points

RunInv ==
  /\ input \in Inputs /\ level \in 1 .. (Len(Levels) + 1)
  /\ iter \in Nat /\ sampled \in SUBSET Points
  /\ AllAre("start") \/ Working \/ AllAre("done") \/ AllAre("failed") \/ Stuck
  /\ Working => EveryoneHasPoints
  /\ ~ AllAre("start") => SampleInv
  /\ AllAre("done") => iter >= SamplingRounds(NumNew) /\ (Balanced \/ iter >= MaxIterations)

\* What depends on the input and the level only.
LEMMA SameLevel ==
  ASSUME input' = input, level' = level
  PROVE  /\ Points' = Points /\ Levels' = Levels /\ Grouping' = Grouping
         /\ NumNew' = NumNew /\ NewBlocks' = NewBlocks /\ Target' = Target
         /\ \A b : Range0(b)' = Range0(b)
  <1>1. Points' = Points /\ Levels' = Levels
    BY DEF Points, Levels
  <1>2. Grouping' = Grouping
    BY <1>1 DEF Grouping
  <1>3. NumNew' = NumNew /\ \A b : RangeStart(b)' = RangeStart(b)
    BY <1>2 DEF NumNew, RangeStart
  <1>4. QED
    BY <1>1, <1>2, <1>3 DEF NewBlocks, Range0, Target

\* What depends on the input only.
LEMMA SameInput ==
  ASSUME input' = input
  PROVE  /\ Points' = Points /\ Levels' = Levels
         /\ \A k : RandomInit(k)' = RandomInit(k)
         /\ \A k : SamplingRounds(k)' = SamplingRounds(k)
         /\ \A p : LocalPoints(p)' = LocalPoints(p)
         /\ \A k, p, r : SampleSize(k, p, r)' = SampleSize(k, p, r)
  <1>1. Points' = Points /\ Levels' = Levels
    BY DEF Points, Levels
  <1>2. \A p : LocalPoints(p)' = LocalPoints(p)
    BY <1>1 DEF LocalPoints
  <1>3. \A k : RandomInit(k)' = RandomInit(k)
    BY <1>2 DEF RandomInit, MinNodes
  <1>4. \A k : SamplingRounds(k)' = SamplingRounds(k)
    BY <1>1, <1>3 DEF SamplingRounds
  <1>5. \A k, p, r : SampleSize(k, p, r)' = SampleSize(k, p, r)
    BY <1>2, <1>4 DEF SampleSize, MinNodes
  <1>6. QED
    BY <1>1, <1>2, <1>3, <1>4, <1>5

\* The start of a loop takes the first sample, if every process has points.
LEMMA LoopSamples ==
  ASSUME RunInv, input' = input, level' \in 1 .. (Len(Levels) + 1), NEW c, NEW a, Loop(c, a)
  PROVE  RunInv'
  <1>1. /\ sampled' \in IF RandomInit(NumNew') THEN Samples(NumNew', {}, 0) ELSE {Points}
        /\ iter' = 0 /\ pc' = [p \in PEs |-> Begins(p)]
    BY DEF Loop
  <1>2. /\ input' \in Inputs /\ level' \in 1 .. (Len(Levels') + 1) /\ iter' \in Nat
        /\ sampled' \in SUBSET Points'
    BY <1>1, SameInput DEF RunInv, Samples
  <1>3. EveryoneHasPoints' <=> EveryoneHasPoints
    BY SameInput DEF EveryoneHasPoints
  <1>4. /\ ~ AllAre("done")' /\ (Working \/ Stuck)'
        /\ Working' => EveryoneHasPoints'
    <2>1. \A p \in PEs : pc'[p] = Begins(p)
      BY <1>1
    <2>2. \A p \in PEs : /\ EveryoneHasPoints => Begins(p) = "assign"
                         /\ ~ EveryoneHasPoints => Begins(p) \in {"crashed", "bounds"}
      BY DEF Begins, EveryoneHasPoints
    <2>3. PICK p \in PEs : TRUE
      BY ProcessShape
    <2>4. CASE EveryoneHasPoints
      <3>1. pc' \in [PEs -> {"assign", "weights", "centers"}]
        BY <1>1, <2>2, <2>4
      <3>2. QED
        BY <1>3, <2>1, <2>2, <2>3, <2>4, <3>1 DEF Working, AllAre
    <2>5. CASE ~ EveryoneHasPoints
      <3>1. pc' \in [PEs -> {"crashed", "bounds"}]
        BY <1>1, <2>2, <2>5
      <3>2. pc'[p] \in {"crashed", "bounds"}
        BY <3>1, <2>3
      <3>3. ~ Working'
        BY <3>2 DEF Working
      <3>4. QED
        BY <3>1, <3>2, <3>3 DEF Stuck, AllAre
    <2>6. QED
      BY <2>4, <2>5
  <1>5. SampleInv'
    <2>1. CASE RandomInit(NumNew')
      <3>1. \A p \in PEs :
              Cardinality(sampled' \cap LocalPoints(p)) = SampleSize(NumNew', p, 0)
        BY <1>1, <2>1 DEF Samples
      <3>2. QED
        BY <1>1, <2>1, <3>1, SameInput DEF SampleInv, SampledOf
    <2>2. CASE ~ RandomInit(NumNew')
      BY <1>1, <2>2, SameInput DEF SampleInv
    <2>3. QED
      BY <2>1, <2>2
  <1>6. QED
    BY <1>2, <1>4, <1>5 DEF RunInv

\* All processes being in one place excludes the others.
LEMMA OnePhase ==
  /\ ~ (AllAre("start") /\ AllAre("done")) /\ ~ (AllAre("start") /\ AllAre("failed"))
  /\ ~ (AllAre("done") /\ AllAre("failed"))
  /\ Working => ~ AllAre("start") /\ ~ AllAre("done") /\ ~ AllAre("failed") /\ ~ Stuck
  /\ Stuck => ~ AllAre("start") /\ ~ AllAre("done") /\ ~ AllAre("failed")
  <1>1. PICK p \in PEs : TRUE
    BY ProcessShape
  <1>2. \A s : AllAre(s) => pc[p] = s
    BY DEF AllAre
  <1>3. Working => pc[p] \in {"assign", "weights", "centers"}
    BY DEF Working
  <1>4. Stuck => pc[p] \in {"crashed", "bounds"}
    BY DEF Stuck
  <1>5. AllAre("start") => pc[p] = "start"
    BY <1>2
  <1>6. AllAre("done") => pc[p] = "done"
    BY <1>2
  <1>7. AllAre("failed") => pc[p] = "failed"
    BY <1>2
  <1>8. QED
    BY <1>3, <1>4, <1>5, <1>6, <1>7

\* A process that does something is in the loop.
LEMMA InLoop ==
  ASSUME RunInv, NEW p \in PEs, pc[p] \in {"assign", "weights", "centers"}
  PROVE  Working
  BY DEF RunInv, AllAre, Stuck

\* Whoever waits for all processes finds them at one place.
LEMMA AllThere ==
  ASSUME RunInv, NEW s, \A p \in PEs : pc[p] = s
  PROVE  AllAre(s)
  BY DEF RunInv, AllAre, Working, Stuck

\* The invariant holds at the start.
LEMMA InitRun == Init => RunInv
  <1> SUFFICES ASSUME Init PROVE RunInv
    OBVIOUS
  <1>1. input \in Inputs /\ level = 1 /\ AllAre("start") /\ sampled = {} /\ iter = 0
    BY DEF Init, AllAre
  <1>2. 1 \in 1 .. (Len(Levels) + 1)
    BY <1>1, InputShape
  <1>3. ~ AllAre("done") /\ ~ Working
    BY <1>1, OnePhase
  <1>4. QED
    BY <1>1, <1>2, <1>3 DEF RunInv

\* A step inside the loop that leaves the sample alone.
LEMMA StepInLoop ==
  ASSUME RunInv, Working, Working', UNCHANGED <<input, level, sampled, iter>>
  PROVE  RunInv'
  <1>1. /\ input' \in Inputs /\ level' \in 1 .. (Len(Levels') + 1) /\ iter' \in Nat
        /\ sampled' \in SUBSET Points'
    BY SameInput DEF RunInv
  <1>2. SampleInv /\ EveryoneHasPoints
    BY OnePhase DEF RunInv
  <1>3. SampleInv' /\ EveryoneHasPoints'
    BY <1>2, SameInput, SameLevel DEF SampleInv, SampledOf, EveryoneHasPoints
  <1>4. ~ AllAre("done")'
    BY OnePhase, PTL
  <1>5. QED
    BY <1>1, <1>3, <1>4 DEF RunInv

\* A step from one place where all processes are to another one, outside of the loop.
LEMMA MoveRun ==
  ASSUME RunInv, MoveCenters
  PROVE  RunInv'
  <1> DEFINE new == [j \in NewBlocks |-> FindCenter(j)]
             delta == [j \in NewBlocks |-> IF new[j] >= centers[j] THEN new[j] - centers[j]
                                           ELSE centers[j] - new[j]]
             moved == Max({delta[j] : j \in NewBlocks})
             again == \/ iter + 1 < SamplingRounds(NumNew)
                      \/ iter + 1 < MaxIterations /\ (moved > Threshold \/ ~ Balanced)
  <1>1. /\ AllAre("centers") /\ iter' = iter + 1
        /\ UNCHANGED <<input, level, assignment>>
    <2>1. \A p \in PEs : pc[p] = "centers"
      BY DEF MoveCenters
    <2>2. QED
      BY <2>1, AllThere DEF MoveCenters
  <1>2. /\ again => /\ pc' = [p \in PEs |-> "assign"]
                    /\ IF iter + 1 < SamplingRounds(NumNew)
                       THEN sampled' \in Samples(NumNew, sampled, iter + 1)
                       ELSE sampled' = sampled
        /\ ~ again => pc' = [p \in PEs |-> "done"] /\ sampled' = sampled
    BY DEF MoveCenters
  <1> HIDE DEF new, delta, moved
  <1>3. Working /\ ~ AllAre("start")
    <2>1. \A p \in PEs : pc[p] = "centers"
      BY <1>1 DEF AllAre
    <2>2. PICK p \in PEs : pc[p] = "centers"
      BY <2>1, ProcessShape
    <2>3. QED
      BY <2>2, InLoop, OnePhase
  <1>4. /\ SampleInv /\ input \in Inputs /\ iter \in Nat /\ NumNew \in Nat \ {0}
        /\ SamplingRounds(NumNew) \in Nat /\ NumNew' = NumNew
        /\ EveryoneHasPoints /\ EveryoneHasPoints'
    <2>1. SampleInv /\ input \in Inputs /\ iter \in Nat /\ EveryoneHasPoints
      BY <1>3 DEF RunInv
    <2>2. NumNew \in Nat \ {0}
      BY GroupingShape DEF RunInv
    <2>3. EveryoneHasPoints' /\ NumNew' = NumNew
      BY <1>1, <2>1, SameInput, SameLevel DEF EveryoneHasPoints
    <2>4. QED
      BY <2>1, <2>2, <2>3, RoundsType
  <1>5. /\ input' \in Inputs /\ level' \in 1 .. (Len(Levels') + 1) /\ iter' \in Nat
        /\ sampled' \in SUBSET Points'
    BY <1>1, <1>2, SameInput DEF RunInv, Samples
  <1>6. SampleInv'
    <2>1. CASE sampled' \in Samples(NumNew, sampled, iter + 1) /\ RandomInit(NumNew)
      <3>1. \A p \in PEs :
              Cardinality(sampled' \cap LocalPoints(p)) = SampleSize(NumNew, p, iter + 1)
        BY <2>1 DEF Samples
      <3>2. QED
        BY <1>1, <1>4, <2>1, <3>1, SameInput DEF SampleInv, SampledOf
    <2>2. CASE sampled' = sampled /\ RandomInit(NumNew) /\ iter + 1 >= SamplingRounds(NumNew)
      <3>1. ASSUME NEW p \in PEs
            PROVE  Cardinality(sampled' \cap LocalPoints(p)) = SampleSize(NumNew, p, iter + 1)
        <4>1. iter >= SamplingRounds(NumNew) - 1 /\ iter + 1 >= SamplingRounds(NumNew) - 1
          BY <1>4, <2>2
        <4>2. iter + 1 \in Nat
          BY <1>4
        <4>3. SampleSize(NumNew, p, iter) = SampleSize(NumNew, p, iter + 1)
          BY <1>4, <4>1, <4>2, SampleShape
        <4>4. QED
          BY <1>4, <2>2, <4>3 DEF SampleInv, SampledOf
      <3>2. QED
        BY <1>1, <1>4, <2>2, <3>1, SameInput DEF SampleInv, SampledOf
    <2>3. CASE ~ RandomInit(NumNew)
      <3>1. SamplingRounds(NumNew) = 0
        BY <2>3 DEF SamplingRounds
      <3>2. sampled' = sampled
        BY <1>2, <1>4, <3>1
      <3>3. QED
        BY <1>1, <1>4, <2>3, <3>2, SameInput DEF SampleInv
    <2>4. QED
      BY <1>2, <1>4, <2>1, <2>2, <2>3
  <1>7. CASE again
    <2>1. Working'
      BY <1>2, <1>7 DEF Working
    <2>2. ~ AllAre("done")'
      BY <2>1, OnePhase, PTL
    <2>3. QED
      BY <1>4, <1>5, <1>6, <2>1, <2>2 DEF RunInv
  <1>8. CASE ~ again
    <2>1. AllAre("done")' /\ ~ AllAre("start")' /\ ~ Working'
      <3>1. AllAre("done")'
        BY <1>2, <1>8 DEF AllAre
      <3>2. QED
        BY <3>1, OnePhase, PTL
    <2>2. sampled' = sampled
      BY <1>2, <1>8
    <2>3. iter' >= SamplingRounds(NumNew)' /\ (Balanced \/ iter' >= MaxIterations)
      BY <1>1, <1>4, <1>8, SameInput, KMeansAssumption
    <2>4. Balanced' = Balanced
      <3>1. \A j : BlockWeight(j)' = BlockWeight(j)
        BY <1>1, <2>2 DEF BlockWeight
      <3>2. \A j : Fits(j)' = Fits(j)
        BY <1>1, <2>2, <3>1, SameLevel DEF Fits
      <3>3. QED
        BY <1>1, <3>2, SameLevel DEF Balanced
    <2>5. QED
      BY <1>5, <1>6, <2>1, <2>3, <2>4 DEF RunInv
  <1>9. QED
    BY <1>7, <1>8

\* Every step keeps the invariant.
LEMMA NextRun == RunInv /\ [Next]_vars => RunInv'
  <1> SUFFICES ASSUME RunInv, [Next]_vars PROVE RunInv'
    OBVIOUS
  <1>1. CASE UNCHANGED vars
    <2>1. UNCHANGED <<input, level, sampled, iter, pc, assignment>>
      BY <1>1 DEF vars
    <2>2. Points' = Points /\ NumNew' = NumNew
          /\ SamplingRounds(NumNew)' = SamplingRounds(NumNew)
      BY <2>1, SameInput, SameLevel
    <2>3. SampleInv' = SampleInv /\ EveryoneHasPoints' = EveryoneHasPoints
      BY <2>1, <2>2, SameInput DEF SampleInv, SampledOf, EveryoneHasPoints
    <2>4. Balanced' = Balanced
      <3>1. \A j : BlockWeight(j)' = BlockWeight(j)
        BY <2>1 DEF BlockWeight
      <3>2. \A j : Fits(j)' = Fits(j)
        BY <2>1, <3>1, SameLevel DEF Fits
      <3>3. QED
        BY <2>1, <3>2, SameLevel DEF Balanced
    <2>5. QED
      BY <2>1, <2>2, <2>3, <2>4, SameInput DEF RunInv, AllAre, Working, Stuck
  <1>2. CASE Start
    <2>1. input' = input /\ level' = level /\ \E c, a : Loop(c, a)
      BY <1>2 DEF Start, StartLevel
    <2>2. level' \in 1 .. (Len(Levels) + 1)
      BY <2>1 DEF RunInv
    <2>3. QED
      BY <2>1, <2>2, LoopSamples
  <1>3. ASSUME NEW p \in PEs, AssignBlocks(p) PROVE RunInv'
    <2>1. pc[p] = "assign" /\ UNCHANGED <<input, level, sampled, iter>>
      BY <1>3 DEF AssignBlocks
    <2>2. Working
      BY <2>1, InLoop
    <2>3. pc' = [pc EXCEPT ![p] = "centers"] \/ pc' = [pc EXCEPT ![p] = "weights"]
      BY <1>3 DEF AssignBlocks
    <2>4. Working'
      BY <2>2, <2>3 DEF Working
    <2>5. QED
      BY <2>1, <2>2, <2>4, StepInLoop
  <1>4. CASE BalanceRound
    <2>1. /\ \A p \in PEs : pc[p] = "weights"
          /\ UNCHANGED <<input, level, sampled, iter>>
          /\ pc' = [p \in PEs |-> "assign"] \/ pc' = [p \in PEs |-> "centers"]
      BY <1>4 DEF BalanceRound
    <2>2. Working
      BY <2>1, ProcessShape, InLoop
    <2>3. Working'
      BY <2>1 DEF Working
    <2>4. QED
      BY <2>1, <2>2, <2>3, StepInLoop
  <1>5. CASE MoveCenters
    BY <1>5, MoveRun
  <1>6. CASE NextLevel
    <2>1. input' = input /\ level' = level + 1 /\ level < Len(Levels) /\ \E c, a : Loop(c, a)
      BY <1>6 DEF NextLevel, StartLevel
    <2>2. level' \in 1 .. (Len(Levels) + 1)
      BY <2>1, InputShape DEF RunInv
    <2>3. QED
      BY <2>1, <2>2, LoopSamples
  <1>7. CASE Repartition
    <2>1. AllAre("done") /\ level = Len(Levels)
      BY <1>7, AllThere DEF Repartition
    <2>2. CASE pc' = [p \in PEs |-> "failed"] /\ UNCHANGED <<input, level, sampled, iter>>
      <3>1. AllAre("failed")'
        BY <2>2 DEF AllAre
      <3>2. ~ AllAre("done")' /\ ~ AllAre("start")' /\ ~ Working'
        BY <3>1, OnePhase, PTL
      <3>3. SampleInv
        BY <2>1, OnePhase DEF RunInv
      <3>4. SampleInv'
        BY <2>2, <3>3, SameInput, SameLevel DEF SampleInv, SampledOf
      <3>5. QED
        BY <2>2, <3>1, <3>2, <3>4, SameInput DEF RunInv
    <2>3. CASE level' = level + 1 /\ input' = input /\ \E c, a : Loop(c, a)
      <3>1. level' \in 1 .. (Len(Levels) + 1)
        BY <2>1, <2>3, InputShape DEF RunInv
      <3>2. QED
        BY <2>3, <3>1, LoopSamples
    <2>4. QED
      BY <1>7, <2>2, <2>3 DEF Repartition
  <1>8. CASE Ended
    BY <1>1, <1>8 DEF Ended
  <1>9. QED
    BY <1>1, <1>2, <1>3, <1>4, <1>5, <1>6, <1>7, <1>8 DEF Next

\* The invariant always holds.
THEOREM SpecRunInv == Spec => []RunInv
  BY InitRun, NextRun, PTL DEF Spec

\* However the points are sampled, distributed and shuffled, k-means does not end before
\* every point has been in the sample, and not unbalanced before the iterations are used up.
THEOREM AlwaysComplete == Spec => []EndsComplete
  <1>1. RunInv => EndsComplete
    <2> SUFFICES ASSUME RunInv, \A p \in PEs : pc[p] = "done"
                 PROVE  sampled = Points /\ (Balanced \/ iter >= MaxIterations)
      BY DEF EndsComplete
    <2>1. AllAre("done") /\ ~ AllAre("start")
      BY AllThere, OnePhase
    <2>2. /\ iter >= SamplingRounds(NumNew) /\ (Balanced \/ iter >= MaxIterations)
          /\ SampleInv /\ input \in Inputs /\ iter \in Nat /\ sampled \subseteq Points
          /\ NumNew \in Nat \ {0}
      BY <2>1, GroupingShape DEF RunInv
    <2>3. CASE RandomInit(NumNew)
      <3>1. ASSUME NEW i \in Points PROVE i \in sampled
        <4>1. PICK p \in PEs : p = input.home[i]
          BY <2>2, InputShape
        <4>2. i \in LocalPoints(p)
          BY <4>1 DEF LocalPoints
        <4>3. iter >= SamplingRounds(NumNew) - 1
          BY <2>2, RoundsType
        <4>4. Cardinality(SampledOf(p)) = Cardinality(LocalPoints(p))
          BY <2>2, <2>3, <4>3, SampleShape DEF SampleInv
        <4>5. SampledOf(p) \in SUBSET LocalPoints(p) /\ IsFiniteSet(LocalPoints(p))
          BY <2>2, LocalShape DEF SampledOf
        <4>6. LocalPoints(p) = SampledOf(p)
          BY <4>4, <4>5, FS_Subset
        <4>7. QED
          BY <4>2, <4>6 DEF SampledOf
      <3>2. QED
        BY <2>2, <3>1
    <2>4. CASE ~ RandomInit(NumNew)
      BY <2>2, <2>4 DEF SampleInv
    <2>5. QED
      BY <2>2, <2>3, <2>4
  <1>2. QED
    BY <1>1, SpecRunInv, PTL

-----------------------------------------------------------------------------
(***************************************************************************)
(* Processes in different sums.                                            *)
(***************************************************************************)

\* Either every process has points in its sample, and all wait in the sums of the weights
\* before any is in those of the centers, or none has, and no process is in the sums of
\* the weights at all.
SumsInv ==
  Working =>
    \/ /\ \A p \in PEs : SampledOf(p) # {}
       /\ AllAre("centers") \/ pc \in [PEs -> {"assign", "weights"}]
    \/ /\ \A p \in PEs : SampledOf(p) = {}
       /\ pc \in [PEs -> {"assign", "centers"}]

EvenSamples ==
  \/ \A p \in PEs : SampledOf(p) # {}
  \/ \A p \in PEs : SampledOf(p) = {}

\* Samples are empty on all processes or on none.
LEMMA SamplesAreEven == RunInv /\ Working => EvenSamples
  <1> SUFFICES ASSUME RunInv, Working PROVE EvenSamples
    OBVIOUS
  <1>1. SampleInv /\ EveryoneHasPoints /\ input \in Inputs /\ iter \in Nat
    BY OnePhase DEF RunInv
  <1>2. PICK k \in Nat \ {0} : k = NumNew
    BY GroupingShape DEF RunInv
  <1>3. CASE RandomInit(NumNew)
    <2>1. ASSUME NEW p \in PEs
          PROVE  SampledOf(p) = {} <=> ~ iter >= SamplingRounds(k) - 1 /\ MinNodes(k) = 0
      <3>1. Cardinality(SampledOf(p)) = SampleSize(k, p, iter)
        BY <1>1, <1>2, <1>3 DEF SampleInv
      <3>2. IsFiniteSet(SampledOf(p))
        BY <1>1, LocalShape
      <3>3. SampledOf(p) = {} <=> SampleSize(k, p, iter) = 0
        BY <3>1, <3>2, FS_EmptySet
      <3>4. RandomInit(k)
        BY <1>2, <1>3
      <3>5. SampleSize(k, p, iter) = 0 <=> ~ iter >= SamplingRounds(k) - 1 /\ MinNodes(k) = 0
        BY <1>1, <3>4, SampleShape
      <3>6. QED
        BY <3>3, <3>5
    <2>2. QED
      BY <2>1 DEF EvenSamples
  <1>4. CASE ~ RandomInit(NumNew)
    <2>1. \A p \in PEs : SampledOf(p) = LocalPoints(p)
      BY <1>1, <1>4, LocalShape DEF SampleInv, SampledOf
    <2>2. QED
      BY <1>1, <2>1 DEF EveryoneHasPoints, EvenSamples
  <1>5. QED
    BY <1>3, <1>4

\* Whoever begins to assign, does so with all others.
LEMMA AllAssign ==
  ASSUME EvenSamples, pc = [p \in PEs |-> "assign"]
  PROVE  SumsInv
  <1>1. pc \in [PEs -> {"assign", "weights"}] /\ pc \in [PEs -> {"assign", "centers"}]
    OBVIOUS
  <1>2. QED
    BY <1>1 DEF EvenSamples, SumsInv

\* Every step keeps the processes together.
LEMMA NextSums == RunInv /\ RunInv' /\ SumsInv /\ [Next]_vars => SumsInv'
  <1> SUFFICES ASSUME RunInv, RunInv', SumsInv, [Next]_vars PROVE SumsInv'
    OBVIOUS
  <1>1. ASSUME UNCHANGED vars PROVE SumsInv'
    <2>1. pc' = pc /\ sampled' = sampled /\ input' = input
      BY <1>1 DEF vars
    <2>2. \A p : SampledOf(p)' = SampledOf(p)
      BY <2>1, SameInput DEF SampledOf
    <2>3. QED
      BY <2>1, <2>2 DEF SumsInv, AllAre, Working
  <1>2. (Working => EvenSamples)'
    BY SamplesAreEven, PTL
  <1>3. ASSUME pc' = [p \in PEs |-> "assign"] PROVE SumsInv'
    <2>1. Working'
      BY <1>3 DEF Working
    <2>2. EvenSamples' /\ (pc = [p \in PEs |-> "assign"])'
      BY <1>2, <1>3, <2>1
    <2>3. QED
      BY <2>2, AllAssign, PTL
  <1>4. ASSUME \E s \in {"done", "failed"} : pc' = [p \in PEs |-> s] PROVE SumsInv'
    <2>1. AllAre("done")' \/ AllAre("failed")'
      BY <1>4 DEF AllAre
    <2>2. ~ Working'
      BY <2>1, OnePhase, PTL
    <2>3. QED
      BY <2>2 DEF SumsInv
  <1>5. ASSUME NEW c, NEW a, Loop(c, a) PROVE SumsInv'
    <2>1. pc' = [p \in PEs |-> Begins(p)]
      BY <1>5 DEF Loop
    <2>2. \A p \in PEs : Begins(p) \in {"assign", "crashed", "bounds"}
      BY DEF Begins
    <2>3. CASE Working'
      <3>1. \A p \in PEs : Begins(p) \in {"assign", "weights", "centers"}
        BY <2>1, <2>3 DEF Working
      <3>2. \A p \in PEs : Begins(p) = "assign"
        BY <2>2, <3>1
      <3>3. pc' = [p \in PEs |-> "assign"]
        BY <2>1, <3>2
      <3>4. QED
        BY <1>3, <3>3
    <2>4. CASE ~ Working'
      BY <2>4 DEF SumsInv
    <2>5. QED
      BY <2>3, <2>4
  <1>6. ASSUME NEW p \in PEs, AssignBlocks(p) PROVE SumsInv'
    <2>1. pc[p] = "assign" /\ sampled' = sampled /\ input' = input
      BY <1>6 DEF AssignBlocks
    <2>2. Working
      BY <2>1, InLoop
    <2>3. \A q : SampledOf(q)' = SampledOf(q)
      BY <2>1, SameInput DEF SampledOf
    <2>4. CASE SampledOf(p) # {}
      <3>1. pc' = [pc EXCEPT ![p] = "weights"]
        BY <1>6, <2>4 DEF AssignBlocks
      <3>2. /\ \A q \in PEs : SampledOf(q) # {}
            /\ AllAre("centers") \/ pc \in [PEs -> {"assign", "weights"}]
        BY <2>2, <2>4 DEF SumsInv
      <3>3. pc \in [PEs -> {"assign", "weights"}]
        BY <2>1, <3>2 DEF AllAre
      <3>4. pc' \in [PEs -> {"assign", "weights"}]
        BY <3>1, <3>3
      <3>5. QED
        BY <2>3, <3>2, <3>4 DEF SumsInv
    <2>5. CASE SampledOf(p) = {}
      <3>1. pc' = [pc EXCEPT ![p] = "centers"]
        BY <1>6, <2>5 DEF AssignBlocks
      <3>2. /\ \A q \in PEs : SampledOf(q) = {}
            /\ pc \in [PEs -> {"assign", "centers"}]
        BY <2>2, <2>5 DEF SumsInv
      <3>3. pc' \in [PEs -> {"assign", "centers"}]
        BY <3>1, <3>2
      <3>4. QED
        BY <2>3, <3>2, <3>3 DEF SumsInv
    <2>6. QED
      BY <2>4, <2>5
  <1>7. CASE BalanceRound
    <2>1. /\ \A p \in PEs : pc[p] = "weights"
          /\ sampled' = sampled /\ input' = input
          /\ pc' = [p \in PEs |-> "assign"] \/ pc' = [p \in PEs |-> "centers"]
      BY <1>7 DEF BalanceRound
    <2>2. PICK p \in PEs : pc[p] = "weights"
      BY <2>1, ProcessShape
    <2>3. Working
      BY <2>2, InLoop
    <2>4. \A q \in PEs : SampledOf(q) # {}
      <3>1. ~ pc \in [PEs -> {"assign", "centers"}]
        BY <2>2
      <3>2. QED
        BY <2>3, <3>1 DEF SumsInv
    <2>5. \A q \in PEs : SampledOf(q)' # {}
      BY <2>1, <2>4, SameInput DEF SampledOf
    <2>6. CASE pc' = [q \in PEs |-> "centers"]
      BY <2>5, <2>6 DEF SumsInv, AllAre
    <2>7. QED
      BY <1>3, <2>1, <2>6
  <1>8. CASE MoveCenters
    BY <1>3, <1>4, <1>8 DEF MoveCenters
  <1>9. CASE Start \/ NextLevel
    BY <1>5, <1>9 DEF Start, NextLevel, StartLevel
  <1>10. CASE Repartition
    BY <1>4, <1>5, <1>10 DEF Repartition
  <1>11. CASE Ended
    BY <1>1, <1>11 DEF Ended
  <1>12. QED
    BY <1>1, <1>6, <1>7, <1>8, <1>9, <1>10, <1>11 DEF Next

\* No process is left in the sums of the block weights by one that has gone on to the
\* sums of the centers: a sample is empty on all processes or on none.
THEOREM NobodyLeftInSums == Spec => []SameSums
  <1>1. Init => SumsInv
    <2> SUFFICES ASSUME Init PROVE SumsInv
      OBVIOUS
    <2>1. AllAre("start")
      BY DEF Init, AllAre
    <2>2. QED
      BY <2>1, OnePhase DEF SumsInv
  <1>2. RunInv /\ RunInv' /\ SumsInv /\ [Next]_vars => SumsInv'
    BY NextSums
  <1>3. RunInv /\ SumsInv => SameSums
    <2> SUFFICES ASSUME RunInv, SumsInv, NEW p \in PEs, NEW q \in PEs,
                        pc[p] = "weights", pc[q] = "centers"
                 PROVE  FALSE
      BY DEF SameSums
    <2>1. Working
      BY InLoop
    <2>2. ~ AllAre("centers")
      BY DEF AllAre
    <2>3. ~ pc \in [PEs -> {"assign", "weights"}] /\ ~ pc \in [PEs -> {"assign", "centers"}]
      OBVIOUS
    <2>4. QED
      BY <2>1, <2>2, <2>3 DEF SumsInv
  <1>4. QED
    BY <1>1, <1>2, <1>3, SpecRunInv, PTL DEF Spec

-----------------------------------------------------------------------------
(***************************************************************************)
(* The bounds of the points, from one step to the next.                    *)
(***************************************************************************)

\* The bounds of a point that has not been looked at.
Fresh(i) == upper[i] = Huge /\ lower[i] = 0

\* The bounds of one that has.
Bounded(i) ==
  /\ assignment[i] \in Range0(father[i])
  /\ EffDist(i, assignment[i]) <= upper[i]
  /\ \A j \in Range0(father[i]) \ {assignment[i]} : lower[i] <= EffDist(i, j)

IsClosest(i) == \A j \in Range0(father[i]) : EffDist(i, assignment[i]) <= EffDist(i, j)

PointInv(i) ==
  /\ Fresh(i) \/ (i \in sampled /\ Bounded(i))
  /\ i \in sampled /\ pc[input.home[i]] \in {"weights", "centers"} => Bounded(i)
  /\ i \in sampled /\ pc[input.home[i]] = "weights" => IsClosest(i)

TypesInv ==
  /\ father \in [Points -> 0 .. (Len(Grouping) - 1)]
  /\ assignment \in [Points -> NewBlocks]
  /\ upper \in [Points -> Nat] /\ lower \in [Points -> Nat]
  /\ ~ AllAre("start") => HasCenters
  /\ AllAre("start") => level = 1

BoundsInv ==
  /\ TypesInv
  /\ \A i \in Points : PointInv(i)
  /\ \A p \in PEs : pc[p] = "weights" => SampledOf(p) # {}

\* No distance reaches the largest number.
InRange == ~ AllAre("start") => \A i \in Points, j \in NewBlocks : EffDist(i, j) < Huge

\* The average of some points.
LEMMA AverageType ==
  ASSUME input \in Inputs, NEW S \in SUBSET Points, S # {}
  PROVE  SumOver(LAMBDA i : input.pos[i], S) \div Cardinality(S) \in Int
  <1>1. IsFiniteSet(S) /\ \A i \in S : input.pos[i] \in Int
    BY InputShape, FS_Subset
  <1>2. Cardinality(S) \in Nat \ {0}
    BY <1>1, FS_CardinalityType, FS_EmptySet
  <1>3. SumOver(LAMBDA i : input.pos[i], S) = WeightOf(input.pos, S)
    BY Zenon DEF SumOver, WeightOf
  <1>4. WeightOf(input.pos, S) \in Int
    BY <1>1, WeightType
  <1>5. PICK x \in Int, n \in Nat \ {0} : x = WeightOf(input.pos, S) /\ n = Cardinality(S)
    BY <1>2, <1>4
  <1>6. x \div n \in Int
    OBVIOUS
  <1>7. QED
    BY <1>3, <1>5, <1>6

\* Centers of blocks are integers.
LEMMA FindCenterType ==
  ASSUME input \in Inputs, sampled \subseteq Points, HasCenters, NEW j \in NewBlocks
  PROVE  FindCenter(j) \in Int
  <1>1. CASE Members(j) = {}
    BY <1>1 DEF FindCenter, HasCenters
  <1>2. CASE Members(j) # {}
    <2>1. Members(j) \in SUBSET Points
      BY DEF Members
    <2>2. SumOver(LAMBDA i : input.pos[i], Members(j)) \div Cardinality(Members(j)) \in Int
      BY <1>2, <2>1, AverageType
    <2>3. QED
      BY <1>2, <2>2 DEF FindCenter
  <1>3. QED
    BY <1>1, <1>2

\* So are those of processes.
LEMMA LocalCenterType ==
  ASSUME input \in Inputs, NEW p
  PROVE  LocalCenter(p) \in Int
  <1>1. CASE LocalPoints(p) = {}
    BY <1>1 DEF LocalCenter
  <1>2. CASE LocalPoints(p) # {}
    <2>1. LocalPoints(p) \in SUBSET Points
      BY DEF LocalPoints
    <2>2. SumOver(LAMBDA i : input.pos[i], LocalPoints(p)) \div Cardinality(LocalPoints(p)) \in Int
      BY <1>2, <2>1, AverageType
    <2>3. QED
      BY <1>2, <2>2 DEF LocalCenter
  <1>3. QED
    BY <1>1, <1>2

\* A loop starts with fresh points.
LEMMA LoopBounds ==
  ASSUME RunInv, input' = input, level' \in 1 .. (Len(Levels) + 1),
         NEW c, NEW a, Loop(c, a),
         c \in [NewBlocks' -> Int], a \in [Points -> NewBlocks'],
         father' \in [Points -> 0 .. (Len(Grouping') - 1)]
  PROVE  BoundsInv'
  <1>1. /\ centers' = c /\ influence' = [j \in DOMAIN centers' |-> One] /\ assignment' = a
        /\ upper' = [i \in Points |-> Huge] /\ lower' = [i \in Points |-> 0]
        /\ \A p \in PEs : pc'[p] \in {"assign", "crashed", "bounds"}
    BY DEF Loop, Begins
  <1>2. Points' = Points
    BY SameInput
  <1>3. HasCenters'
    BY <1>1, KMeansAssumption DEF HasCenters
  <1>4. ~ AllAre("start")'
    <2>1. PICK p \in PEs : pc'[p] # "start"
      BY <1>1, ProcessShape
    <2>2. QED
      BY <2>1 DEF AllAre
  <1>5. TypesInv'
    BY <1>1, <1>2, <1>3, <1>4, KMeansAssumption DEF TypesInv
  <1>6. ASSUME NEW i \in Points PROVE PointInv(i)'
    <2>1. Fresh(i)'
      BY <1>1 DEF Fresh
    <2>2. input'.home[i] \in PEs
      BY InputShape DEF RunInv
    <2>3. pc'[input'.home[i]] \in {"assign", "crashed", "bounds"}
      BY <1>1, <2>2
    <2>4. QED
      BY <2>1, <2>3 DEF PointInv
  <1>7. \A p \in PEs : pc'[p] # "weights"
    BY <1>1
  <1>8. QED
    BY <1>2, <1>5, <1>6, <1>7 DEF BoundsInv

\* What AssignBlocks does to a point it looks at: it gets its closest center, or is left
\* with it.
LEMMA PointAssigned ==
  ASSUME RunInv, BoundsInv, InRange, NEW p \in PEs, AssignBlocks(p), NEW i \in SampledOf(p)
  PROVE  /\ assignment'[i] \in Range0(father[i]) /\ upper'[i] \in Nat /\ lower'[i] \in Nat
         /\ EffDist(i, assignment'[i]) <= upper'[i]
         /\ \A j \in Range0(father[i]) \ {assignment'[i]} : lower'[i] <= EffDist(i, j)
         /\ \A j \in Range0(father[i]) : EffDist(i, assignment'[i]) <= EffDist(i, j)
  <1>1. pc[p] = "assign" /\ Working /\ ~ AllAre("start") /\ input \in Inputs
    BY InLoop, OnePhase DEF AssignBlocks, RunInv
  <1>2. /\ i \in LocalPoints(p) /\ i \in Points /\ i \in sampled /\ SampledOf(p) # {}
    BY LocalShape, <1>1 DEF SampledOf
  <1>3. /\ HasCenters /\ father[i] \in 0 .. (Len(Grouping) - 1)
        /\ assignment[i] \in NewBlocks /\ upper[i] \in Nat /\ lower[i] \in Nat
        /\ \A j \in NewBlocks : EffDist(i, j) < Huge
        /\ level \in 1 .. (Len(Levels) + 1)
    BY <1>1, <1>2 DEF BoundsInv, TypesInv, InRange, RunInv
  <1>4. Range0(father[i]) \subseteq NewBlocks
    BY <1>1, <1>3, GroupingShape
  <1>5. \A j \in NewBlocks : EffDist(i, j) \in Nat
    BY <1>1, <1>2, <1>3, EffDistType
  <1>6. CASE ~ Skipped(i)
    <2>1. PICK r : r = Closest(p, i)
      OBVIOUS
    <2>2. assignment'[i] = r.block /\ upper'[i] = r.value /\ lower'[i] = r.second
      BY <1>2, <1>6, <2>1 DEF AssignBlocks
    <2>3. /\ r.block \in Range0(father[i]) /\ r.value = EffDist(i, r.block)
          /\ r.value \in Nat /\ r.second \in Nat
          /\ \A j \in Range0(father[i]) : EffDist(i, r.block) <= EffDist(i, j)
          /\ \A j \in Range0(father[i]) \ {r.block} : r.second <= EffDist(i, j)
      BY <1>1, <1>2, <1>3, <2>1, ClosestRight
    <2>4. QED
      BY <2>2, <2>3
  <1>7. CASE Skipped(i)
    <2>1. PICK own : own = EffDist(i, assignment[i])
      OBVIOUS
    <2>2. own \in Nat
      BY <1>3, <1>5, <2>1
    <2>3. ~ Fresh(i)
      BY <1>7, <2>1, <2>2, KMeansAssumption DEF Fresh, Skipped
    <2>4. Bounded(i)
      BY <1>2, <2>3 DEF BoundsInv, PointInv
    <2>5. /\ assignment'[i] = assignment[i] /\ lower'[i] = lower[i]
          /\ upper'[i] = IF lower[i] > upper[i] THEN upper[i] ELSE own
      BY <1>2, <1>7, <2>1 DEF AssignBlocks
    <2>6. /\ own <= upper[i] /\ assignment[i] \in Range0(father[i])
          /\ \A j \in Range0(father[i]) \ {assignment[i]} : lower[i] <= EffDist(i, j)
      BY <2>1, <2>4 DEF Bounded
    <2>7. lower[i] > own
      BY <1>3, <1>7, <2>1, <2>2, <2>6 DEF Skipped
    <2>8. \A j \in Range0(father[i]) : own <= EffDist(i, j)
      <3>1. ASSUME NEW j \in Range0(father[i]) PROVE own <= EffDist(i, j)
        <4>1. EffDist(i, j) \in Nat
          BY <1>4, <1>5
        <4>2. CASE j = assignment[i]
          BY <2>1, <2>2, <4>2
        <4>3. CASE j # assignment[i]
          BY <1>3, <2>2, <2>6, <2>7, <4>1, <4>3
        <4>4. QED
          BY <4>2, <4>3
      <3>2. QED
        BY <3>1
    <2>9. upper'[i] \in Nat /\ own <= upper'[i]
      BY <1>3, <2>2, <2>5, <2>6
    <2>10. QED
      BY <1>3, <2>1, <2>5, <2>6, <2>8, <2>9
  <1>8. QED
    BY <1>6, <1>7

\* The distances stay the same when centers and influences do.
LEMMA SameDistances ==
  ASSUME UNCHANGED <<input, centers, influence>>
  PROVE  \A i, j : EffDist(i, j)' = EffDist(i, j)
  BY DEF EffDist, Sq

\* Assigning keeps the bounds.
LEMMA AssignBounds ==
  ASSUME RunInv, BoundsInv, InRange, NEW p \in PEs, AssignBlocks(p)
  PROVE  BoundsInv'
  <1>1. /\ pc[p] = "assign"
        /\ UNCHANGED <<input, level, father, sampled, iter, balanceIter, centers, influence>>
    BY DEF AssignBlocks
  <1>2. Working /\ ~ AllAre("start") /\ input \in Inputs /\ level \in 1 .. (Len(Levels) + 1)
    BY <1>1, InLoop, OnePhase DEF RunInv
  <1>3. \/ pc' = [pc EXCEPT ![p] = "centers"] /\ SampledOf(p) = {}
           /\ UNCHANGED <<assignment, upper, lower>>
        \/ pc' = [pc EXCEPT ![p] = "weights"] /\ SampledOf(p) # {}
    BY DEF AssignBlocks
  <1>4. Working'
    BY <1>2, <1>3 DEF Working
  <1>5. ~ AllAre("start")'
    BY <1>4, OnePhase, PTL
  <1>6. /\ Points' = Points /\ Grouping' = Grouping /\ NewBlocks' = NewBlocks
        /\ \A b : Range0(b)' = Range0(b)
    BY <1>1, SameLevel
  <1>7. \A i, j : EffDist(i, j)' = EffDist(i, j)
    BY <1>1, SameDistances
  <1>8. \A i \in Points \ SampledOf(p) :
          assignment'[i] = assignment[i] /\ upper'[i] = upper[i] /\ lower'[i] = lower[i]
    BY DEF AssignBlocks, SampledOf
  <1>9. /\ DOMAIN assignment' = Points /\ DOMAIN upper' = Points /\ DOMAIN lower' = Points
        /\ assignment' = [i \in Points |-> assignment'[i]]
        /\ upper' = [i \in Points |-> upper'[i]] /\ lower' = [i \in Points |-> lower'[i]]
    <2>1. CASE SampledOf(p) = {}
      BY <1>3, <2>1 DEF BoundsInv, TypesInv
    <2>2. CASE SampledOf(p) # {}
      BY <2>2 DEF AssignBlocks
    <2>3. QED
      BY <2>1, <2>2
  <1>10. \A i \in SampledOf(p) :
           /\ assignment'[i] \in Range0(father[i]) /\ upper'[i] \in Nat /\ lower'[i] \in Nat
           /\ EffDist(i, assignment'[i]) <= upper'[i]
           /\ \A j \in Range0(father[i]) \ {assignment'[i]} : lower'[i] <= EffDist(i, j)
           /\ \A j \in Range0(father[i]) : EffDist(i, assignment'[i]) <= EffDist(i, j)
    BY PointAssigned
  <1>11. TypesInv'
    <2>1. ASSUME NEW i \in Points
          PROVE  assignment'[i] \in NewBlocks /\ upper'[i] \in Nat /\ lower'[i] \in Nat
      <3>1. CASE i \in SampledOf(p)
        <4>1. Range0(father[i]) \subseteq NewBlocks
          BY <1>2, GroupingShape DEF BoundsInv, TypesInv
        <4>2. QED
          BY <1>10, <3>1, <4>1
      <3>2. CASE i \notin SampledOf(p)
        BY <1>8, <3>2 DEF BoundsInv, TypesInv
      <3>3. QED
        BY <3>1, <3>2
    <2>2. /\ assignment' \in [Points -> NewBlocks] /\ upper' \in [Points -> Nat]
          /\ lower' \in [Points -> Nat]
      BY <1>9, <2>1
    <2>3. HasCenters'
      BY <1>1, <1>2, <1>6 DEF BoundsInv, TypesInv, HasCenters
    <2>4. QED
      BY <1>1, <1>5, <1>6, <2>2, <2>3 DEF BoundsInv, TypesInv
  <1>12. ASSUME NEW i \in Points PROVE PointInv(i)'
    <2>1. CASE i \in SampledOf(p)
      <3>1. i \in sampled'
        BY <1>1, <2>1 DEF SampledOf
      <3>2. Bounded(i)'
        BY <1>1, <1>6, <1>7, <1>10, <2>1 DEF Bounded
      <3>3. IsClosest(i)'
        BY <1>1, <1>6, <1>7, <1>10, <2>1 DEF IsClosest
      <3>4. QED
        BY <3>1, <3>2, <3>3 DEF PointInv
    <2>2. CASE i \notin SampledOf(p)
      <3>1. /\ Fresh(i)' <=> Fresh(i)
            /\ Bounded(i)' <=> Bounded(i)
            /\ IsClosest(i)' <=> IsClosest(i)
        BY <1>1, <1>6, <1>7, <1>8, <2>2 DEF Fresh, Bounded, IsClosest
      <3>2. PointInv(i)
        BY DEF BoundsInv
      <3>3. i \notin sampled \/ input.home[i] # p
        BY <2>2 DEF SampledOf, LocalPoints
      <3>4. input.home[i] # p => pc'[input.home[i]] = pc[input.home[i]]
        BY <1>2, <1>3, InputShape DEF Working
      <3>5. QED
        BY <1>1, <3>1, <3>2, <3>3, <3>4 DEF PointInv
    <2>3. QED
      BY <2>1, <2>2
  <1>13. ASSUME NEW q \in PEs, pc'[q] = "weights" PROVE SampledOf(q)' # {}
    <2>1. SampledOf(q)' = SampledOf(q)
      BY <1>1, SameInput DEF SampledOf
    <2>2. pc[q] = "weights" \/ (q = p /\ SampledOf(p) # {})
      BY <1>2, <1>3, <1>13 DEF Working
    <2>3. QED
      BY <2>1, <2>2 DEF BoundsInv
  <1>14. QED
    BY <1>6, <1>11, <1>12, <1>13 DEF BoundsInv

\* Min and Max of two and three integers.
LEMMA SmallSets ==
  ASSUME NEW a \in Int, NEW b \in Int, NEW c \in Int
  PROVE  /\ Max({a, b, c}) \in Int /\ Max({a, b, c}) >= a
         /\ Max({a, b}) \in Int /\ Max({a, b}) >= a
         /\ (Max({a, b}) = a \/ Max({a, b}) = b)
         /\ Min({a, b}) \in Int
  <1>1. IsFiniteSet({a} \cup {b} \cup {c}) /\ IsFiniteSet({a} \cup {b})
    BY FS_Singleton, FS_AddElement, FS_Union
  <1> DEFINE S == {a, b, c}
             T == {a, b}
  <1>2. S = {a} \cup {b} \cup {c} /\ T = {a} \cup {b} /\ S # {} /\ T # {}
        /\ S \subseteq Int /\ T \subseteq Int /\ a \in S /\ a \in T
    OBVIOUS
  <1> HIDE DEF S, T
  <1>3. Max(S) \in S /\ Max(S) >= a
    BY <1>1, <1>2, Extremes
  <1>4. Max(T) \in T /\ Max(T) >= a /\ Min(T) \in T
    BY <1>1, <1>2, Extremes
  <1>5. QED
    BY <1>2, <1>3, <1>4 DEF S, T

\* A process that waits in the sums of the weights has sampled points.
LEMMA SampleCounts ==
  ASSUME RunInv, BoundsInv, \A p \in PEs : pc[p] = "weights"
  PROVE  /\ Cardinality(sampled) \in Nat \ {0} /\ Target \in Nat \ {0}
         /\ Cardinality(Points) \in Nat
         /\ \A j : BlockWeight(j) \in Nat
  <1>1. input \in Inputs /\ sampled \in SUBSET Points /\ level \in 1 .. (Len(Levels) + 1)
    BY DEF RunInv
  <1>2. IsFiniteSet(Points) /\ IsFiniteSet(sampled)
    BY <1>1, InputShape, FS_Subset
  <1>3. sampled # {}
    BY ProcessShape DEF BoundsInv, SampledOf
  <1>4. Cardinality(sampled) \in Nat \ {0} /\ Cardinality(Points) \in Nat
    BY <1>2, <1>3, FS_CardinalityType, FS_EmptySet
  <1>5. ASSUME NEW j PROVE BlockWeight(j) \in Nat
    <2>1. {i \in sampled : assignment[i] = j} \in SUBSET sampled
      OBVIOUS
    <2>2. QED
      BY <1>2, <2>1, FS_Subset, FS_CardinalityType DEF BlockWeight
  <1>6. Target \in Nat \ {0}
    <2>1. PICK n \in Nat, k \in Nat \ {0} : n = Cardinality(Points) /\ k = NumNew
      BY <1>1, <1>4, GroupingShape
    <2>2. n \div k + 1 \in Nat \ {0}
      <3>1. n \div k \in Nat
        OBVIOUS
      <3>2. QED
        BY <3>1
    <2>3. QED
      BY <2>1, <2>2 DEF Target
  <1>7. QED
    BY <1>4, <1>5, <1>6

\* An influence stays positive.
LEMMA InfluenceType ==
  ASSUME RunInv, BoundsInv, \A p \in PEs : pc[p] = "weights", HasCenters, NEW j \in NewBlocks
  PROVE  NewInfluence(j) \in Nat \ {0}
  <1>1. PICK num \in Nat : num = BlockWeight(j) * Cardinality(Points)
    BY SampleCounts
  <1>2. PICK den \in Nat \ {0} : den = Target * Cardinality(sampled)
    <2>1. \A x, y \in Nat \ {0} : x * y \in Nat \ {0}
      OBVIOUS
    <2>2. QED
      BY <2>1, SampleCounts
  <1>3. PICK old \in Nat \ {0} : old = influence[j]
    BY DEF HasCenters
  <1>4. PICK a \in Int, b \in Int, c \in Int :
          a = old - old \div 2 /\ b = (old * num) \div den /\ c = old + old \div 2
    <2>1. old * num \in Nat
      OBVIOUS
    <2>2. (old * num) \div den \in Int /\ old \div 2 \in Int
      BY <2>1
    <2>3. QED
      BY <2>2
  <1>5. NewInfluence(j) = Max({1, a, Min({b, c})})
    BY <1>1, <1>2, <1>3, <1>4 DEF NewInfluence
  <1>6. PICK m \in Int : m = Min({b, c})
    BY SmallSets
  <1>7. Max({1, a, m}) \in Int /\ Max({1, a, m}) >= 1
    <2>1. PICK o \in Int : o = 1
      OBVIOUS
    <2>2. Max({o, a, m}) \in Int /\ Max({o, a, m}) >= o
      BY SmallSets
    <2>3. QED
      BY <2>1, <2>2
  <1>8. PICK x : x = Max({1, a, m})
    OBVIOUS
  <1>9. x \in Nat \ {0}
    BY <1>7, <1>8
  <1>10. QED
    BY <1>5, <1>6, <1>8, <1>9

\* Bounds scaled with the influences are bounds again.
LEMMA PointRescaled ==
  ASSUME input \in Inputs, level \in 1 .. (Len(Levels) + 1), TypesInv, HasCenters,
         NEW i \in Points, Bounded(i),
         NEW new \in [NewBlocks -> Nat \ {0}]
  PROVE  /\ UpperAfterInfluence(i, new) \in Nat /\ LowerAfterInfluence(i, new) \in Nat
         /\ Sq(centers[assignment[i]] - input.pos[i]) * new[assignment[i]]
              <= UpperAfterInfluence(i, new)
         /\ \A j \in Range0(father[i]) \ {assignment[i]} :
              LowerAfterInfluence(i, new) <= Sq(centers[j] - input.pos[i]) * new[j]
  <1>1. PICK a \in NewBlocks, u \in Nat, l \in Nat :
          a = assignment[i] /\ u = upper[i] /\ l = lower[i]
    BY DEF TypesInv
  <1>2. /\ Range0(father[i]) \subseteq NewBlocks
        /\ IsFiniteSet(NewBlocks) /\ NewBlocks # {}
    BY GroupingShape DEF TypesInv
  <1>3. \A j \in NewBlocks :
          /\ Sq(centers[j] - input.pos[i]) \in Nat
          /\ influence[j] \in Nat \ {0} /\ new[j] \in Nat \ {0}
    <2>1. ASSUME NEW j \in NewBlocks PROVE Sq(centers[j] - input.pos[i]) \in Nat
      <3>0. input.pos[i] \in Int /\ centers[j] \in Int
        BY InputShape DEF HasCenters
      <3>1. PICK d \in Int : d = centers[j] - input.pos[i]
        BY <3>0
      <3>2. d * d \in Nat
        OBVIOUS
      <3>3. QED
        BY <3>1, <3>2 DEF Sq
    <2>2. QED
      BY <2>1 DEF HasCenters
  <1>4. UpperAfterInfluence(i, new) = CeilDiv(u * new[a], influence[a])
    BY <1>1 DEF UpperAfterInfluence
  <1> DEFINE h == [j \in NewBlocks |-> (l * new[j]) \div influence[j]]
  <1>5. \A j \in NewBlocks : h[j] \in Nat
    BY <1>3, BoundsScale
  <1>6. LowerAfterInfluence(i, new) = Min({h[j] : j \in NewBlocks})
    BY <1>1 DEF LowerAfterInfluence
  <1>7. h = [j \in NewBlocks |-> h[j]]
    OBVIOUS
  <1>8. \A j \in NewBlocks : h[j] = (l * new[j]) \div influence[j]
    OBVIOUS
  <1> HIDE DEF h
  <1>9. /\ \E j \in NewBlocks : Min({h[y] : y \in NewBlocks}) = h[j]
        /\ \A j \in NewBlocks : Min({h[y] : y \in NewBlocks}) <= h[j]
    <2>1. \A j \in NewBlocks : h[j] \in Int
      BY <1>5
    <2>2. QED
      BY <1>2, <2>1, ExtremeValues
  <1>10. LowerAfterInfluence(i, new) \in Nat
         /\ \A j \in NewBlocks : LowerAfterInfluence(i, new) <= h[j]
    BY <1>5, <1>6, <1>9
  <1>11. UpperAfterInfluence(i, new) \in Nat
         /\ Sq(centers[a] - input.pos[i]) * new[a] <= UpperAfterInfluence(i, new)
    <2>1. PICK z \in Nat : z = Sq(centers[a] - input.pos[i])
      BY <1>3
    <2>2. z * influence[a] <= u
      BY <1>1, <2>1 DEF Bounded, EffDist
    <2>3. PICK f \in Nat \ {0}, g \in Nat \ {0} : f = influence[a] /\ g = new[a]
      BY <1>3
    <2>4. z * g <= CeilDiv(u * g, f) /\ CeilDiv(u * g, f) \in Nat
      BY <2>2, <2>3, BoundsScale
    <2>5. QED
      BY <1>4, <2>1, <2>3, <2>4
  <1>12. ASSUME NEW j \in Range0(father[i]) \ {assignment[i]}
         PROVE  LowerAfterInfluence(i, new) <= Sq(centers[j] - input.pos[i]) * new[j]
    <2>1. j \in NewBlocks
      BY <1>2
    <2>2. PICK z \in Nat : z = Sq(centers[j] - input.pos[i])
      BY <1>3, <2>1
    <2>3. l <= z * influence[j]
      BY <1>1, <2>2 DEF Bounded, EffDist
    <2>4. h[j] <= z * new[j]
      <3>1. PICK f \in Nat \ {0}, g \in Nat \ {0} : f = influence[j] /\ g = new[j]
        BY <1>3, <2>1
      <3>2. (l * g) \div f <= z * g
        BY <2>3, <3>1, BoundsScale
      <3>3. QED
        BY <1>8, <2>1, <3>1, <3>2
    <2>5. PICK y \in Nat : y = LowerAfterInfluence(i, new)
      BY <1>10
    <2>6. y <= h[j] /\ h[j] \in Nat /\ z * new[j] \in Nat
      BY <1>3, <1>5, <1>10, <2>1, <2>5
    <2>7. y <= z * new[j]
      BY <2>4, <2>6
    <2>8. QED
      BY <2>2, <2>5, <2>7
  <1>13. QED
    BY <1>1, <1>10, <1>11, <1>12

\* Balancing keeps the bounds.
LEMMA BalanceBounds ==
  ASSUME RunInv, BoundsInv, BalanceRound
  PROVE  BoundsInv'
  <1> DEFINE new == [j \in NewBlocks |-> NewInfluence(j)]
  <1>1. /\ \A p \in PEs : pc[p] = "weights"
        /\ influence' = new
        /\ upper' = [i \in Points |-> IF i \in sampled THEN UpperAfterInfluence(i, new)
                                      ELSE upper[i]]
        /\ lower' = [i \in Points |-> IF i \in sampled THEN LowerAfterInfluence(i, new)
                                      ELSE lower[i]]
        /\ pc' = [p \in PEs |-> "assign"] \/ pc' = [p \in PEs |-> "centers"]
        /\ UNCHANGED <<input, level, father, sampled, iter, centers, assignment>>
    BY DEF BalanceRound
  <1>2. Working /\ ~ AllAre("start") /\ input \in Inputs /\ level \in 1 .. (Len(Levels) + 1)
    BY <1>1, ProcessShape, InLoop, OnePhase DEF RunInv
  <1>3. TypesInv /\ HasCenters
    BY <1>2 DEF BoundsInv, TypesInv
  <1>4. new \in [NewBlocks -> Nat \ {0}]
    BY <1>1, <1>3, InfluenceType
  <1> HIDE DEF new
  <1>5. /\ Points' = Points /\ Grouping' = Grouping /\ NewBlocks' = NewBlocks
        /\ \A b : Range0(b)' = Range0(b)
    BY <1>1, SameLevel
  <1>6. Working' /\ (~ AllAre("start"))'
    <2>1. Working'
      BY <1>1 DEF Working
    <2>2. QED
      BY <2>1, OnePhase, PTL
  <1>7. ASSUME NEW i \in Points
        PROVE  /\ i \in sampled => Bounded(i)
               /\ i \notin sampled => Fresh(i)
               /\ input.home[i] \in PEs
    BY <1>1, <1>2, InputShape DEF BoundsInv, PointInv
  <1>8. \A i, j : EffDist(i, j)' = Sq(centers[j] - input.pos[i]) * new[j]
    BY <1>1 DEF EffDist, Sq
  <1>9. TypesInv'
    <2>1. ASSUME NEW i \in Points PROVE upper'[i] \in Nat /\ lower'[i] \in Nat
      <3>1. CASE i \in sampled
        BY <1>1, <1>2, <1>3, <1>4, <1>7, <3>1, PointRescaled
      <3>2. CASE i \notin sampled
        BY <1>1, <1>3, <3>2 DEF TypesInv
      <3>3. QED
        BY <3>1, <3>2
    <2>2. upper' \in [Points -> Nat] /\ lower' \in [Points -> Nat]
      BY <1>1, <2>1
    <2>3. HasCenters'
      BY <1>1, <1>3, <1>4, <1>5 DEF HasCenters
    <2>4. QED
      BY <1>1, <1>3, <1>5, <1>6, <2>2, <2>3 DEF TypesInv
  <1>10. ASSUME NEW i \in Points PROVE PointInv(i)'
    <2>1. pc'[input'.home[i]] # "weights"
      BY <1>1, <1>7
    <2>2. CASE i \in sampled
      <3>1. /\ Sq(centers[assignment[i]] - input.pos[i]) * new[assignment[i]]
                 <= UpperAfterInfluence(i, new)
            /\ \A j \in Range0(father[i]) \ {assignment[i]} :
                 LowerAfterInfluence(i, new) <= Sq(centers[j] - input.pos[i]) * new[j]
        BY <1>2, <1>3, <1>4, <1>7, <2>2, PointRescaled
      <3>2. upper'[i] = UpperAfterInfluence(i, new) /\ lower'[i] = LowerAfterInfluence(i, new)
        BY <1>1, <2>2
      <3>3. assignment[i] \in Range0(father[i])
        BY <1>7, <2>2 DEF Bounded
      <3>4. Bounded(i)'
        BY <1>1, <1>5, <1>8, <3>1, <3>2, <3>3 DEF Bounded
      <3>5. QED
        BY <1>1, <2>1, <2>2, <3>4 DEF PointInv
    <2>3. CASE i \notin sampled
      <3>1. Fresh(i)'
        BY <1>1, <1>7, <2>3 DEF Fresh
      <3>2. QED
        BY <1>1, <2>3, <3>1 DEF PointInv
    <2>4. QED
      BY <2>2, <2>3
  <1>11. \A p \in PEs : pc'[p] # "weights"
    BY <1>1
  <1>12. QED
    BY <1>5, <1>9, <1>10, <1>11 DEF BoundsInv

\* The distance of two numbers.
Between(x, y) == IF x >= y THEN x - y ELSE y - x

\* It is the length of what has to be squared, and two distances add up to no less.
LEMMA BetweenShape ==
  ASSUME NEW x \in Int, NEW y \in Int, NEW z \in Int
  PROVE  /\ Between(x, y) \in Nat /\ Between(x, z) <= Between(x, y) + Between(y, z)
         /\ Between(x, y) = Between(y, x)
         /\ Between(x, y) * Between(x, y) = Sq(x - y)
  BY DEF Between, Sq

\* Bounds that follow the centers are bounds again.
LEMMA PointFollows ==
  ASSUME input \in Inputs, level \in 1 .. (Len(Levels) + 1), TypesInv, HasCenters,
         NEW i \in Points, Bounded(i), NEW new \in [NewBlocks -> Int],
         NEW delta \in [NewBlocks -> Nat],
         \A j \in NewBlocks : delta[j] = Between(new[j], centers[j])
  PROVE  /\ UpperAfterMove(i, delta) \in Nat /\ LowerAfterMove(i, delta) \in Nat
         /\ Sq(new[assignment[i]] - input.pos[i]) * influence[assignment[i]]
              <= UpperAfterMove(i, delta)
         /\ \A j \in Range0(father[i]) \ {assignment[i]} :
              LowerAfterMove(i, delta) <= Sq(new[j] - input.pos[i]) * influence[j]
  <1>1. PICK a \in NewBlocks, u \in Nat, l \in Nat, x \in Int :
          a = assignment[i] /\ u = upper[i] /\ l = lower[i] /\ x = input.pos[i]
    BY InputShape DEF TypesInv
  <1>2. /\ Range0(father[i]) \subseteq NewBlocks
        /\ IsFiniteSet(NewBlocks) /\ NewBlocks # {}
    BY GroupingShape DEF TypesInv
  <1>3. \A j \in NewBlocks : centers[j] \in Int /\ influence[j] \in Nat \ {0}
    BY DEF HasCenters
  <1> DEFINE near(j) == Between(centers[j], x)
             far(j) == Between(new[j], x)
  <1>4. \A j \in NewBlocks :
          /\ near(j) \in Nat /\ far(j) \in Nat
          /\ far(j) <= near(j) + delta[j] /\ near(j) <= far(j) + delta[j]
          /\ near(j) * near(j) = Sq(centers[j] - x) /\ far(j) * far(j) = Sq(new[j] - x)
    <2> SUFFICES ASSUME NEW j \in NewBlocks
                 PROVE  /\ near(j) \in Nat /\ far(j) \in Nat
                        /\ far(j) <= near(j) + delta[j] /\ near(j) <= far(j) + delta[j]
                        /\ near(j) * near(j) = Sq(centers[j] - x)
                        /\ far(j) * far(j) = Sq(new[j] - x)
      OBVIOUS
    <2>1. PICK c \in Int, n \in Int, w \in Nat : c = centers[j] /\ n = new[j] /\ w = delta[j]
      BY <1>3
    <2>2. w = Between(n, c)
      BY <2>1
    <2>3. /\ Between(n, c) \in Nat /\ Between(c, x) \in Nat /\ Between(n, x) \in Nat
          /\ Between(n, x) <= Between(n, c) + Between(c, x)
          /\ Between(c, x) <= Between(c, n) + Between(n, x) /\ Between(n, c) = Between(c, n)
          /\ Between(c, x) * Between(c, x) = Sq(c - x)
          /\ Between(n, x) * Between(n, x) = Sq(n - x)
      BY BetweenShape
    <2>4. /\ Between(n, x) <= Between(c, x) + w /\ Between(c, x) <= Between(n, x) + w
      <3>1. PICK y \in Nat, z \in Nat : y = Between(n, x) /\ z = Between(c, x)
        BY <2>3
      <3>2. y <= w + z /\ z <= w + y
        BY <2>2, <2>3, <3>1
      <3>3. QED
        BY <3>1, <3>2
    <2>5. QED
      BY <2>1, <2>3, <2>4
  <1> HIDE DEF near, far
  <1>5. /\ UpperAfterMove(i, delta) \in Nat
        /\ Sq(new[a] - x) * influence[a] <= UpperAfterMove(i, delta)
    <2>1. PICK f \in Nat \ {0}, m \in Nat, d \in Nat, e \in Nat :
            f = influence[a] /\ m = delta[a] /\ d = near(a) /\ e = far(a)
      BY <1>3, <1>4
    <2>2. d * d * f <= u
      BY <1>1, <1>4, <2>1 DEF Bounded, EffDist
    <2>3. e <= d + m
      BY <1>4, <2>1
    <2>4. e * e * f <= u + (2 * m * RootUp(u, f) + m * m) * f
      BY <2>2, <2>3, UpperMoves
    <2>5. UpperAfterMove(i, delta) = u + (2 * m * RootUp(u, f) + m * m) * f
      BY <1>1, <2>1 DEF UpperAfterMove
    <2>6. PICK r \in Nat : r = RootUp(u, f)
      BY RootFound
    <2>7. u + (2 * m * r + m * m) * f \in Nat
      OBVIOUS
    <2>8. QED
      BY <1>4, <2>1, <2>4, <2>5, <2>6, <2>7
  <1>6. PICK m \in Nat : /\ m = Max({delta[j] : j \in NewBlocks})
                         /\ \A j \in NewBlocks : delta[j] <= m
    <2>1. \A j \in NewBlocks : delta[j] \in Int
      OBVIOUS
    <2>2. /\ \E j \in NewBlocks : Max({delta[y] : y \in NewBlocks}) = delta[j]
          /\ \A j \in NewBlocks : delta[j] <= Max({delta[y] : y \in NewBlocks})
      <3>1. PICK D, g : D = NewBlocks /\ g = delta
        OBVIOUS
      <3>2. IsFiniteSet(D) /\ D # {} /\ \A j \in D : g[j] \in Int
        BY <1>2, <2>1, <3>1
      <3>3. /\ \E j \in D : Max({g[y] : y \in D}) = g[j]
            /\ \A j \in D : g[j] <= Max({g[y] : y \in D})
        BY ONLY <3>2, ExtremeValues
      <3>4. QED
        BY <3>1, <3>3
    <2>3. QED
      BY <2>2
  <1>7. PICK k \in Nat \ {0} : /\ k = Max({influence[j] : j \in NewBlocks})
                               /\ \A j \in NewBlocks : influence[j] <= k
    <2>1. \A j \in NewBlocks : influence[j] \in Int
      BY <1>3
    <2>2. /\ \E j \in NewBlocks : Max({influence[y] : y \in NewBlocks}) = influence[j]
          /\ \A j \in NewBlocks : influence[j] <= Max({influence[y] : y \in NewBlocks})
      <3>1. PICK D, g : D = NewBlocks /\ g = influence
        OBVIOUS
      <3>2. IsFiniteSet(D) /\ D # {} /\ \A j \in D : g[j] \in Int
        BY <1>2, <2>1, <3>1
      <3>3. /\ \E j \in D : Max({g[y] : y \in D}) = g[j]
            /\ \A j \in D : g[j] <= Max({g[y] : y \in D})
        BY ONLY <3>2, ExtremeValues
      <3>4. QED
        BY <3>1, <3>3
    <2>3. QED
      BY <1>3, <2>2
  <1>8. PICK low \in Int : low = l - (2 * m * RootUp(l, k) - m * m) * k
    <2>1. PICK r \in Nat : r = RootUp(l, k)
      BY RootFound
    <2>2. l - (2 * m * r - m * m) * k \in Int
      OBVIOUS
    <2>3. QED
      BY <2>1, <2>2
  <1>9. LowerAfterMove(i, delta) = IF l < m * m * k THEN 0 ELSE Max({0, low})
    BY <1>1, <1>6, <1>7, <1>8 DEF LowerAfterMove
  <1>10. Max({0, low}) \in Nat /\ (Max({0, low}) = 0 \/ Max({0, low}) = low)
    <2>1. PICK o \in Int : o = 0
      OBVIOUS
    <2>2. /\ Max({o, low}) \in Int /\ Max({o, low}) >= o
          /\ (Max({o, low}) = o \/ Max({o, low}) = low)
      BY SmallSets
    <2>3. QED
      BY <2>1, <2>2
  <1>11. LowerAfterMove(i, delta) \in Nat
    BY <1>9, <1>10
  <1>12. ASSUME NEW j \in Range0(father[i]) \ {assignment[i]}
         PROVE  LowerAfterMove(i, delta) <= Sq(new[j] - input.pos[i]) * influence[j]
    <2>1. j \in NewBlocks
      BY <1>2
    <2>2. PICK f \in Nat \ {0}, d \in Nat, e \in Nat, w \in Nat :
            f = influence[j] /\ d = near(j) /\ e = far(j) /\ w = delta[j]
      BY <1>3, <1>4, <2>1
    <2>3. /\ l <= d * d * f
      BY <1>1, <1>4, <2>1, <2>2 DEF Bounded, EffDist
    <2>4. d <= e + m /\ f <= k
      <3>1. d <= e + w /\ w <= m
        BY <1>4, <1>6, <2>1, <2>2
      <3>2. f <= k
        BY <1>7, <2>1, <2>2
      <3>3. QED
        BY <3>1, <3>2
    <2>5. ~ l < m * m * k => low <= e * e * f
      BY <1>8, <2>3, <2>4, LowerMoves
    <2>6. PICK g \in Nat : g = e * e * f
      OBVIOUS
    <2>7. Sq(new[j] - input.pos[i]) * influence[j] = g
      BY <1>1, <1>4, <2>1, <2>2, <2>6
    <2>8. LowerAfterMove(i, delta) <= g
      BY <1>9, <1>10, <2>5, <2>6
    <2>9. QED
      BY <2>7, <2>8
  <1>13. QED
    BY <1>1, <1>5, <1>11, <1>12

\* Moving the centers keeps the bounds.
LEMMA MoveBounds ==
  ASSUME RunInv, BoundsInv, MoveCenters
  PROVE  BoundsInv'
  <1> DEFINE new == [j \in NewBlocks |-> FindCenter(j)]
             delta == [j \in NewBlocks |-> IF new[j] >= centers[j] THEN new[j] - centers[j]
                                           ELSE centers[j] - new[j]]
  <1>1. /\ \A p \in PEs : pc[p] = "centers"
        /\ centers' = new
        /\ upper' = [i \in Points |-> IF i \in sampled THEN UpperAfterMove(i, delta)
                                      ELSE upper[i]]
        /\ lower' = [i \in Points |-> IF i \in sampled THEN LowerAfterMove(i, delta)
                                      ELSE lower[i]]
        /\ \/ pc' = [p \in PEs |-> "assign"] /\ sampled' \in Samples(NumNew, sampled, iter + 1)
           \/ pc' = [p \in PEs |-> "assign"] /\ sampled' = sampled
           \/ pc' = [p \in PEs |-> "done"] /\ sampled' = sampled
        /\ UNCHANGED <<input, level, father, influence, assignment>>
    BY DEF MoveCenters
  <1>2. Working /\ ~ AllAre("start") /\ input \in Inputs /\ level \in 1 .. (Len(Levels) + 1)
        /\ sampled \subseteq Points
    BY <1>1, ProcessShape, InLoop, OnePhase DEF RunInv
  <1>3. TypesInv /\ HasCenters
    BY <1>2 DEF BoundsInv, TypesInv
  <1>4. new \in [NewBlocks -> Int]
    BY <1>2, <1>3, FindCenterType
  <1>5. \A j \in NewBlocks : delta[j] = Between(new[j], centers[j])
    BY DEF Between
  <1>6. delta \in [NewBlocks -> Nat]
    <2>1. \A j \in NewBlocks : delta[j] \in Nat
      <3>1. \A j \in NewBlocks : new[j] \in Int /\ centers[j] \in Int
        BY <1>3, <1>4 DEF HasCenters
      <3> HIDE DEF new
      <3>2. QED
        BY <3>1
    <2>2. QED
      BY <2>1
  <1> HIDE DEF new, delta
  <1>7. /\ Points' = Points /\ Grouping' = Grouping /\ NewBlocks' = NewBlocks
        /\ \A b : Range0(b)' = Range0(b)
    BY <1>1, SameLevel
  <1>8. (~ AllAre("start"))'
    <2>1. Working' \/ AllAre("done")'
      BY <1>1 DEF Working, AllAre
    <2>2. QED
      BY <2>1, OnePhase, PTL
  <1>9. ASSUME NEW i \in Points
        PROVE  /\ i \in sampled => Bounded(i)
               /\ i \notin sampled => Fresh(i)
               /\ input.home[i] \in PEs
    BY <1>1, <1>2, InputShape DEF BoundsInv, PointInv
  <1>10. \A i, j : EffDist(i, j)' = Sq(new[j] - input.pos[i]) * influence[j]
    BY <1>1 DEF EffDist, Sq
  <1>11. TypesInv'
    <2>1. ASSUME NEW i \in Points PROVE upper'[i] \in Nat /\ lower'[i] \in Nat
      <3>1. CASE i \in sampled
        BY <1>1, <1>2, <1>3, <1>4, <1>5, <1>6, <1>9, <3>1, PointFollows
      <3>2. CASE i \notin sampled
        BY <1>1, <1>3, <3>2 DEF TypesInv
      <3>3. QED
        BY <3>1, <3>2
    <2>2. upper' \in [Points -> Nat] /\ lower' \in [Points -> Nat]
      BY <1>1, <2>1
    <2>3. HasCenters'
      BY <1>1, <1>3, <1>4, <1>7 DEF HasCenters
    <2>4. QED
      BY <1>1, <1>3, <1>7, <1>8, <2>2, <2>3 DEF TypesInv
  <1>12. sampled \subseteq sampled'
    BY <1>1 DEF Samples
  <1>13. ASSUME NEW i \in Points PROVE PointInv(i)'
    <2>1. pc'[input'.home[i]] \notin {"weights", "centers"}
      BY <1>1, <1>9
    <2>2. CASE i \in sampled
      <3>1. /\ Sq(new[assignment[i]] - input.pos[i]) * influence[assignment[i]]
                 <= UpperAfterMove(i, delta)
            /\ \A j \in Range0(father[i]) \ {assignment[i]} :
                 LowerAfterMove(i, delta) <= Sq(new[j] - input.pos[i]) * influence[j]
        BY <1>2, <1>3, <1>4, <1>5, <1>6, <1>9, <2>2, PointFollows
      <3>2. upper'[i] = UpperAfterMove(i, delta) /\ lower'[i] = LowerAfterMove(i, delta)
        BY <1>1, <2>2
      <3>3. assignment[i] \in Range0(father[i]) /\ i \in sampled'
        BY <1>9, <1>12, <2>2 DEF Bounded
      <3>4. Bounded(i)'
        BY <1>1, <1>7, <1>10, <3>1, <3>2, <3>3 DEF Bounded
      <3>5. QED
        BY <2>1, <3>3, <3>4 DEF PointInv
    <2>3. CASE i \notin sampled
      <3>1. Fresh(i)'
        BY <1>1, <1>9, <2>3 DEF Fresh
      <3>2. QED
        BY <2>1, <3>1 DEF PointInv
    <2>4. QED
      BY <2>2, <2>3
  <1>14. \A p \in PEs : pc'[p] # "weights"
    BY <1>1
  <1>15. QED
    BY <1>7, <1>11, <1>13, <1>14 DEF BoundsInv

\* There is a block on every level.
LEMMA SomeBlock ==
  input \in Inputs /\ level \in 1 .. (Len(Levels) + 1) => 0 \in NewBlocks /\ Len(Grouping) >= 1
  BY GroupingShape

\* The invariant holds at the start.
LEMMA InitBounds == Init => BoundsInv
  <1> SUFFICES ASSUME Init PROVE BoundsInv
    OBVIOUS
  <1>1. input \in Inputs /\ level = 1 /\ AllAre("start") /\ sampled = {}
    BY DEF Init, AllAre
  <1>2. 0 \in NewBlocks /\ 0 \in 0 .. (Len(Grouping) - 1)
    <2>1. 1 \in 1 .. (Len(Levels) + 1)
      BY <1>1, InputShape
    <2>2. QED
      BY <1>1, <2>1, GroupingShape
  <1>3. TypesInv
    BY <1>1, <1>2, KMeansAssumption DEF Init, TypesInv
  <1>4. ASSUME NEW i \in Points PROVE PointInv(i)
    BY <1>1 DEF Init, PointInv, Fresh
  <1>5. \A p \in PEs : pc[p] # "weights"
    BY DEF Init
  <1>6. QED
    BY <1>3, <1>4, <1>5 DEF BoundsInv

\* The loop of the first level.
LEMMA StartBounds ==
  ASSUME RunInv, BoundsInv, Start
  PROVE  BoundsInv'
  <1>1. /\ \A p \in PEs : pc[p] = "start"
        /\ Loop(InitialCenters(Levels[1], father), [i \in Points |-> 0])
        /\ UNCHANGED <<input, level, father>>
    BY DEF Start, StartLevel
  <1>2. level = 1 /\ input \in Inputs /\ 1 \in 1 .. (Len(Levels) + 1) /\ 1 <= Len(Levels)
    BY <1>1, AllThere, InputShape DEF RunInv, BoundsInv, TypesInv
  <1>3. Points' = Points /\ Grouping' = Grouping /\ NewBlocks' = NewBlocks
    BY <1>1, SameLevel
  <1>4. Grouping = Levels[1]
    BY <1>2 DEF Grouping
  <1>5. NewBlocks = 0 .. (BlockSizesPrefixSum(Levels[1], Len(Levels[1])) - 1)
    BY <1>4 DEF NewBlocks, NumNew, RangeStart
  <1>6. InitialCenters(Levels[1], father) \in [NewBlocks' -> Int]
    BY <1>2, <1>3, <1>5, InitialCentersType
  <1>7. [i \in Points |-> 0] \in [Points -> NewBlocks']
    BY <1>2, <1>3, SomeBlock
  <1>8. father' \in [Points -> 0 .. (Len(Grouping') - 1)]
    BY <1>1, <1>3 DEF BoundsInv, TypesInv
  <1>9. level' \in 1 .. (Len(Levels) + 1)
    BY <1>1, <1>2
  <1>10. PICK c, a : c = InitialCenters(Levels[1], father) /\ a = [i \in Points |-> 0]
    OBVIOUS
  <1>11. Loop(c, a) /\ c \in [NewBlocks' -> Int] /\ a \in [Points -> NewBlocks']
    BY <1>1, <1>6, <1>7, <1>10
  <1>12. QED
    BY <1>1, <1>8, <1>9, <1>11, LoopBounds

\* The loop of the next level.
LEMMA NextLevelBounds ==
  ASSUME RunInv, BoundsInv, NextLevel
  PROVE  BoundsInv'
  <1>1. /\ \A p \in PEs : pc[p] = "done"
        /\ level < Len(Levels) /\ level' = level + 1 /\ father' = assignment
        /\ Loop(InitialCenters(Levels[level + 1], assignment), [i \in Points |-> 0])
        /\ UNCHANGED input
    BY DEF NextLevel, StartLevel
  <1>2. /\ input \in Inputs /\ level \in 1 .. (Len(Levels) - 1)
        /\ level' \in 1 .. (Len(Levels) + 1) /\ level' <= Len(Levels)
    BY <1>1, InputShape DEF RunInv
  <1>3. Points' = Points /\ Levels' = Levels
    BY <1>1, SameInput
  <1>4. Grouping' = Levels[level + 1]
    BY <1>1, <1>2, <1>3 DEF Grouping
  <1>5. NewBlocks' = 0 .. (BlockSizesPrefixSum(Levels[level + 1], Len(Levels[level + 1])) - 1)
    BY <1>4 DEF NewBlocks, NumNew, RangeStart
  <1>6. InitialCenters(Levels[level + 1], assignment) \in [NewBlocks' -> Int]
    BY <1>2, <1>5, InitialCentersType
  <1>7. [i \in Points |-> 0] \in [Points -> NewBlocks']
    <2>1. (input \in Inputs /\ level \in 1 .. (Len(Levels) + 1))'
      BY <1>1, <1>2, <1>3
    <2>2. (0 \in NewBlocks /\ Len(Grouping) >= 1)'
      BY <2>1, SomeBlock, PTL
    <2>3. QED
      BY <2>2
  <1>8. father' \in [Points -> 0 .. (Len(Grouping') - 1)]
    <2>1. Grouping = Levels[level]
      BY <1>1, <1>2, InputShape DEF Grouping
    <2>2. Len(Levels[level + 1]) = NumNew
      BY <1>2, <2>1, InputShape DEF NumNew, RangeStart
    <2>3. assignment \in [Points -> 0 .. (NumNew - 1)]
      BY DEF BoundsInv, TypesInv, NewBlocks
    <2>4. QED
      BY <1>1, <1>4, <2>2, <2>3
  <1>9. PICK c, a : c = InitialCenters(Levels[level + 1], assignment) /\ a = [i \in Points |-> 0]
    OBVIOUS
  <1>10. Loop(c, a) /\ c \in [NewBlocks' -> Int] /\ a \in [Points -> NewBlocks']
    BY <1>1, <1>6, <1>7, <1>9
  <1>11. QED
    BY <1>1, <1>2, <1>8, <1>10, LoopBounds

\* A step that only ends or stops.
LEMMA StillBounds ==
  ASSUME RunInv, BoundsInv,
         UNCHANGED <<input, level, father, sampled, centers, influence, assignment,
                     upper, lower>>,
         pc' = pc \/ (AllAre("done") /\ AllAre("failed")')
  PROVE  BoundsInv'
  <1>1. /\ Points' = Points /\ Grouping' = Grouping /\ NewBlocks' = NewBlocks
        /\ \A b : Range0(b)' = Range0(b)
    BY SameLevel
  <1>2. \A i, j : EffDist(i, j)' = EffDist(i, j)
    BY SameDistances
  <1>3. \A i : /\ Fresh(i)' <=> Fresh(i)
               /\ Bounded(i)' <=> Bounded(i)
               /\ IsClosest(i)' <=> IsClosest(i)
    BY <1>1, <1>2 DEF Fresh, Bounded, IsClosest
  <1>4. AllAre("start")' => AllAre("start")
    <2>1. CASE pc' = pc
      BY <2>1 DEF AllAre
    <2>2. CASE AllAre("failed")'
      BY <2>2, OnePhase, PTL
    <2>3. QED
      BY <2>1, <2>2
  <1>5. AllAre("start") => AllAre("start")'
    <2>1. CASE pc' = pc
      BY <2>1 DEF AllAre
    <2>2. CASE AllAre("done")
      BY <2>2, OnePhase
    <2>3. QED
      BY <2>1, <2>2
  <1>6. TypesInv'
    <2>1. HasCenters' <=> HasCenters
      BY <1>1 DEF HasCenters
    <2>2. QED
      BY <1>1, <1>4, <1>5, <2>1 DEF BoundsInv, TypesInv
  <1>7. \A q : SampledOf(q)' = SampledOf(q)
    BY SameInput DEF SampledOf
  <1>8. CASE pc' = pc
    <2>1. \A i \in Points : PointInv(i)'
      BY <1>3, <1>8 DEF BoundsInv, PointInv
    <2>2. \A p \in PEs : pc'[p] = "weights" => SampledOf(p)' # {}
      BY <1>7, <1>8 DEF BoundsInv
    <2>3. QED
      BY <1>1, <1>6, <2>1, <2>2 DEF BoundsInv
  <1>9. CASE AllAre("failed")'
    <2>1. pc' = [p \in PEs |-> "failed"]
      BY <1>9 DEF AllAre
    <2>2. ASSUME NEW i \in Points PROVE PointInv(i)'
      <3>1. input'.home[i] \in PEs
        BY InputShape DEF RunInv
      <3>2. pc'[input'.home[i]] = "failed"
        BY <2>1, <3>1
      <3>3. QED
        BY <1>3, <3>2 DEF BoundsInv, PointInv
    <2>3. \A p \in PEs : pc'[p] # "weights"
      BY <2>1
    <2>4. QED
      BY <1>1, <1>6, <2>2, <2>3 DEF BoundsInv
  <1>10. QED
    BY <1>8, <1>9

\* The loop after the last level, or the failed assertion.
LEMMA RepartitionBounds ==
  ASSUME RunInv, BoundsInv, Repartition
  PROVE  BoundsInv'
  <1>1. /\ \A p \in PEs : pc[p] = "done"
        /\ level = Len(Levels)
        /\ \/ /\ pc' = [p \in PEs |-> "failed"]
              /\ UNCHANGED <<input, level, father, sampled, centers, influence, assignment,
                             upper, lower>>
           \/ /\ level' = level + 1 /\ father' = [i \in Points |-> 0]
              /\ Loop(RepartitionCenters, assignment) /\ input' = input
    BY DEF Repartition
  <1>2. AllAre("done") /\ ~ AllAre("start")
    BY <1>1, AllThere, OnePhase
  <1>3. /\ input \in Inputs /\ sampled \subseteq Points /\ level \in 1 .. (Len(Levels) + 1)
        /\ Len(Levels) \in Nat \ {0} /\ TypesInv /\ HasCenters
    BY <1>2, InputShape DEF RunInv, BoundsInv, TypesInv
  <1>4. CASE /\ pc' = [p \in PEs |-> "failed"]
             /\ UNCHANGED <<input, level, father, sampled, centers, influence, assignment,
                            upper, lower>>
    <2>1. AllAre("failed")'
      BY <1>4 DEF AllAre
    <2>2. QED
      BY <1>2, <1>4, <2>1, StillBounds
  <1>5. CASE /\ level' = level + 1 /\ father' = [i \in Points |-> 0]
             /\ Loop(RepartitionCenters, assignment) /\ input' = input
    <2>1. Points' = Points /\ Levels' = Levels
      BY <1>5, SameInput
    <2>2. Grouping = Levels[level]
      BY <1>1, <1>3 DEF Grouping
    <2>3. PICK n \in Nat \ {0} : n = NumNew
      BY <1>3, GroupingShape
    <2>4. Grouping' = <<n>>
      BY <1>1, <1>3, <1>5, <2>1, <2>2, <2>3 DEF Grouping, NumNew, RangeStart
    <2>5. BlockSizesPrefixSum(<<n>>, 1) = n
      <3>1. PICK z : z = <<n>>
        OBVIOUS
      <3>2. z \in Sizes /\ Len(z) = 1 /\ z[1] = n
        BY <3>1 DEF Sizes
      <3>3. /\ BlockSizesPrefixSum(z, 0) = 0
            /\ \A b \in 0 .. (Len(z) - 1) :
                 BlockSizesPrefixSum(z, b + 1) = BlockSizesPrefixSum(z, b) + z[b + 1]
        BY <3>2, PrefixStep
      <3>4. QED
        BY <3>1, <3>2, <3>3
    <2>6. NumNew' = n
      BY <2>4, <2>5 DEF NumNew, RangeStart
    <2>7. NewBlocks' = NewBlocks
      BY <2>3, <2>6 DEF NewBlocks
    <2>8. RepartitionCenters \in [NewBlocks' -> Int]
      <3>1. ASSUME NEW j \in NewBlocks
            PROVE  (IF PartitionIsDistribution THEN LocalCenter(j) ELSE FindCenter(j)) \in Int
        BY <1>3, LocalCenterType, FindCenterType
      <3>2. QED
        BY <2>7, <3>1 DEF RepartitionCenters
    <2>9. assignment \in [Points -> NewBlocks']
      BY <1>3, <2>7 DEF TypesInv
    <2>10. father' \in [Points -> 0 .. (Len(Grouping') - 1)]
      BY <1>5, <2>4
    <2>11. level' \in 1 .. (Len(Levels) + 1)
      BY <1>1, <1>3, <1>5
    <2>12. PICK c, a : c = RepartitionCenters /\ a = assignment
      OBVIOUS
    <2>13. Loop(c, a) /\ c \in [NewBlocks' -> Int] /\ a \in [Points -> NewBlocks']
      BY <1>5, <2>8, <2>9, <2>12
    <2>14. QED
      BY <1>5, <2>10, <2>11, <2>13, LoopBounds
  <1>6. QED
    BY <1>1, <1>4, <1>5

\* Every step keeps the bounds, while no distance is out of range.
LEMMA NextBounds == RunInv /\ InRange /\ BoundsInv /\ [Next]_vars => BoundsInv'
  <1> SUFFICES ASSUME RunInv, InRange, BoundsInv, [Next]_vars PROVE BoundsInv'
    OBVIOUS
  <1>1. CASE Start
    BY <1>1, StartBounds
  <1>2. ASSUME NEW p \in PEs, AssignBlocks(p) PROVE BoundsInv'
    BY <1>2, AssignBounds
  <1>3. CASE BalanceRound
    BY <1>3, BalanceBounds
  <1>4. CASE MoveCenters
    BY <1>4, MoveBounds
  <1>5. CASE NextLevel
    BY <1>5, NextLevelBounds
  <1>6. CASE Repartition
    BY <1>6, RepartitionBounds
  <1>7. CASE Ended \/ UNCHANGED vars
    BY <1>7, StillBounds DEF Ended, vars
  <1>8. QED
    BY <1>1, <1>2, <1>3, <1>4, <1>5, <1>6, <1>7 DEF Next

\* So the bounds always hold.
LEMMA SpecBoundsInv == Spec /\ []InRange => []BoundsInv
  <1>1. Init => BoundsInv
    BY InitBounds
  <1>2. RunInv /\ InRange /\ BoundsInv /\ [Next]_vars => BoundsInv'
    BY NextBounds
  <1>3. QED
    BY <1>1, <1>2, SpecRunInv, PTL DEF Spec

\* Through all changes of influence and moves of the centers, the upper bound of a point is
\* not below the effective distance to its center and the lower bound not above that to any
\* other one, so that the two assertions of assignBlocks never fail.
THEOREM BoundsAlwaysHold == Spec /\ []InRange => []BoundsHold
  <1>1. RunInv /\ BoundsInv => BoundsHold
    <2> SUFFICES ASSUME RunInv, BoundsInv, NEW i \in sampled, upper[i] # Huge
                 PROVE  /\ EffDist(i, assignment[i]) <= upper[i]
                        /\ \A j \in Range0(father[i]) \ {assignment[i]} :
                             lower[i] <= EffDist(i, j)
      BY DEF BoundsHold
    <2>1. i \in Points
      BY DEF RunInv
    <2>2. Bounded(i)
      BY <2>1 DEF BoundsInv, PointInv, Fresh
    <2>3. QED
      BY <2>2 DEF Bounded
  <1>2. QED
    BY <1>1, SpecRunInv, SpecBoundsInv, PTL

\* Whatever the bounds let a process skip and wherever its box lets the search stop, the
\* points it has assigned are with a center of least effective distance.
THEOREM AlwaysClosest == Spec /\ []InRange => []ClosestAssigned
  <1>1. RunInv /\ BoundsInv => ClosestAssigned
    <2> SUFFICES ASSUME RunInv, BoundsInv, NEW p \in PEs, pc[p] = "weights",
                        NEW i \in SampledOf(p)
                 PROVE  /\ assignment[i] \in Range0(father[i])
                        /\ \A j \in Range0(father[i]) :
                             EffDist(i, assignment[i]) <= EffDist(i, j)
      BY DEF ClosestAssigned
    <2>1. i \in Points /\ i \in sampled /\ input.home[i] = p
      BY DEF SampledOf, LocalPoints
    <2>2. Bounded(i) /\ IsClosest(i)
      BY <2>1 DEF BoundsInv, PointInv
    <2>3. QED
      BY <2>2 DEF Bounded, IsClosest
  <1>2. QED
    BY <1>1, SpecRunInv, SpecBoundsInv, PTL
=============================================================================
