-------------------------- MODULE MultiLevelProofs --------------------------
(***************************************************************************)
(* For any number of processes, any graphs and settings: the processes     *)
(* leave the refinement loop of a level together; the statistics of the    *)
(* levels stay within their array; and coarsening is undone exactly on the *)
(* way back.                                                               *)
(*                                                                         *)
(* The last of these rests on what the levels have to do with each other   *)
(* (Levels): each is the contraction of the one above along a map that     *)
(* leaves every node with its process, and remembers where its nodes were  *)
(* when it began.  From there the halo of the coarse graph is the image of *)
(* the fine one, getFineTargets finds every coarse node, and the cut is    *)
(* the same before and after coarsening and before and after the return.   *)
(***************************************************************************)
EXTENDS MultiLevel, PartGraphProofs

\* The condition of the loop gives the same answer everywhere, and those who have
\* tested it went where it sent them, unless the cap has sent all of them out.
Agreed ==
  /\ at \in [PE -> {"test", "sweep", "out"}]
  /\ \A p, q \in PE : minGain[p] = minGain[q]
  /\ phase = "sweep" =>
       \/ \A p \in PE : at[p] = "out"
       \/ \A p \in PE : /\ at[p] = "sweep" => Again(p)
                        /\ at[p] = "out" => ~ Again(p)

\* All processes compute the same minimum gain from the global sum
\* (ParcoRepart.cpp:609-620).
LEMMA SameMinGain ==
  ASSUME NEW h, NEW p \in PE, NEW q \in PE
  PROVE  MinGain(h)[p] = MinGain(h)[q]
BY DEF MinGain

\* Before the first sweep nobody has tested anything.
LEMMA InitAgreed == Init => Agreed
BY DEF Init, Agreed

\* Every step keeps the answers alike.
LEMMA NextAgreed == Agreed /\ [Next]_vars => Agreed'
<1> SUFFICES ASSUME Agreed, [Next]_vars PROVE Agreed'
    OBVIOUS
<1> USE DEF Agreed, Again
<1>1. ASSUME NEW auto \in BOOLEAN, DoLocalRefinement(auto) PROVE Agreed'
  <2>1. \A p, q \in PE : minGain'[p] = minGain'[q]
    BY <1>1, SameMinGain DEF DoLocalRefinement
  <2> QED
    BY <1>1, <2>1 DEF DoLocalRefinement
<1>2. CASE Descend
  BY <1>2 DEF Descend, loop
<1>3. CASE Bottom
  BY <1>3 DEF Bottom, loop
<1>4. CASE Setup
  BY <1>4 DEF Setup
<1>5. ASSUME NEW p \in PE, Test(p) PROVE Agreed'
  <2>1. CASE \A q \in PE : at[q] = "out"
    BY <1>5, <2>1 DEF Test
  <2>2. CASE \A q \in PE : /\ at[q] = "sweep" => Again(q)
                           /\ at[q] = "out" => ~ Again(q)
    BY <1>5, <2>2 DEF Test, loop
  <2> QED
    BY <1>5, <2>1, <2>2 DEF Test
<1>6. CASE EnterColor
  BY <1>6 DEF EnterColor
<1>7. ASSUME NEW e \in todo, RefinePair(e) PROVE Agreed'
  BY <1>7 DEF RefinePair
<1>8. CASE NextColor
  BY <1>8 DEF NextColor
<1>9. CASE EndSweep
  <2>1. \/ at' = [p \in PE |-> "out"]
        \/ at' = [p \in PE |-> "test"]
    BY <1>9 DEF EndSweep
  <2>2. minGain' = minGain
    BY <1>9 DEF EndSweep
  <2> QED
    BY <2>1, <2>2
<1>10. CASE Return
  <2>1. phase' \in {"done", "setup"} /\ at' = at /\ minGain' = minGain
    BY <1>10 DEF Return
  <2> QED
    BY <2>1
<1>11. CASE UNCHANGED vars
  BY <1>11 DEF vars
<1> QED
  BY <1>1, <1>2, <1>3, <1>4, <1>5, <1>6, <1>7, <1>8, <1>9, <1>10, <1>11 DEF Next

\* That is more than is claimed.
LEMMA AgreedLeavesTogether == Agreed => LeaveTogether
BY DEF Agreed, LeaveTogether, Again

\* No process waits in a sweep for one that has left the loop
\* (MultiLevel.cpp:151, ParcoRepart.cpp:613).
THEOREM AllLeaveTogether == Spec => []LeaveTogether
<1>1. Init => Agreed
  BY InitAgreed
<1>2. Agreed /\ [Next]_vars => Agreed'
  BY NextAgreed
<1>3. Agreed => LeaveTogether
  BY AgreedLeavesTogether
<1> QED
  BY <1>1, <1>2, <1>3, PTL DEF Spec

\* ----- The invariant.

IsSequence(s) == \E S : s \in Seq(S)

\* The nodes are finitely many numbers, and the matrix is symmetric.
GraphOK(g) ==
  /\ IsFiniteSet(DOMAIN g.row) /\ DOMAIN g.row \subseteq Nat
  /\ \A n, m \in DOMAIN g.row : g.row[n][m] \in Nat /\ g.row[n][m] = g.row[m][n]

\* The contraction of g along map, whatever the state is.
ContractedOf(g, map) ==
  LET coarse == {map[n] : n \in DOMAIN map}
  IN  [row    |-> [c \in coarse |-> [d \in coarse |->
                     IF c = d THEN 0 ELSE CutBetween(g.row, Fibre(map, c), Fibre(map, d))]],
       weight |-> [c \in coarse |-> WeightOf(g.weight, Fibre(map, c))]]

\* f is a finer level on the stack, g the level below it, and org where the coarse
\* nodes were when that level began.
Joined(f, g, org) ==
  /\ GraphOK(f.graph)
  /\ f.owner \in [DOMAIN f.graph.row -> PE] /\ f.origin \in [DOMAIN f.graph.row -> PE]
  /\ f.left \in Int
  /\ DOMAIN f.map = DOMAIN f.graph.row
  /\ \A n \in DOMAIN f.map : f.map[n] \in Nat
  /\ g = ContractedOf(f.graph, f.map)
  /\ \A n \in DOMAIN f.map : org[f.map[n]] = f.owner[n]

Levels ==
  /\ GraphOK(graph)
  /\ owner \in [DOMAIN graph.row -> PE] /\ origin \in [DOMAIN graph.row -> PE]
  /\ IsSequence(stack)
  /\ \A k \in 1 .. Len(stack) :
       IF k = Len(stack) THEN Joined(stack[k], graph, origin)
       ELSE Joined(stack[k], stack[k + 1].graph, stack[k + 1].origin)

\* Where a process is in the loop, and what has been summed up so far.
Pairs == {e \in SUBSET PE : \E p, q \in PE : p < q /\ e = {p, q}}

Position ==
  /\ phase \in {"refine", "descend", "setup", "sweep", "done"}
  /\ at \in [PE -> {"test", "sweep", "out"}]
  /\ scheme \in Seq(SUBSET Pairs) /\ todo \in SUBSET Pairs
  /\ gains \in Seq(Int) /\ color \in Nat /\ Len(gains) \in {color - 1, color}
  /\ (\E p \in PE : at[p] # "sweep") \/ phase # "sweep" => gains = << >> /\ todo = {}
  /\ todo # {} => color \in DOMAIN scheme /\ color = Len(gains)

\* The descent goes down multiLevelRounds times at most.
Depth ==
  /\ settings.multiLevelRounds \in Nat /\ settings.steps \in Nat \ {0}
  /\ left \in Int
  /\ phase \in {"refine", "descend"} => left + Len(stack) <= settings.multiLevelRounds
  /\ Len(stack) <= settings.multiLevelRounds
  /\ rounds \in Nat
  /\ detail[1] <= settings.multiLevelRounds /\ detail[2] < RoundCap

HaloExact == phase = "descend" => halo = NeighborHalo(graph, owner)

LevelInv == Levels /\ Position /\ Depth /\ HaloExact

\* ----- What coarsening may do.

\* What map may be: every node goes to one of the same process.
Local == {map \in [Node -> Node] : \A n \in Node : owner[map[n]] = owner[n]}

\* Merging a pair of neighbours of one process stays with the process.
LEMMA MergeKeeps ==
  ASSUME Levels, NEW map \in Local, NEW row, DOMAIN row = {map[n] : n \in DOMAIN map},
         NEW M \in SUBSET LocalEdges(row), NEW c \in DOMAIN row,
         \A d, e \in M : d # e => d \cap e = {}
  PROVE  /\ Min({c} \cup UNION {e \in M : c \in e}) \in Node
         /\ owner[Min({c} \cup UNION {e \in M : c \in e})] = owner[c]
  <1> DEFINE S == {c} \cup UNION {e \in M : c \in e}
  <1>1. Node \subseteq Nat /\ DOMAIN row \subseteq Node
    <2>1. DOMAIN map = Node /\ \A n \in Node : map[n] \in Node
      BY DEF Local
    <2>2. Node \subseteq Nat
      BY DEF Levels, GraphOK, Node
    <2>3. ASSUME NEW d \in DOMAIN row PROVE d \in Node
      <3>1. PICK n \in DOMAIN map : d = map[n]
        OBVIOUS
      <3>2. QED
        BY <2>1, <3>1
    <2>4. QED
      BY <2>2, <2>3
  <1>2. ASSUME NEW n \in S PROVE n \in Node /\ owner[n] = owner[c]
    <2>1. CASE n = c
      BY <1>1, <2>1
    <2>2. CASE n # c
      <3>1. PICK e \in M : c \in e /\ n \in e
        BY <1>2, <2>2
      <3>2. e \subseteq DOMAIN row /\ owner[n] = owner[c]
        BY <3>1 DEF LocalEdges
      <3>3. QED
        BY <1>1, <3>1, <3>2
    <2>3. QED
      BY <2>1, <2>2
  <1>3. S \subseteq Node /\ c \in S
    BY <1>2
  <1> HIDE DEF S
  <1>4. \E m \in S : \A k \in S : m <= k
    BY <1>1, <1>3, LeastNatural
  <1>5. Min(S) \in S
    BY <1>4, Zenon DEF Min
  <1>6. QED
    BY <1>2, <1>5 DEF S

\* One round of merging, as Contractions writes it.
Disjoint(M) == \A d, e \in M : d # e => d \cap e = {}
Matchings(row) ==
  {M \in SUBSET LocalEdges(row) :
     Disjoint(M) /\ \A e \in LocalEdges(row) : \E d \in M : d \cap e # {}}
Merge(M, c) == Min({c} \cup UNION {e \in M : c \in e})
Merged(map) == {[n \in Node |-> Merge(M, map[n])] : M \in Matchings(Contracted(map).row)}

\* So does every round of merging.
LEMMA MergedLocal ==
  ASSUME Levels, NEW map \in Local
  PROVE  Merged(map) \subseteq Local
  <1> SUFFICES ASSUME NEW M \in Matchings(Contracted(map).row)
               PROVE  [n \in Node |-> Merge(M, map[n])] \in Local
    BY DEF Merged
  <1> DEFINE row == Contracted(map).row
  <1>1. DOMAIN row = {map[n] : n \in DOMAIN map} /\ DOMAIN map = Node
    BY DEF Contracted, Local
  <1>2. M \in SUBSET LocalEdges(row) /\ \A d, e \in M : d # e => d \cap e = {}
    BY DEF Matchings, Disjoint
  <1> HIDE DEF row
  <1>3. ASSUME NEW n \in Node
        PROVE  Merge(M, map[n]) \in Node /\ owner[Merge(M, map[n])] = owner[n]
    <2>1. map[n] \in DOMAIN row /\ owner[map[n]] = owner[n]
      BY <1>1 DEF Local
    <2> DEFINE c == map[n]
    <2> HIDE DEF c
    <2>2. Merge(M, c) \in Node /\ owner[Merge(M, c)] = owner[c]
      BY <1>1, <1>2, <2>1, MergeKeeps DEF Merge, c
    <2>3. QED
      BY <2>1, <2>2 DEF c
  <1> HIDE DEF Merge
  <1>4. QED
    BY <1>3 DEF Local

\* However often it is repeated.
LEMMA ContractionsLocal ==
  ASSUME Levels, settings.steps \in Nat
  PROVE  Contractions \subseteq Local
  <1> DEFINE id == [n \in Node |-> n]
             Maps(h) == h = [k \in Nat |-> IF k = 0 THEN {id}
                               ELSE UNION {Merged(map) : map \in h[k - 1]}]
             maps == CHOOSE h : Maps(h)
             G == [T \in SUBSET Local |-> UNION {Merged(map) : map \in T}]
  <1>1. Contractions = maps[settings.steps]
    BY Zenon DEF Contractions, Merged, Merge, Matchings, Disjoint
  <1>2. {id} \in SUBSET Local
    BY DEF Local
  <1>3. G \in [SUBSET Local -> SUBSET Local]
    BY MergedLocal
  <1>4. \E h : Maps(h)
    <2> DEFINE S == SUBSET Local
               a == {id}
    <2>1. a \in S /\ G \in [S -> S]
      BY <1>2, <1>3
    <2>2. \A T \in S : G[T] = UNION {Merged(map) : map \in T}
      OBVIOUS
    <2> HIDE DEF G, S, a
    <2>3. PICK f \in [Nat -> S] : f[0] = a /\ \A k \in Nat : f[k + 1] = G[f[k]]
      BY <2>1, IterationExists DEF Repeats
    <2>4. ASSUME NEW k \in Nat
          PROVE  f[k] = IF k = 0 THEN a ELSE UNION {Merged(map) : map \in f[k - 1]}
      <3>1. CASE k = 0
        BY <2>3, <3>1
      <3>2. CASE k # 0
        <4>1. k - 1 \in Nat /\ (k - 1) + 1 = k
          BY <3>2
        <4>2. f[k] = G[f[k - 1]] /\ f[k - 1] \in S
          BY <2>3, <4>1
        <4>3. QED
          BY <2>2, <3>2, <4>2
      <3>3. QED
        BY <3>1, <3>2
    <2>5. f = [k \in Nat |-> IF k = 0 THEN a ELSE UNION {Merged(map) : map \in f[k - 1]}]
      BY <2>3, <2>4
    <2>6. QED
      BY <2>5 DEF a
  <1>5. Maps(maps)
    <2> HIDE DEF Maps
    <2>1. QED
      BY <1>4
  <1> HIDE DEF maps
  <1>6. \A k \in Nat : maps[k] \subseteq Local
    <2> DEFINE T == {k \in Nat : ~ (maps[k] \subseteq Local)}
    <2>1. SUFFICES ASSUME T # {} PROVE FALSE
      OBVIOUS
    <2>2. PICK k \in T : \A j \in T : k <= j
      <3>1. T \in SUBSET Nat
        OBVIOUS
      <3> HIDE DEF T
      <3>2. QED
        BY <2>1, <3>1, LeastNatural
    <2>3. k # 0 /\ k - 1 \in Nat /\ ~ (k <= k - 1)
      BY <1>2, <1>5
    <2>4. maps[k - 1] \subseteq Local
      BY <2>2, <2>3
    <2>5. maps[k] = UNION {Merged(map) : map \in maps[k - 1]}
      BY <1>5, <2>3
    <2>6. maps[k] \subseteq Local
      BY <2>4, <2>5, MergedLocal
    <2>7. QED
      BY <2>6
  <1>7. QED
    BY <1>1, <1>6

\* ----- What a contraction keeps.

Contractible(g, map) ==
  /\ GraphOK(g) /\ DOMAIN map = DOMAIN g.row /\ \A n \in DOMAIN map : map[n] \in Nat

\* The nodes and the edges of a contracted graph.
LEMMA CoarseNodes ==
  ASSUME NEW g, NEW map, Contractible(g, map),
         NEW cg, cg = ContractedOf(g, map)
  PROVE  /\ DOMAIN cg.row = {map[n] : n \in DOMAIN map}
         /\ IsFiniteSet(DOMAIN cg.row) /\ DOMAIN cg.row \subseteq Nat
         /\ \A c, d \in DOMAIN cg.row :
              cg.row[c][d] = IF c = d THEN 0
                             ELSE CutBetween(g.row, Fibre(map, c), Fibre(map, d))
         /\ \A c : Fibre(map, c) \subseteq DOMAIN g.row /\ IsFiniteSet(Fibre(map, c))
  <1>1. DOMAIN cg.row = {map[n] : n \in DOMAIN map}
    BY DEF ContractedOf
  <1>2. IsFiniteSet(DOMAIN map)
    BY DEF Contractible, GraphOK
  <1>3. IsFiniteSet({map[n] : n \in DOMAIN map})
    BY <1>2, FiniteImage
  <1>4. {map[n] : n \in DOMAIN map} \subseteq Nat
    BY DEF Contractible
  <1>5. \A c, d \in {map[n] : n \in DOMAIN map} :
          cg.row[c][d] = IF c = d THEN 0
                         ELSE CutBetween(g.row, Fibre(map, c), Fibre(map, d))
    BY DEF ContractedOf
  <1>6. \A c : Fibre(map, c) \subseteq DOMAIN map
    BY DEF Fibre
  <1>7. \A c : IsFiniteSet(Fibre(map, c))
    BY <1>2, <1>6, FS_Subset
  <1>8. DOMAIN map = DOMAIN g.row
    BY DEF Contractible
  <1>9. QED
    BY <1>1, <1>3, <1>4, <1>5, <1>6, <1>7, <1>8

\* It is a graph again.
LEMMA ContractedOK ==
  ASSUME NEW g, NEW map, Contractible(g, map)
  PROVE  GraphOK(ContractedOf(g, map))
  <1> DEFINE cg == ContractedOf(g, map)
  <1>1. /\ IsFiniteSet(DOMAIN cg.row) /\ DOMAIN cg.row \subseteq Nat
        /\ \A c, d \in DOMAIN cg.row :
              cg.row[c][d] = IF c = d THEN 0
                             ELSE CutBetween(g.row, Fibre(map, c), Fibre(map, d))
        /\ \A c : Fibre(map, c) \subseteq DOMAIN g.row /\ IsFiniteSet(Fibre(map, c))
    BY CoarseNodes
  <1> HIDE DEF cg
  <1>2. \A n, m \in DOMAIN g.row : g.row[n][m] \in Nat /\ g.row[n][m] = g.row[m][n]
    BY DEF Contractible, GraphOK
  <1>3. ASSUME NEW c \in DOMAIN cg.row, NEW d \in DOMAIN cg.row
        PROVE  cg.row[c][d] \in Nat /\ cg.row[c][d] = cg.row[d][c]
    <2> DEFINE A == Fibre(map, c)
               B == Fibre(map, d)
    <2>1. /\ IsFiniteSet(A) /\ IsFiniteSet(B)
          /\ \A n \in A, m \in B : g.row[n][m] \in Nat /\ g.row[m][n] = g.row[n][m]
      <3>1. IsFiniteSet(A) /\ IsFiniteSet(B) /\ A \subseteq DOMAIN g.row
            /\ B \subseteq DOMAIN g.row
        BY <1>1
      <3> HIDE DEF A, B
      <3>2. QED
        BY <1>2, <3>1
    <2> HIDE DEF A, B
    <2>2. CutBetween(g.row, A, B) \in Nat
      BY <2>1, CutPositive
    <2>3. CutBetween(g.row, A, B) = CutBetween(g.row, B, A)
      BY <2>1, CutSymmetric
    <2>4. QED
      BY <1>1, <2>2, <2>3 DEF A, B
  <1>4. QED
    BY <1>1, <1>3 DEF GraphOK, cg

\* The blocks of the coarse graph have the cut of what they stand for.
LEMMA ContractionKeepsCut ==
  ASSUME NEW g, NEW map, Contractible(g, map), P \in Nat,
         NEW cg, cg = ContractedOf(g, map),
         NEW own, DOMAIN own = DOMAIN cg.row,
         NEW fine, DOMAIN fine = DOMAIN g.row,
         \A n \in DOMAIN map : fine[n] = own[map[n]]
  PROVE  /\ Cut(cg, own) = Cut(g, fine)
         /\ Cut(cg, own) \in Int
  <1> DEFINE cb == [p \in PE |-> {c \in DOMAIN own : own[c] = p}]
             fb == [p \in PE |-> {n \in DOMAIN fine : fine[n] = p}]
  <1>1. IsFiniteSet(PE)
    BY FS_Interval DEF PE
  <1>2. Cut(cg, own) = Sum(Leaving(cg.row, cb), PE) /\ Cut(g, fine) = Sum(Leaving(g.row, fb), PE)
    <2>1. Cut(cg, own) = CutSum(cg.row, cb) /\ Cut(g, fine) = CutSum(g.row, fb)
      BY DEF Cut
    <2>2. PE = DOMAIN cb /\ PE = DOMAIN fb
      OBVIOUS
    <2> HIDE DEF cb, fb
    <2>3. /\ CutSum(cg.row, cb) = Sum(Leaving(cg.row, cb), PE)
          /\ CutSum(g.row, fb) = Sum(Leaving(g.row, fb), PE)
      <3> DEFINE v == cg.row
                 w == g.row
      <3> HIDE DEF v, w
      <3>1. CutSum(v, cb) = Sum(Leaving(v, cb), PE)
        BY <1>1, <2>2, CutSumIsSum
      <3>2. CutSum(w, fb) = Sum(Leaving(w, fb), PE)
        BY <1>1, <2>2, CutSumIsSum
      <3>3. QED
        BY <3>1, <3>2 DEF v, w
    <2>4. QED
      BY <2>1, <2>3
  <1>3. ASSUME NEW p \in PE
        PROVE  /\ Leaving(cg.row, cb)[p] = Leaving(g.row, fb)[p]
               /\ Leaving(cg.row, cb)[p] \in Int
    <2> DEFINE A == cb[p]
               B == (DOMAIN cg.row) \ cb[p]
    <2>1. Leaving(cg.row, cb)[p] = CutBetween(cg.row, A, B)
      BY DEF Leaving
    <2>2. Leaving(g.row, fb)[p] = CutBetween(g.row, fb[p], (DOMAIN g.row) \ fb[p])
      BY DEF Leaving
    <2>3. /\ DOMAIN cg.row = {map[n] : n \in DOMAIN map} /\ IsFiniteSet(DOMAIN cg.row)
          /\ \A c, d \in DOMAIN cg.row :
               cg.row[c][d] = IF c = d THEN 0
                              ELSE CutBetween(g.row, Fibre(map, c), Fibre(map, d))
      BY CoarseNodes
    <2>4. A \subseteq DOMAIN cg.row /\ B \subseteq DOMAIN cg.row /\ A \cap B = {}
      OBVIOUS
    <2>5. /\ IsFiniteSet(DOMAIN map) /\ DOMAIN map = DOMAIN g.row
          /\ \A n, m \in DOMAIN map : g.row[n][m] \in Nat
      BY DEF Contractible, GraphOK
    <2>6. Over(map, A) = fb[p]
      BY <2>3, <2>5 DEF Over
    <2>7. Over(map, B) = (DOMAIN g.row) \ fb[p]
      BY <2>3, <2>5 DEF Over
    <2> HIDE DEF A, B, cb
    <2>8. \A c \in A, d \in B : cg.row[c][d] = CutBetween(g.row, Fibre(map, c), Fibre(map, d))
      BY <2>3, <2>4
    <2>9. IsFiniteSet(A) /\ IsFiniteSet(B)
      BY <2>3, <2>4, FS_Subset
    <2>10. CutBetween(cg.row, A, B) = CutBetween(g.row, Over(map, A), Over(map, B))
      <3> DEFINE v == cg.row
                 w == g.row
      <3>1. /\ \A c \in A, d \in B : v[c][d] = CutBetween(w, Fibre(map, c), Fibre(map, d))
            /\ \A n, m \in DOMAIN map : w[n][m] \in Nat
        BY <2>5, <2>8
      <3> HIDE DEF v, w
      <3>2. CutBetween(v, A, B) = CutBetween(w, Over(map, A), Over(map, B))
        <4>1. IsFiniteSet(DOMAIN map)
          BY <2>5
        <4>2. QED
          BY <2>9, <3>1, <4>1, CutFibres
      <3>3. QED
        BY <3>2 DEF v, w
    <2>11. CutBetween(cg.row, A, B) \in Int
      <3>1. GraphOK(cg)
        BY ContractedOK
      <3>2. \A c \in A, d \in B : cg.row[c][d] \in Int
        BY <2>4, <3>1 DEF GraphOK
      <3>3. QED
        BY <2>9, <3>2, CutType
    <2>12. QED
      BY <2>1, <2>2, <2>6, <2>7, <2>10, <2>11
  <1> HIDE DEF cb, fb
  <1>4. Sum(Leaving(cg.row, cb), PE) = Sum(Leaving(g.row, fb), PE)
    BY <1>1, <1>3, SumSame
  <1>5. Sum(Leaving(cg.row, cb), PE) \in Int
    BY <1>1, <1>3, SumType
  <1>6. QED
    BY <1>2, <1>4, <1>5

\* What q has and p requires.
Boundary(g, own, p, q) ==
  NeighborsOf(g.row, {n \in DOMAIN g.row : own[n] = p}) \cap {n \in DOMAIN g.row : own[n] = q}

\* The coarse nodes at a border are those of the fine nodes there.
LEMMA BoundaryContracts ==
  ASSUME NEW g, NEW map, Contractible(g, map), NEW own,
         NEW cg, cg = ContractedOf(g, map),
         NEW cown, \A n \in DOMAIN map : cown[map[n]] = own[n],
         NEW p, NEW q, p # q
  PROVE  Boundary(cg, cown, p, q) = Image(map, Boundary(g, own, p, q))
  <1>1. /\ DOMAIN cg.row = {map[n] : n \in DOMAIN map}
        /\ \A c, d \in DOMAIN cg.row :
             cg.row[c][d] = IF c = d THEN 0
                            ELSE CutBetween(g.row, Fibre(map, c), Fibre(map, d))
        /\ \A c : Fibre(map, c) \subseteq DOMAIN g.row /\ IsFiniteSet(Fibre(map, c))
    BY CoarseNodes
  <1>2. /\ DOMAIN map = DOMAIN g.row
        /\ \A n, m \in DOMAIN map : g.row[n][m] \in Nat
    BY DEF Contractible, GraphOK
  <1>3. \A c, d \in DOMAIN cg.row :
          c # d => (cg.row[c][d] > 0
                      <=> \E n, m \in DOMAIN map : map[n] = c /\ map[m] = d /\ g.row[n][m] > 0)
    <2> SUFFICES ASSUME NEW c \in DOMAIN cg.row, NEW d \in DOMAIN cg.row, c # d
                 PROVE  cg.row[c][d] > 0
                          <=> \E n, m \in DOMAIN map : map[n] = c /\ map[m] = d /\ g.row[n][m] > 0
      OBVIOUS
    <2> DEFINE A == Fibre(map, c)
               B == Fibre(map, d)
    <2>1. cg.row[c][d] = CutBetween(g.row, A, B)
      BY <1>1
    <2>2. IsFiniteSet(A) /\ IsFiniteSet(B)
      BY <1>1
    <2>3. \A n : (n \in A <=> n \in DOMAIN map /\ map[n] = c)
                 /\ (n \in B <=> n \in DOMAIN map /\ map[n] = d)
      BY DEF Fibre
    <2> HIDE DEF A, B
    <2>4. \A n \in A, m \in B : g.row[n][m] \in Nat
      BY <1>2, <2>3
    <2>5. CutBetween(g.row, A, B) > 0 <=> \E n \in A, m \in B : g.row[n][m] > 0
      BY <2>2, <2>4, CutPositive
    <2>6. QED
      BY <2>1, <2>3, <2>5
  <1>4. \A x : x \in Boundary(g, own, p, q) <=>
          /\ x \in DOMAIN g.row /\ own[x] = q
          /\ \E n \in DOMAIN g.row : own[n] = p /\ x # n /\ g.row[n][x] > 0
    BY DEF Boundary, NeighborsOf, Neighbors
  <1>5. \A x : x \in Boundary(cg, cown, p, q) <=>
          /\ x \in DOMAIN cg.row /\ cown[x] = q
          /\ \E n \in DOMAIN cg.row : cown[n] = p /\ x # n /\ cg.row[n][x] > 0
    BY DEF Boundary, NeighborsOf, Neighbors
  <1>6. \A n \in DOMAIN map : map[n] \in DOMAIN cg.row
    BY <1>1
  <1>7. ASSUME NEW x \in Boundary(cg, cown, p, q) PROVE x \in Image(map, Boundary(g, own, p, q))
    <2>1. PICK d \in DOMAIN cg.row : cown[d] = p /\ x # d /\ cg.row[d][x] > 0
      BY <1>5, <1>7
    <2>2. x \in DOMAIN cg.row /\ cown[x] = q
      BY <1>5, <1>7
    <2>3. PICK n \in DOMAIN map, m \in DOMAIN map : map[n] = d /\ map[m] = x /\ g.row[n][m] > 0
      BY <1>3, <2>1, <2>2
    <2>4. own[n] = p /\ own[m] = q /\ m # n
      BY <2>1, <2>2, <2>3
    <2>5. m \in Boundary(g, own, p, q)
      BY <1>2, <1>4, <2>3, <2>4
    <2>6. QED
      BY <2>3, <2>5 DEF Image
  <1>8. ASSUME NEW m \in Boundary(g, own, p, q) PROVE map[m] \in Boundary(cg, cown, p, q)
    <2>1. m \in DOMAIN map /\ own[m] = q
      BY <1>2, <1>4
    <2>2. PICK n \in DOMAIN map : own[n] = p /\ m # n /\ g.row[n][m] > 0
      BY <1>2, <1>4
    <2>3. map[n] \in DOMAIN cg.row /\ map[m] \in DOMAIN cg.row
          /\ cown[map[n]] = p /\ cown[map[m]] = q
      BY <1>6, <2>1, <2>2
    <2>4. map[n] # map[m]
      BY <2>3
    <2>5. cg.row[map[n]][map[m]] > 0
      BY <1>3, <2>1, <2>2, <2>3, <2>4
    <2>6. QED
      BY <1>5, <2>3, <2>4, <2>5
  <1>9. QED
    BY <1>7, <1>8 DEF Image

\* ----- The levels.

\* Putting a level on the stack, and taking it away.
LEMMA PushRecord ==
  ASSUME NEW s, IsSequence(s), NEW x
  PROVE  /\ IsSequence(Append(s, x)) /\ Len(s) \in Nat
         /\ Len(Append(s, x)) = Len(s) + 1
         /\ \A i \in 1 .. Len(s) : Append(s, x)[i] = s[i]
         /\ Append(s, x)[Len(s) + 1] = x
  <1>1. PICK S : s \in Seq(S)
    BY DEF IsSequence
  <1>2. s \in Seq(S \cup {x})
    BY <1>1
  <1>3. Append(s, x) \in Seq(S \cup {x})
    BY <1>2
  <1>4. QED
    BY <1>2, <1>3 DEF IsSequence

\* The level on top of the stack goes away.
LEMMA PopRecord ==
  ASSUME NEW s, IsSequence(s), s # << >>
  PROVE  /\ IsSequence(SubSeq(s, 1, Len(s) - 1)) /\ Len(s) \in Nat \ {0}
         /\ Len(SubSeq(s, 1, Len(s) - 1)) = Len(s) - 1
         /\ \A i \in 1 .. (Len(s) - 1) : SubSeq(s, 1, Len(s) - 1)[i] = s[i]
  <1>1. PICK S : s \in Seq(S)
    BY DEF IsSequence
  <1>2. Len(s) \in Nat \ {0}
    BY <1>1
  <1> DEFINE L == Len(s) - 1
  <1>3. L \in Nat /\ L <= Len(s)
    BY <1>2
  <1> HIDE DEF L
  <1>4. SubSeq(s, 1, L) \in Seq(S)
    BY <1>1, <1>2, <1>3
  <1>5. Len(SubSeq(s, 1, L)) = L
    BY <1>1, <1>2, <1>3
  <1>6. \A i \in 1 .. L : SubSeq(s, 1, L)[i] = s[i]
    BY <1>1, <1>2, <1>3
  <1>7. QED
    BY <1>2, <1>4, <1>5, <1>6 DEF IsSequence, L

\* There is no finer level at the beginning.
LEMMA EmptyStack == IsSequence(<< >>) /\ Len(<< >>) = 0
  <1>1. << >> \in Seq({0}) /\ Len(<< >>) = 0
    OBVIOUS
  <1>2. QED
    BY <1>1 DEF IsSequence

\* The finest level is the only one at the beginning.
LEMMA InitLevels == Init => Levels
  <1> SUFFICES ASSUME Init PROVE Levels
    OBVIOUS
  <1>1. PICK i \in Instances :
          /\ graph = [row |-> i.row, weight |-> i.weight]
          /\ owner = i.owner /\ origin = i.owner /\ stack = << >>
    BY DEF Init
  <1>2. GraphOK(graph) /\ owner \in [DOMAIN graph.row -> PE]
    BY <1>1, MultiLevelAssumption DEF GraphOK
  <1>3. QED
    BY <1>1, <1>2, EmptyStack DEF Levels

\* The contraction of the model is the one that does not depend on the state.
LEMMA ContractedIs ==
  ASSUME NEW map \in Local
  PROVE  Contracted(map) = ContractedOf(graph, map)
  <1>1. DOMAIN map = Node
    BY DEF Local
  <1>2. \A c : {n \in Node : map[n] = c} = Fibre(map, c)
    BY <1>1 DEF Fibre
  <1>3. QED
    BY <1>1, <1>2 DEF Contracted, ContractedOf

\* Coarsening once: the new level fits the one it was made from.
LEMMA DescendLevels ==
  ASSUME Levels, Depth, Descend
  PROVE  \E map \in Local :
           /\ Contractible(graph, map)
           /\ graph' = ContractedOf(graph, map)
           /\ owner' = [c \in DOMAIN graph'.row |-> owner[c]]
           /\ \A n \in DOMAIN map : owner'[map[n]] = owner[n]
           /\ halo' = CoarsenHalo(map)
           /\ Levels'
  <1>1. PICK map \in Contractions :
          /\ stack' = Append(stack, [graph |-> graph, owner |-> owner,
                                     origin |-> origin, left |-> left, map |-> map])
          /\ graph' = Contracted(map)
          /\ owner' = [c \in DOMAIN graph'.row |-> owner[c]]
          /\ halo' = CoarsenHalo(map)
    BY DEF Descend
  <1>2. map \in Local
    BY ContractionsLocal DEF Depth
  <1>3. graph' = ContractedOf(graph, map)
    BY <1>1, <1>2, ContractedIs
  <1>4. DOMAIN map = DOMAIN graph.row /\ \A n \in DOMAIN map : map[n] \in DOMAIN graph.row
    BY <1>2 DEF Local, Node
  <1>5. Contractible(graph, map)
    BY <1>4 DEF Contractible, Levels, GraphOK
  <1>6. GraphOK(graph')
    BY <1>3, <1>5, ContractedOK
  <1>7. DOMAIN graph'.row = {map[n] : n \in DOMAIN map}
    BY <1>3, <1>5, CoarseNodes
  <1>8. owner' \in [DOMAIN graph'.row -> PE]
    <2>1. \A c \in DOMAIN graph'.row : owner[c] \in PE
      BY <1>4, <1>7 DEF Levels
    <2>2. QED
      BY <1>1, <2>1
  <1>9. \A n \in DOMAIN map : owner'[map[n]] = owner[n]
    <2>1. \A n \in DOMAIN map : owner[map[n]] = owner[n]
      BY <1>2 DEF Local
    <2>2. QED
      BY <1>1, <1>7, <2>1
  <1> DEFINE f == [graph |-> graph, owner |-> owner,
                   origin |-> origin, left |-> left, map |-> map]
  <1>10. origin' = owner'
    BY DEF Descend
  <1>11. Joined(f, graph', origin')
    BY <1>3, <1>4, <1>5, <1>9, <1>10 DEF Joined, Levels, Contractible, Depth, GraphOK
  <1>12. stack' = Append(stack, f)
    BY <1>1
  <1> HIDE DEF f
  <1>13. /\ IsSequence(stack') /\ Len(stack) \in Nat /\ Len(stack') = Len(stack) + 1
         /\ \A i \in 1 .. Len(stack) : stack'[i] = stack[i]
         /\ stack'[Len(stack) + 1] = f
    BY <1>12, PushRecord DEF Levels
  <1>14. f.graph = graph /\ f.origin = origin
    BY DEF f
  <1>15. ASSUME NEW k \in 1 .. Len(stack')
         PROVE  IF k = Len(stack') THEN Joined(stack'[k], graph', origin')
                ELSE Joined(stack'[k], stack'[k + 1].graph, stack'[k + 1].origin)
    <2>1. CASE k = Len(stack')
      BY <1>11, <1>13, <2>1
    <2>2. CASE k # Len(stack')
      <3>1. k \in 1 .. Len(stack) /\ stack'[k] = stack[k]
        BY <1>13, <2>2
      <3>2. CASE k = Len(stack)
        <4>1. stack'[k + 1] = f /\ Joined(stack[k], graph, origin)
          BY <1>13, <3>1, <3>2 DEF Levels
        <4>2. QED
          BY <1>14, <2>2, <3>1, <4>1
      <3>3. CASE k # Len(stack)
        <4>1. k + 1 \in 1 .. Len(stack) /\ stack'[k + 1] = stack[k + 1]
          BY <1>13, <3>1, <3>3
        <4>2. Joined(stack[k], stack[k + 1].graph, stack[k + 1].origin)
          BY <3>1, <3>3 DEF Levels
        <4>3. QED
          BY <2>2, <3>1, <4>1, <4>2
      <3>4. QED
        BY <3>2, <3>3
    <2>3. QED
      BY <2>1, <2>2
  <1>16. Levels'
    BY <1>6, <1>8, <1>10, <1>13, <1>15 DEF Levels
  <1>17. QED
    BY <1>1, <1>2, <1>3, <1>5, <1>9, <1>16

\* Going up: every coarse node is found, and the finer level takes its owner.
LEMMA ReturnLevels ==
  ASSUME Levels, Return, stack # << >>
  PROVE  LET f == stack[Len(stack)]
         IN  /\ Contractible(f.graph, f.map)
             /\ graph = ContractedOf(f.graph, f.map)
             /\ graph' = f.graph
             /\ DOMAIN owner' = DOMAIN graph'.row
             /\ \A n \in DOMAIN f.map : owner'[n] = owner[f.map[n]]
             /\ Levels'
  <1> DEFINE f == stack[Len(stack)]
             L == Len(stack)
  <1>1. /\ IsSequence(stack') /\ Len(stack) \in Nat \ {0}
        /\ Len(stack') = Len(stack) - 1
        /\ \A i \in 1 .. (Len(stack) - 1) : stack'[i] = stack[i]
    BY PopRecord DEF Levels, Return
  <1>2. /\ owner' \in FineTargets(f) /\ graph' = f.graph /\ origin' = f.origin
    BY DEF Return
  <1>3. Joined(f, graph, origin)
    BY <1>1 DEF Levels
  <1> HIDE DEF f
  <1>4. Contractible(f.graph, f.map)
    BY <1>3 DEF Joined, Contractible
  <1>5. DOMAIN graph.row = {f.map[n] : n \in DOMAIN f.map}
    BY <1>3, <1>4, CoarseNodes DEF Joined
  <1>6. {n \in DOMAIN f.map : origin[f.map[n]] = f.owner[n]} = DOMAIN f.map
    BY <1>3 DEF Joined
  <1>7. owner' = [n \in DOMAIN f.map |-> owner[f.map[n]]]
    <2> DEFINE known == {n \in DOMAIN f.map : origin[f.map[n]] = f.owner[n]}
               found == [n \in known |-> owner[f.map[n]]]
    <2>1. PICK lost \in [DOMAIN f.map \ known -> PE] :
            owner' = [n \in DOMAIN f.map |-> IF n \in known THEN found[n] ELSE lost[n]]
      BY <1>2 DEF FineTargets
    <2>2. QED
      BY <1>6, <2>1
  <1>8. owner' \in [DOMAIN f.graph.row -> PE]
    <2>1. \A n \in DOMAIN f.map : owner[f.map[n]] \in PE
      BY <1>5 DEF Levels
    <2>2. DOMAIN f.map = DOMAIN f.graph.row
      BY <1>3 DEF Joined
    <2>3. QED
      BY <1>7, <2>1, <2>2
  <1>9. ASSUME NEW k \in 1 .. Len(stack')
        PROVE  IF k = Len(stack') THEN Joined(stack'[k], graph', origin')
               ELSE Joined(stack'[k], stack'[k + 1].graph, stack'[k + 1].origin)
    <2>1. k \in 1 .. Len(stack) /\ k # Len(stack) /\ stack'[k] = stack[k] /\ k \in Nat
      BY <1>1
    <2>2. Joined(stack[k], stack[k + 1].graph, stack[k + 1].origin)
      BY <2>1 DEF Levels
    <2>3. CASE k = Len(stack')
      <3>1. k + 1 = Len(stack)
        BY <1>1, <2>3
      <3>2. stack[k + 1] = f
        BY <3>1 DEF f
      <3>3. QED
        BY <1>2, <2>1, <2>2, <2>3, <3>2
    <2>4. CASE k # Len(stack')
      <3>1. k + 1 \in 1 .. (Len(stack) - 1)
        BY <1>1, <2>1, <2>4
      <3>2. stack'[k + 1] = stack[k + 1]
        BY <1>1, <3>1
      <3>3. QED
        BY <2>1, <2>2, <2>4, <3>2
    <2>5. QED
      BY <2>3, <2>4
  <1>10. Levels'
    BY <1>1, <1>2, <1>3, <1>8, <1>9 DEF Levels, Joined
  <1>11. DOMAIN owner' = DOMAIN graph'.row
    BY <1>2, <1>8
  <1>12. QED
    BY <1>2, <1>3, <1>4, <1>7, <1>10, <1>11 DEF f, Joined

\* ----- Every step keeps the invariant.

\* The two processes of a pair.
LEMMA PairEnds ==
  ASSUME NEW e \in Pairs
  PROVE  /\ Min(e) \in PE /\ Max(e) \in PE /\ Min(e) # Max(e) /\ e = {Min(e), Max(e)}
  <1>1. PICK p \in PE, q \in PE : p < q /\ e = {p, q}
    BY DEF Pairs
  <1>2. p \in Int /\ q \in Int
    BY MultiLevelAssumption DEF PE
  <1>3. \E m \in e : \A k \in e : m <= k
    BY <1>1, <1>2
  <1>4. \E m \in e : \A k \in e : m >= k
    BY <1>1, <1>2
  <1>5. Min(e) \in e /\ \A k \in e : Min(e) <= k
    BY <1>3, Zenon DEF Min
  <1>6. Max(e) \in e /\ \A k \in e : Max(e) >= k
    BY <1>4, Zenon DEF Max
  <1>7. QED
    BY <1>1, <1>2, <1>5, <1>6

\* Every step keeps the levels in order.
LEMMA StepLevels ==
  ASSUME Levels, Depth, Position, [Next]_vars
  PROVE  Levels'
  <1>1. CASE UNCHANGED <<graph, owner, origin, stack>>
    BY <1>1 DEF Levels
  <1>2. CASE Descend
    BY <1>2, DescendLevels
  <1>3. CASE Return
    <2>1. CASE stack = << >>
      BY <1>1, <1>3, <2>1 DEF Return, level
    <2>2. CASE stack # << >>
      BY <1>3, <2>2, ReturnLevels
    <2>3. QED
      BY <2>1, <2>2
  <1>4. ASSUME NEW e \in todo, RefinePair(e) PROVE Levels'
    <2>1. PICK T :
            owner' = [n \in Node |-> IF owner[n] \notin e THEN owner[n]
                                     ELSE IF n \in T THEN Max(e) ELSE Min(e)]
      BY <1>4 DEF RefinePair
    <2>2. Min(e) \in PE /\ Max(e) \in PE
      BY PairEnds DEF Position
    <2>3. owner' \in [DOMAIN graph.row -> PE]
      BY <2>1, <2>2 DEF Levels, Node
    <2>4. UNCHANGED <<graph, origin, stack>>
      BY <1>4 DEF RefinePair
    <2>5. QED
      BY <2>3, <2>4 DEF Levels
  <1>5. QED
    BY <1>1, <1>2, <1>3, <1>4
      DEF Next, vars, level, DoLocalRefinement, Bottom, Setup, Test, EnterColor, NextColor,
          EndSweep

\* The schemes of a level are sequences of sets of pairs.
LEMMA SchemesPair == Schemes \subseteq Seq(SUBSET Pairs)
  <1>1. Borders \subseteq Pairs
    <2> SUFFICES ASSUME NEW e \in Borders PROVE e \in Pairs
      OBVIOUS
    <2>1. PICK p \in e, q \in e : e = {p, q} /\ p # q
      BY DEF Borders
    <2>2. p \in PE /\ q \in PE /\ e \in SUBSET PE /\ p \in Int /\ q \in Int
      BY MultiLevelAssumption DEF Borders, PE
    <2>3. p < q \/ q < p
      BY <2>1, <2>2
    <2>4. {p, q} = {q, p}
      OBVIOUS
    <2>5. QED
      BY <2>1, <2>2, <2>3, <2>4 DEF Pairs
  <1>2. ASSUME NEW k \in 0 .. Cardinality(Borders), NEW f
        PROVE  [c \in 1 .. k |-> {e \in Borders : f[e] = c}] \in Seq(SUBSET Pairs)
    <2>1. k \in Nat
      OBVIOUS
    <2>2. \A c \in 1 .. k : {e \in Borders : f[e] = c} \in SUBSET Pairs
      BY <1>1
    <2>3. QED
      BY <2>1, <2>2
  <1>3. QED
    BY <1>2 DEF Schemes

\* What skipNoGainColors leaves of a scheme is one.
LEMMA KeptPair ==
  ASSUME scheme \in Seq(SUBSET Pairs)
  PROVE  Kept \subseteq Seq(SUBSET Pairs)
  <1> DEFINE stay == {c \in DOMAIN scheme : settings.skip => gains[c] # 0}
             N == Cardinality(stay)
  <1>1. IsFiniteSet(DOMAIN scheme) /\ stay \subseteq DOMAIN scheme
    <2>1. DOMAIN scheme = 1 .. Len(scheme) /\ Len(scheme) \in Nat
      OBVIOUS
    <2>2. IsFiniteSet(1 .. Len(scheme))
      BY <2>1, FS_Interval
    <2>3. QED
      BY <2>1, <2>2
  <1> HIDE DEF stay
  <1>2. N \in Nat
    BY <1>1, FS_Subset, FS_CardinalityType
  <1> HIDE DEF N
  <1>3. ASSUME NEW o \in [1 .. N -> stay]
        PROVE  [i \in DOMAIN o |-> scheme[o[i]]] \in Seq(SUBSET Pairs)
    <2>1. \A i \in 1 .. N : o[i] \in DOMAIN scheme
      BY <1>1
    <2>2. \A c \in DOMAIN scheme : scheme[c] \in SUBSET Pairs
      OBVIOUS
    <2>3. \A i \in 1 .. N : scheme[o[i]] \in SUBSET Pairs
      BY <2>1, <2>2
    <2>4. [i \in 1 .. N |-> scheme[o[i]]] \in Seq(SUBSET Pairs)
      BY <1>2, <2>3
    <2>5. QED
      BY <2>4
  <1>4. QED
    BY <1>3 DEF Kept, stay, N

\* Before the first sweep nothing has been gained.
LEMMA InitPosition == Init => Position
  <1> SUFFICES ASSUME Init PROVE Position
    OBVIOUS
  <1>1. << >> \in Seq(Int) /\ << >> \in Seq(SUBSET Pairs) /\ Len(<< >>) = 0
    OBVIOUS
  <1>2. QED
    BY <1>1 DEF Init, Position

\* Every step keeps the position in the scheme.
LEMMA StepPosition ==
  ASSUME Position, Levels, [Next]_vars
  PROVE  Position'
  <1>0. 0 \in PE
    BY MultiLevelAssumption DEF PE
  <1>1. CASE UNCHANGED <<phase, at, scheme, todo, gains, color>>
    BY <1>1 DEF Position
  <1>2. CASE /\ phase # "sweep" /\ phase' \in {"refine", "descend", "setup", "done"}
             /\ UNCHANGED <<at, scheme, todo, gains, color>>
    BY <1>2 DEF Position
  <1>3. CASE Setup
    <2>1. << >> \in Seq(Int) /\ Len(<< >>) = 0
      OBVIOUS
    <2>2. scheme' \in Seq(SUBSET Pairs)
      BY <1>3, SchemesPair DEF Setup
    <2>3. QED
      BY <1>3, <2>1, <2>2 DEF Setup, Position
  <1>4. ASSUME NEW p \in PE, Test(p) PROVE Position'
    BY <1>4 DEF Test, Position, loop
  <1>5. CASE EnterColor
    <2>1. gains' = Append(gains, 0) /\ todo' = scheme[color] /\ color \in DOMAIN scheme
          /\ Len(gains) < color /\ UNCHANGED <<phase, at, scheme, color>>
          /\ phase = "sweep" /\ \A p \in PE : at[p] = "sweep"
      BY <1>5 DEF EnterColor, Sweeping
    <2>2. gains' \in Seq(Int) /\ Len(gains') = Len(gains) + 1 /\ Len(gains) \in Nat
      BY <2>1 DEF Position
    <2>3. Len(gains) = color - 1 /\ color \in Nat
      BY <2>1, <2>2 DEF Position
    <2>4. todo' \in SUBSET Pairs
      BY <2>1 DEF Position
    <2>5. QED
      BY <2>1, <2>2, <2>3, <2>4 DEF Position
  <1>6. ASSUME NEW e \in todo, RefinePair(e) PROVE Position'
    <2>1. todo' = todo \ {e} /\ UNCHANGED <<phase, at, scheme, color>>
          /\ phase = "sweep" /\ \A p \in PE : at[p] = "sweep"
      BY <1>6 DEF RefinePair, Sweeping
    <2> DEFINE p == Min(e)
               q == Max(e)
    <2>2. PICK o \in FMOutcomes(graph.row, graph.weight, Owned(p), Owned(q),
                             Owned(p) \cup Owned(q), WeightOf(graph.weight, Owned(p)),
                             WeightOf(graph.weight, Owned(q)), Capacity) :
            gains' = [gains EXCEPT ![color] = @ + o.gain]
      BY <1>6 DEF RefinePair
    <2> HIDE DEF p, q
    <2>3. o.gain \in Int
      <3>1. IsFiniteSet(Owned(p)) /\ IsFiniteSet(Owned(q)) /\ Owned(p) \subseteq Node
            /\ Owned(q) \subseteq Node
        <4>1. IsFiniteSet(Node) /\ Owned(p) \subseteq Node /\ Owned(q) \subseteq Node
          BY DEF Levels, GraphOK, Node, Owned
        <4>2. QED
          BY <4>1, FS_Subset
      <3>2. IsFiniteSet(Owned(p) \cup Owned(q))
        BY <3>1, FS_Union
      <3>3. \A n, m \in Node : graph.row[n][m] \in Int
        BY DEF Levels, GraphOK, Node
      <3> DEFINE F == Owned(p)
                 S == Owned(q)
      <3>4. \A n \in F \cup (F \cup S), m \in S \cup (F \cup S) : graph.row[n][m] \in Int
        BY <3>1, <3>3
      <3> HIDE DEF F, S
      <3>5. QED
        BY <2>2, <3>1, <3>2, <3>4, OutcomeType DEF F, S
    <2>4. gains' \in Seq(Int) /\ Len(gains') = Len(gains)
      <3>1. \A c \in 1 .. Len(gains) : gains'[c] \in Int
        BY <2>2, <2>3 DEF Position
      <3>2. QED
        BY <2>2, <3>1 DEF Position
    <2>5. QED
      BY <2>1, <2>4 DEF Position
  <1>7. CASE NextColor
    <2>1. color' = color + 1 /\ Len(gains) = color /\ todo = {}
          /\ UNCHANGED <<phase, at, scheme, todo, gains>>
          /\ phase = "sweep" /\ \A p \in PE : at[p] = "sweep"
      BY <1>7 DEF NextColor, Sweeping
    <2>2. QED
      BY <2>1 DEF Position
  <1>8. CASE EndSweep
    <2>1. << >> \in Seq(Int) /\ Len(<< >>) = 0
      OBVIOUS
    <2>2. scheme' \in Kept /\ gains' = << >> /\ color' = 1 /\ todo' = todo /\ phase' = phase
          /\ color = Len(scheme) + 1
          /\ (at' = [p \in PE |-> "out"] \/ at' = [p \in PE |-> "test"])
      BY <1>8 DEF EndSweep
    <2>3. todo = {}
      <3>1. DOMAIN scheme = 1 .. Len(scheme) /\ Len(scheme) \in Nat
        BY DEF Position
      <3>2. color \notin DOMAIN scheme
        BY <2>2, <3>1
      <3>3. QED
        BY <3>2 DEF Position
    <2>4. scheme' \in Seq(SUBSET Pairs)
      BY <2>2, KeptPair DEF Position
    <2>5. QED
      BY <2>1, <2>2, <2>3, <2>4 DEF Position
  <1>9. CASE Return
    <2>1. phase = "sweep" /\ (\A p \in PE : at[p] = "out") /\ phase' \in {"done", "setup"}
          /\ UNCHANGED <<at, scheme, todo, gains, color>>
      BY <1>9 DEF Return, loop
    <2>2. at[0] # "sweep"
      BY <1>0, <2>1
    <2>3. gains = << >> /\ todo = {}
      BY <1>0, <2>2 DEF Position
    <2>4. QED
      BY <2>1, <2>3 DEF Position
  <1>10. QED
    BY <1>1, <1>2, <1>3, <1>4, <1>5, <1>6, <1>7, <1>8, <1>9
      DEF Next, vars, loop, DoLocalRefinement, Descend, Bottom

\* The descent begins with all its rounds left.
LEMMA InitDepth == Init => Depth
  <1> SUFFICES ASSUME Init PROVE Depth
    OBVIOUS
  <1>1. PICK i \in Instances : /\ settings = i.settings
                               /\ stack = << >> /\ left = i.settings.multiLevelRounds
                               /\ rounds = 0 /\ detail = <<-1, 0>>
    BY DEF Init
  <1>2. /\ i.settings.multiLevelRounds \in Nat /\ i.settings.steps \in Nat \ {0}
        /\ RoundCap \in Nat \ {0}
    BY MultiLevelAssumption
  <1>3. QED
    BY <1>1, <1>2, EmptyStack DEF Depth

\* Every step keeps to the depth and to the number of sweeps.
LEMMA StepDepth ==
  ASSUME Depth, Levels, [Next]_vars
  PROVE  Depth'
  <1>1. settings' = settings
    BY DEF Next, vars, loop, DoLocalRefinement, Descend, Bottom, Setup, Test, EnterColor,
           RefinePair, NextColor, EndSweep, Return
  <1>2. RoundCap \in Nat \ {0}
    BY MultiLevelAssumption
  <1>3. Len(stack) \in Nat
    BY PushRecord DEF Levels
  <1>4. CASE /\ phase' \in {"refine", "descend"} => phase \in {"refine", "descend"}
             /\ UNCHANGED <<stack, left, rounds, detail>>
    BY <1>1, <1>4 DEF Depth
  <1>5. CASE Descend
    <2>1. /\ left > 0 /\ left' = left - settings.steps /\ phase = "descend"
          /\ UNCHANGED <<phase, rounds, detail>>
          /\ \E x : stack' = Append(stack, x)
      BY <1>5 DEF Descend, loop
    <2>2. Len(stack') = Len(stack) + 1
      BY <2>1, PushRecord DEF Levels
    <2>3. QED
      BY <1>1, <1>3, <2>1, <2>2 DEF Depth
  <1>6. CASE Setup
    BY <1>1, <1>6 DEF Setup, Depth
  <1>7. CASE EndSweep
    <2>1. rounds' = rounds + 1 /\ UNCHANGED <<stack, left, phase>>
          /\ \/ detail' = detail
             \/ ~ Forced(rounds') /\ detail' = <<Len(stack), rounds'>>
      <3>1. rounds' = rounds + 1 /\ UNCHANGED <<stack, left, phase>>
        BY <1>7 DEF EndSweep, level
      <3>2. CASE Forced(rounds')
        <4>1. detail' = detail
          BY <1>7, <3>2 DEF EndSweep
        <4>2. QED
          BY <3>1, <4>1
      <3>3. CASE ~ Forced(rounds')
        <4>1. detail' = <<thisRound, rounds'>>
          BY <1>7, <3>3 DEF EndSweep
        <4>2. QED
          BY <3>1, <3>3, <4>1 DEF thisRound
      <3>4. QED
        BY <3>1, <3>2, <3>3
    <2>2. QED
      BY <1>1, <1>2, <1>3, <2>1 DEF Depth, Forced
  <1>8. CASE Return
    <2>1. CASE stack = << >>
      BY <1>1, <1>8, <2>1 DEF Return, Depth, loop
    <2>2. CASE stack # << >>
      <3> DEFINE f == stack[Len(stack)]
      <3>1. stack' = SubSeq(stack, 1, Len(stack) - 1) /\ left' = f.left /\ phase' = "setup"
            /\ UNCHANGED <<rounds, detail>>
        BY <1>8, <2>2 DEF Return, loop
      <3>2. Len(stack') = Len(stack) - 1 /\ Len(stack) \in Nat \ {0}
        BY <2>2, <3>1, PopRecord DEF Levels
      <3>3. f.left \in Int
        BY <3>2 DEF Levels, Joined
      <3>4. QED
        BY <1>1, <3>1, <3>2, <3>3 DEF Depth
    <2>3. QED
      BY <2>1, <2>2
  <1>9. QED
    BY <1>4, <1>5, <1>6, <1>7, <1>8
      DEF Next, vars, loop, DoLocalRefinement, Bottom, Test, EnterColor,
          RefinePair, NextColor

\* The halo of the coarse graph is the image of the fine one.
LEMMA StepHalo ==
  ASSUME HaloExact, Levels, Depth, [Next]_vars
  PROVE  HaloExact'
  <1>1. CASE phase' # "descend"
    BY <1>1 DEF HaloExact
  <1>2. CASE UNCHANGED <<phase, halo, graph, owner>>
    BY <1>2 DEF HaloExact
  <1>3. ASSUME NEW auto \in BOOLEAN, DoLocalRefinement(auto) PROVE HaloExact'
    BY <1>3 DEF DoLocalRefinement, HaloExact
  <1>4. CASE Descend
    <2>1. PICK map \in Local :
            /\ Contractible(graph, map)
            /\ graph' = ContractedOf(graph, map)
            /\ owner' = [c \in DOMAIN graph'.row |-> owner[c]]
            /\ \A n \in DOMAIN map : owner'[map[n]] = owner[n]
            /\ halo' = CoarsenHalo(map)
      BY <1>4, DescendLevels
    <2>2. halo = NeighborHalo(graph, owner) /\ phase' = "descend"
      BY <1>4 DEF Descend, HaloExact
    <2>3. \A g, own : NeighborHalo(g, own) =
            [p \in PE |-> [q \in PE \ {p} |-> [required |-> Boundary(g, own, p, q),
                                               provided |-> Boundary(g, own, q, p)]]]
      BY Zenon DEF NeighborHalo, Boundary
    <2>4. \A p, q : p # q => Boundary(graph', owner', p, q)
                               = Image(map, Boundary(graph, owner, p, q))
      BY <2>1, BoundaryContracts
    <2>5. ASSUME NEW p \in PE, NEW q \in PE \ {p}
          PROVE  /\ halo[p][q].required = Boundary(graph, owner, p, q)
                 /\ halo[p][q].provided = Boundary(graph, owner, q, p)
      BY <2>2, <2>3
    <2>6. halo' = NeighborHalo(graph', owner')
      <3> DEFINE Old(p, q) == [required |-> Image(map, halo[p][q].required),
                               provided |-> Image(map, halo[p][q].provided)]
                 New(p, q) == [required |-> Boundary(graph', owner', p, q),
                               provided |-> Boundary(graph', owner', q, p)]
      <3>1. \A p \in PE : \A q \in PE \ {p} : Old(p, q) = New(p, q)
        <4> SUFFICES ASSUME NEW p \in PE, NEW q \in PE \ {p} PROVE Old(p, q) = New(p, q)
          OBVIOUS
        <4>1. p # q /\ q # p
          OBVIOUS
        <4>2. Image(map, halo[p][q].required) = Boundary(graph', owner', p, q)
          BY <2>4, <2>5, <4>1
        <4>3. Image(map, halo[p][q].provided) = Boundary(graph', owner', q, p)
          BY <2>4, <2>5, <4>1
        <4>4. QED
          BY <4>2, <4>3
      <3>2. halo' = [p \in PE |-> [q \in PE \ {p} |-> Old(p, q)]]
        BY <2>1 DEF CoarsenHalo
      <3>3. NeighborHalo(graph', owner') = [p \in PE |-> [q \in PE \ {p} |-> New(p, q)]]
        BY <2>3
      <3> HIDE DEF Old, New
      <3>4. QED
        BY <3>1, <3>2, <3>3
    <2>7. QED
      BY <2>6 DEF HaloExact
  <1>5. QED
    BY <1>1, <1>2, <1>3, <1>4
      DEF Next, vars, level, Bottom, Setup, Test, EnterColor,
          RefinePair, NextColor, EndSweep, Return, Sweeping

\* ----- What a sweep has gained.

\* What a sweep has gained is a sum.
LEMMA GainedIsSum == ASSUME NEW gs PROVE Gained(gs) = Sum(gs, DOMAIN gs)
  <1>1. Gained(gs) = WeightOf(gs, DOMAIN gs)
    BY Zenon DEF Gained, WeightOf
  <1>2. QED
    BY <1>1, WeightIsSum

\* It is an integer.
LEMMA GainedType ==
  ASSUME NEW gs \in Seq(Int)
  PROVE  /\ Gained(gs) \in Int
         /\ DOMAIN gs = 1 .. Len(gs) /\ Len(gs) \in Nat /\ IsFiniteSet(DOMAIN gs)
         /\ \A c \in DOMAIN gs : gs[c] \in Int
  <1>1. DOMAIN gs = 1 .. Len(gs) /\ Len(gs) \in Nat /\ \A c \in DOMAIN gs : gs[c] \in Int
    OBVIOUS
  <1>2. IsFiniteSet(DOMAIN gs)
    BY <1>1, FS_Interval
  <1>3. Gained(gs) \in Int
    BY <1>1, <1>2, GainedIsSum, SumType
  <1>4. QED
    BY <1>1, <1>2, <1>3

\* A color that has just been entered has gained nothing yet.
LEMMA GainedAppend ==
  ASSUME NEW gs \in Seq(Int)
  PROVE  Gained(Append(gs, 0)) = Gained(gs)
  <1> DEFINE hs == Append(gs, 0)
             L == Len(gs)
  <1>1. hs \in Seq(Int) /\ L \in Nat /\ DOMAIN hs = 1 .. (L + 1) /\ DOMAIN gs = 1 .. L
        /\ hs[L + 1] = 0 /\ \A c \in 1 .. L : hs[c] = gs[c]
    OBVIOUS
  <1>2. IsFiniteSet(DOMAIN hs) /\ IsFiniteSet(DOMAIN gs)
        /\ (\A c \in DOMAIN hs : hs[c] \in Int)
    BY <1>1, GainedType
  <1> HIDE DEF hs, L
  <1>3. L + 1 \in DOMAIN hs /\ (DOMAIN hs) \ {L + 1} = DOMAIN gs
    BY <1>1
  <1>4. Sum(hs, DOMAIN hs) = hs[L + 1] + Sum(hs, (DOMAIN hs) \ {L + 1})
    BY <1>2, <1>3, SumRemove
  <1>5. Sum(hs, DOMAIN gs) = Sum(gs, DOMAIN gs)
    BY <1>1, <1>2, SumSame
  <1>6. Gained(gs) \in Int
    BY GainedType
  <1>7. Gained(hs) = Sum(hs, DOMAIN hs) /\ Gained(gs) = Sum(gs, DOMAIN gs)
    BY GainedIsSum
  <1>8. Gained(hs) = 0 + Gained(gs)
    BY <1>1, <1>3, <1>4, <1>5, <1>7
  <1>9. QED
    BY <1>6, <1>8 DEF hs

\* A pair has gained v.
LEMMA GainedAdd ==
  ASSUME NEW gs \in Seq(Int), NEW c \in DOMAIN gs, NEW v \in Int,
         NEW hs, hs = [gs EXCEPT ![c] = @ + v]
  PROVE  Gained(hs) = Gained(gs) + v
  <1> DEFINE R == (DOMAIN gs) \ {c}
  <1>1. /\ DOMAIN hs = DOMAIN gs /\ hs[c] = gs[c] + v /\ \A d \in R : hs[d] = gs[d]
        /\ gs[c] \in Int /\ IsFiniteSet(DOMAIN gs) /\ \A d \in DOMAIN gs : gs[d] \in Int
    BY GainedType
  <1>2. \A d \in DOMAIN gs : hs[d] \in Int
    BY <1>1
  <1>3. IsFiniteSet(R) /\ R \subseteq DOMAIN gs
    BY <1>1, FS_Subset
  <1>4. Sum(gs, DOMAIN gs) = gs[c] + Sum(gs, R)
    <2>1. IsFiniteSet(DOMAIN gs) /\ c \in DOMAIN gs /\ \A d \in DOMAIN gs : gs[d] \in Int
      BY <1>1
    <2>2. Sum(gs, DOMAIN gs) = gs[c] + Sum(gs, (DOMAIN gs) \ {c})
      BY <2>1, SumRemove
    <2>3. QED
      BY <2>2
  <1>5. Sum(hs, DOMAIN gs) = hs[c] + Sum(hs, R)
    BY <1>1, <1>2, SumRemove
  <1> HIDE DEF R
  <1>6. Sum(hs, R) = Sum(gs, R) /\ Sum(gs, R) \in Int
    BY <1>1, <1>3, SumSame, SumType
  <1>7. Gained(hs) = Sum(hs, DOMAIN gs) /\ Gained(gs) = Sum(gs, DOMAIN gs)
    BY <1>1, GainedIsSum
  <1>8. QED
    BY <1>1, <1>4, <1>5, <1>6, <1>7

\* ----- The cut.

\* There are finitely many processes, and at least one.
LEMMA FinitePE == IsFiniteSet(PE) /\ 0 \in PE
  <1>1. P \in Nat \ {0}
    BY MultiLevelAssumption
  <1>2. QED
    BY <1>1, FS_Interval DEF PE

\* The cut of a partition is an integer.
LEMMA CutInt ==
  ASSUME NEW g, GraphOK(g), NEW own, DOMAIN own = DOMAIN g.row
  PROVE  Cut(g, own) \in Int
  <1> DEFINE block == [p \in PE |-> {n \in DOMAIN own : own[n] = p}]
             w == g.row
             f == Leaving(w, block)
  <1>1. Cut(g, own) = CutSum(w, block) /\ PE = DOMAIN block
    BY DEF Cut
  <1>2. IsFiniteSet(PE)
    BY FinitePE
  <1>3. ASSUME NEW p \in PE PROVE f[p] \in Int
    <2> DEFINE A == block[p]
               B == (DOMAIN w) \ block[p]
    <2>1. f[p] = CutBetween(w, A, B)
      BY DEF Leaving
    <2>2. /\ A \subseteq DOMAIN w /\ B \subseteq DOMAIN w /\ IsFiniteSet(DOMAIN w)
          /\ \A n, m \in DOMAIN w : w[n][m] \in Int
      BY DEF GraphOK
    <2> HIDE DEF A, B, w
    <2>3. IsFiniteSet(A) /\ IsFiniteSet(B) /\ \A n \in A, m \in B : w[n][m] \in Int
      BY <2>2, FS_Subset
    <2> HIDE DEF f
    <2>4. QED
      BY <2>1, <2>3, CutType
  <1> HIDE DEF block, w
  <1>4. CutSum(w, block) = Sum(f, PE)
    BY <1>1, <1>2, CutSumIsSum
  <1> HIDE DEF f
  <1>5. Sum(f, PE) \in Int
    BY <1>2, <1>3, SumType
  <1>6. QED
    BY <1>1, <1>4, <1>5

\* The two processes of a pair share their nodes out anew.
LEMMA PairCuts ==
  ASSUME Levels, Position, NEW e \in todo, RefinePair(e)
  PROVE  Cut(graph', owner') = Cut(graph, owner) - 2 * (Gained(gains') - Gained(gains))
  <1> DEFINE p == Min(e)
             q == Max(e)
             F == Owned(p)
             S == Owned(q)
             w == graph.row
  <1>1. p \in PE /\ q \in PE /\ p # q /\ e = {p, q}
    BY PairEnds DEF Position
  <1>2. PICK out \in FMOutcomes(w, graph.weight, F, S, F \cup S,
                                WeightOf(graph.weight, F), WeightOf(graph.weight, S), Capacity) :
          /\ owner' = [n \in Node |-> IF owner[n] \notin e THEN owner[n]
                                      ELSE IF n \in out.toSecond THEN q ELSE p]
          /\ gains' = [gains EXCEPT ![color] = @ + out.gain]
    BY DEF RefinePair
  <1> DEFINE T == out.toSecond
             block == [r \in PE |-> {n \in DOMAIN owner : owner[n] = r}]
             other == [r \in PE |-> {n \in DOMAIN owner' : owner'[n] = r}]
  <1> HIDE DEF p, q
  <1>3. /\ IsFiniteSet(Node) /\ Node = DOMAIN w /\ DOMAIN owner = Node
        /\ \A n, m \in DOMAIN w : w[n][m] \in Nat /\ w[n][m] = w[m][n]
        /\ \A n \in Node : owner[n] \in PE
    BY DEF Levels, GraphOK, Node
  <1>4. /\ F = block[p] /\ S = block[q] /\ F \cap S = {} /\ F \subseteq Node /\ S \subseteq Node
    BY <1>1, <1>3 DEF Owned
  <1> HIDE DEF F, S, w
  <1>5. IsFiniteSet(F) /\ IsFiniteSet(S) /\ IsFiniteSet(F \cup S)
    BY <1>3, <1>4, FS_Subset, FS_Union
  <1>6. T \subseteq F \cup S /\ out.gain \in Int
    <2>1. \A n \in F \cup (F \cup S), m \in S \cup (F \cup S) : w[n][m] \in Int
      BY <1>3, <1>4
    <2>2. QED
      BY <1>2, <1>5, <2>1, OutcomeType
  <1>7. out.gain = CutBetween(w, F, S)
                     - CutBetween(w, (F \cup (F \cup S)) \ T, (S \ (F \cup S)) \cup T)
    <2>1. \A n \in F, m \in S : w[n][m] \in Int
      BY <1>3, <1>4
    <2> DEFINE cand == F \cup S
    <2>2. cand \subseteq F \cup S
      OBVIOUS
    <2>3. out \in FMOutcomes(w, graph.weight, F, S, cand,
                                WeightOf(graph.weight, F), WeightOf(graph.weight, S), Capacity)
      BY <1>2
    <2> HIDE DEF cand
    <2>4. out.gain = CutBetween(w, F, S)
           - CutBetween(w, (F \cup cand) \ out.toSecond, (S \ cand) \cup out.toSecond)
      <3>1. F \cap S = {} /\ IsFiniteSet(F) /\ IsFiniteSet(S)
        BY <1>4, <1>5
      <3> DEFINE nw == graph.weight
                 sizeF == WeightOf(graph.weight, F)
                 sizeS == WeightOf(graph.weight, S)
      <3> HIDE DEF nw, sizeF, sizeS
      <3>2. out \in FMOutcomes(w, nw, F, S, cand, sizeF, sizeS, Capacity)
        BY <2>3 DEF nw, sizeF, sizeS
      <3>3. QED
        BY <2>1, <2>2, <3>1, <3>2, OutcomeGain
    <2>5. QED
      BY <2>4 DEF cand
  <1>8. /\ (F \cup (F \cup S)) \ T = (F \cup S) \ T
        /\ (S \ (F \cup S)) \cup T = T
    OBVIOUS
  <1>9. /\ \A r \in PE : r # p /\ r # q => other[r] = block[r]
        /\ other[p] = (F \cup S) \ T /\ other[q] = T
    <2>1. \A n \in Node : owner[n] \in e <=> n \in F \cup S
      BY <1>1, <1>3, <1>4
    <2>2. DOMAIN owner' = Node
      BY <1>2
    <2>3. \A n \in Node : owner'[n] = IF n \notin F \cup S THEN owner[n]
                                      ELSE IF n \in T THEN q ELSE p
      BY <1>2, <2>1
    <2>4. \A n \in Node : n \notin F \cup S => owner[n] # p /\ owner[n] # q
      BY <1>1, <2>1
    <2>5. ASSUME NEW r \in PE, r # p, r # q PROVE other[r] = block[r]
      <3>1. \A n \in Node : owner'[n] = r <=> owner[n] = r
        BY <1>1, <2>1, <2>3, <2>5
      <3>2. QED
        BY <1>3, <2>2, <3>1
    <2>6. other[p] = (F \cup S) \ T
      <3>1. \A n \in Node : owner'[n] = p <=> n \in (F \cup S) \ T
        BY <1>1, <2>3, <2>4
      <3>2. QED
        BY <1>1, <1>4, <2>2, <3>1
    <2>7. other[q] = T
      <3>1. \A n \in Node : owner'[n] = q <=> n \in T
        BY <1>1, <1>6, <2>3, <2>4
      <3>2. QED
        BY <1>1, <1>4, <1>6, <2>2, <3>1
    <2>8. QED
      BY <2>5, <2>6, <2>7
  <1>10. /\ block \in [PE -> SUBSET DOMAIN w] /\ other \in [PE -> SUBSET DOMAIN w]
    <2>1. DOMAIN owner' = Node
      BY <1>2
    <2>2. QED
      BY <1>3, <2>1
  <1>11. Cut(graph, owner) = CutSum(w, block) /\ Cut(graph', owner') = CutSum(w, other)
    <2>1. graph' = graph
      BY DEF RefinePair
    <2>2. QED
      BY <2>1 DEF Cut, w
  <1> HIDE DEF block, other, T
  <1>12. IsFiniteSet(PE)
    BY FinitePE
  <1>13. /\ block[p] \cap block[q] = {} /\ other[p] \cap other[q] = {}
         /\ block[p] \cup block[q] = other[p] \cup other[q]
    BY <1>4, <1>6, <1>9
  <1>14. CutSum(w, other) = CutSum(w, block)
           - 2 * (CutBetween(w, block[p], block[q]) - CutBetween(w, other[p], other[q]))
    <2>1. IsFiniteSet(DOMAIN w)
      BY <1>3
    <2>2. \A n, m \in DOMAIN w : w[n][m] \in Nat /\ w[n][m] = w[m][n]
      BY <1>3
    <2>3. \A r \in PE : r # p /\ r # q => other[r] = block[r]
      BY <1>9
    <2>4. p \in PE /\ q \in PE /\ p # q
      BY <1>1
    <2>5. QED
      BY <1>10, <1>12, <1>13, <2>1, <2>2, <2>3, <2>4, CutSumShare
  <1>15. CutBetween(w, block[p], block[q]) - CutBetween(w, other[p], other[q]) = out.gain
    BY <1>4, <1>7, <1>8, <1>9
  <1>16. Gained(gains') = Gained(gains) + out.gain /\ Gained(gains) \in Int
    <2>1. color \in DOMAIN gains /\ gains \in Seq(Int)
      BY DEF Position
    <2>2. QED
      BY <1>2, <1>6, <2>1, GainedAdd, GainedType
  <1>17. Gained(gains') - Gained(gains) = out.gain
    BY <1>6, <1>16
  <1>18. QED
    BY <1>11, <1>14, <1>15, <1>17

\* Every step of the V-cycle changes the cut by the gains it adds up.
LEMMA StepCuts ==
  ASSUME Levels, Depth, Position, [Next]_vars
  PROVE  \/ Cut(graph', owner') = Cut(graph, owner) - 2 * (Gained(gains') - Gained(gains))
         \/ gains' = << >> /\ gain' = Gained(gains) /\ Cut(graph', owner') = Cut(graph, owner)
  <1>1. Cut(graph, owner) \in Int /\ Gained(gains) \in Int
    <2>1. GraphOK(graph) /\ DOMAIN owner = DOMAIN graph.row
      BY DEF Levels
    <2>2. QED
      BY <2>1, CutInt, GainedType DEF Position
  <1>2. CASE Cut(graph', owner') = Cut(graph, owner) /\ Gained(gains') = Gained(gains)
    BY <1>1, <1>2
  <1>3. CASE UNCHANGED <<graph, owner, gains>>
    <2>1. Cut(graph', owner') = Cut(graph, owner) /\ Gained(gains') = Gained(gains)
      BY <1>3
    <2>2. QED
      BY <1>2, <2>1
  <1>4. CASE Descend
    <2>1. PICK map \in Local :
            /\ Contractible(graph, map)
            /\ graph' = ContractedOf(graph, map)
            /\ owner' = [c \in DOMAIN graph'.row |-> owner[c]]
            /\ \A n \in DOMAIN map : owner'[map[n]] = owner[n]
      BY <1>4, DescendLevels
    <2>2. DOMAIN owner' = DOMAIN graph'.row /\ DOMAIN owner = DOMAIN graph.row
      BY <2>1 DEF Levels
    <2>3. P \in Nat
      BY MultiLevelAssumption
    <2>4. Cut(graph', owner') = Cut(graph, owner)
      BY <2>1, <2>2, <2>3, ContractionKeepsCut
    <2>5. gains' = gains
      BY <1>4 DEF Descend, loop
    <2>6. QED
      BY <1>2, <2>4, <2>5
  <1>5. CASE Return
    <2>1. gains' = gains
      BY <1>5 DEF Return, loop
    <2>2. CASE stack = << >>
      BY <1>3, <1>5, <2>1, <2>2 DEF Return, level
    <2>3. CASE stack # << >>
      <3>1. PICK f : /\ Contractible(f.graph, f.map)
                     /\ graph = ContractedOf(f.graph, f.map)
                     /\ graph' = f.graph
                     /\ DOMAIN owner' = DOMAIN graph'.row
                     /\ \A n \in DOMAIN f.map : owner'[n] = owner[f.map[n]]
        BY <1>5, <2>3, ReturnLevels
      <3>2. DOMAIN owner = DOMAIN graph.row /\ P \in Nat
        BY MultiLevelAssumption DEF Levels
      <3>3. Cut(graph, owner) = Cut(graph', owner')
        BY <3>1, <3>2, ContractionKeepsCut
      <3>4. QED
        BY <1>2, <2>1, <3>3
    <2>4. QED
      BY <2>2, <2>3
  <1>6. CASE Setup
    <2>1. gains = << >>
      BY <1>6 DEF Setup, Position
    <2>2. UNCHANGED <<graph, owner, gains>>
      BY <1>6, <2>1 DEF Setup, level
    <2>3. QED
      BY <1>3, <2>2
  <1>7. CASE EnterColor
    <2>1. gains' = Append(gains, 0) /\ UNCHANGED <<graph, owner>>
      BY <1>7 DEF EnterColor, level
    <2>2. Gained(gains') = Gained(gains)
      BY <2>1, GainedAppend DEF Position
    <2>3. QED
      BY <1>2, <2>1, <2>2
  <1>8. ASSUME NEW e \in todo, RefinePair(e)
        PROVE  Cut(graph', owner') = Cut(graph, owner) - 2 * (Gained(gains') - Gained(gains))
    BY <1>8, PairCuts
  <1>9. CASE EndSweep
    <2>1. gains' = << >> /\ UNCHANGED <<graph, owner>>
      BY <1>9 DEF EndSweep, level
    <2>2. gain' = Gained(gains)
      BY <1>9, Zenon DEF EndSweep, Gained
    <2>3. QED
      BY <2>1, <2>2
  <1>10. QED
    BY <1>3, <1>4, <1>5, <1>6, <1>7, <1>8, <1>9
      DEF Next, vars, level, loop, DoLocalRefinement, Bottom, Test, NextColor

\* ----- The results.

\* The levels fit together in every state of the V-cycle.
THEOREM SpecLevelInv == Spec => []LevelInv
<1>1. Init => LevelInv
  <2>1. Init => HaloExact
    BY DEF Init, HaloExact
  <2>2. QED
    BY <2>1, InitLevels, InitPosition, InitDepth DEF LevelInv
<1>2. LevelInv /\ [Next]_vars => LevelInv'
  BY StepLevels, StepPosition, StepDepth, StepHalo DEF LevelInv
<1>3. QED
  BY <1>1, <1>2, PTL DEF Spec

\* localRefDetails is never written outside (MultiLevel.cpp:203-211).
THEOREM DetailsStayInside == Spec => []DetailsFit
<1>1. LevelInv => DetailsFit
  BY DEF LevelInv, Depth, DetailsFit
<1>2. QED
  BY <1>1, SpecLevelInv, PTL

\* However many levels there are and wherever the coarse nodes have gone, their origins
\* lead every process back to its fine nodes (MultiLevel.cpp:229-262).
THEOREM OriginsAlwaysLeadHome == Spec => []OriginsLeadHome
<1>1. LevelInv => OriginsLeadHome
  <2> SUFFICES ASSUME LevelInv, stack # << >>
               PROVE  \A n \in DOMAIN stack[Len(stack)].map :
                        origin[stack[Len(stack)].map[n]] = stack[Len(stack)].owner[n]
    BY DEF OriginsLeadHome
  <2>1. Len(stack) \in Nat \ {0}
    BY PopRecord DEF LevelInv, Levels
  <2>2. Joined(stack[Len(stack)], graph, origin)
    BY <2>1 DEF LevelInv, Levels
  <2>3. QED
    BY <2>2 DEF Joined
<1>2. QED
  BY <1>1, SpecLevelInv, PTL

\* The halo that coarsenHalo makes from the halo of the finest level is that of the coarse
\* graph, on every level, and its two sides agree (HaloPlanFns.cpp:14-115).
THEOREM HaloAlwaysFits == Spec => []HaloFits
<1>1. LevelInv => HaloFits
  <2> SUFFICES ASSUME LevelInv, phase = "descend"
               PROVE  /\ halo = NeighborHalo(graph, owner)
                      /\ \A p, q \in PE : p # q => halo[p][q].required = halo[q][p].provided
    BY DEF HaloFits
  <2>1. halo = NeighborHalo(graph, owner)
    BY DEF LevelInv, HaloExact
  <2>2. \A p, q \in PE : p # q => halo[p][q].required = halo[q][p].provided
    BY <2>1 DEF NeighborHalo
  <2>3. QED
    BY <2>1, <2>2
<1>2. QED
  BY <1>1, SpecLevelInv, PTL

\* Neither coarsening nor the way back changes the cut; a sweep lowers it by what its
\* pairs report, for any graph, matching, scheme and number of levels
\* (MultiLevel.cpp:98-125, 171).
THEOREM OnlySweepsEverCut == Spec => OnlySweepsCut
<1> DEFINE A == \/ Cut(graph', owner') = Cut(graph, owner) - 2 * (Gained(gains') - Gained(gains))
                \/ /\ gains' = << >> /\ gain' = Gained(gains)
                   /\ Cut(graph', owner') = Cut(graph, owner)
<1>1. LevelInv /\ [Next]_vars => [A]_vars
  BY StepCuts DEF LevelInv
<1>2. QED
  BY <1>1, SpecLevelInv, PTL DEF Spec, OnlySweepsCut
=============================================================================
