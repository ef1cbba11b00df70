------------------------ MODULE BlockMappingProofs --------------------------
(***************************************************************************)
(* Proofs about BlockMapping, and with it about ShortestPaths and          *)
(* GraphMeasures, for every partitioned graph, every connected network and *)
(* any number of processes and blocks.                                     *)
(*                                                                         *)
(* localBFS counts the edges of the shortest way (Hops), which is all the  *)
(* descent for the diameter needs.  localDijkstra visits nodes before      *)
(* their distance is final; what it keeps is that predecessors are visited *)
(* and their distances stay (Tree), that every visited node adds at most   *)
(* one edge (Short), and with equal weights that a round has one distance  *)
(* (Layered).                                                              *)
(*                                                                         *)
(* The counters of all processes together are the weights between the      *)
(* blocks, and the CSR form returns them (BlockGraphRight).  The lists the *)
(* processes send to the root give the same graph: a block has exactly     *)
(* one place in them, also if weights are added there (BlockGraphsDo).     *)
(* Sums over processes become sums over nodes, since every node and every  *)
(* edge has one owner (VolumesDo, ProcessesDo); a row of the Laplacian is  *)
(* sorted and sums to zero (LaplacianDoes).  The greedy mapping gives away *)
(* a block and a process at a time (MapInv).  A way back from a process    *)
(* uses no edge twice and its edges add up to the distance (WalkIsWay), so *)
(* congestion and dilation are one sum, by edge or by way (LoadsAddUp).    *)
(***************************************************************************)
EXTENDS BlockMapping, PartGraphProofs, SequenceTheorems

-----------------------------------------------------------------------------
(***************************************************************************)
(* localBFS: the number of edges on the shortest way.                      *)
(***************************************************************************)

\* h[r] are the nodes that the rounds up to r of a search from u have seen.
Sees(h, w, u) ==
  h = [r \in Nat |-> IF r = 0 THEN {u}
                     ELSE LET s == h[r - 1] IN s \cup NeighborsOf(w, s)]

Seen(w, u) == CHOOSE h : Sees(h, w, u)

Rounds(w, u, v) == {r \in 0 .. Cardinality(DOMAIN w) : v \in Seen(w, u)[r]}

\* Round by round the neighbours of the nodes seen so far are seen.
LEMMA SeenStep ==
  ASSUME NEW w, NEW u \in DOMAIN w
  PROVE  /\ Seen(w, u) \in [Nat -> SUBSET DOMAIN w]
         /\ Seen(w, u)[0] = {u}
         /\ \A r \in Nat : Seen(w, u)[r + 1] =
              Seen(w, u)[r] \cup NeighborsOf(w, Seen(w, u)[r])
  <1> DEFINE S == SUBSET DOMAIN w
             G == [s \in S |-> s \cup NeighborsOf(w, s)]
  <1>1. {u} \in S
    OBVIOUS
  <1>2. G \in [S -> S]
    BY DEF NeighborsOf, Neighbors
  <1>3. \A s \in S : G[s] = s \cup NeighborsOf(w, s)
    OBVIOUS
  <1> HIDE DEF S, G
  <1>4. PICK f \in [Nat -> S] : f[0] = {u} /\ \A k \in Nat : f[k + 1] = G[f[k]]
    <2>1. PICK a, T, F : a = {u} /\ T = S /\ F = G
      OBVIOUS
    <2>2. a \in T /\ F \in [T -> T]
      BY <1>1, <1>2, <2>1
    <2>3. PICK f : Repeats(f, T, a, F)
      BY ONLY <2>2, IterationExists
    <2>4. QED
      BY <2>1, <2>3 DEF Repeats
  <1>5. \A r \in Nat : f[r] = IF r = 0 THEN {u}
                              ELSE f[r - 1] \cup NeighborsOf(w, f[r - 1])
    <2> SUFFICES ASSUME NEW r \in Nat, r # 0
                 PROVE  f[r] = f[r - 1] \cup NeighborsOf(w, f[r - 1])
      BY <1>4
    <2>1. r - 1 \in Nat /\ (r - 1) + 1 = r
      OBVIOUS
    <2>2. f[r] = G[f[r - 1]] /\ f[r - 1] \in S
      BY <1>4, <2>1
    <2>3. QED
      BY <1>3, <2>2
  <1>6. Sees(f, w, u)
    BY <1>4, <1>5 DEF Sees
  <1>7. Sees(Seen(w, u), w, u)
    BY <1>6 DEF Seen
  <1>8. PICK h : h = Seen(w, u)
    OBVIOUS
  <1>9. /\ DOMAIN h = Nat /\ h[0] = {u} /\ h = [r \in Nat |-> h[r]]
        /\ \A r \in Nat : r # 0 => h[r] = h[r - 1] \cup NeighborsOf(w, h[r - 1])
    BY <1>7, <1>8 DEF Sees
  <1>10. \A r \in Nat : h[r + 1] = h[r] \cup NeighborsOf(w, h[r])
    <2> SUFFICES ASSUME NEW r \in Nat PROVE h[r + 1] = h[r] \cup NeighborsOf(w, h[r])
      OBVIOUS
    <2>1. r + 1 \in Nat /\ r + 1 # 0 /\ (r + 1) - 1 = r
      OBVIOUS
    <2>2. QED
      BY <1>9, <2>1
  <1>11. ASSUME NEW r \in Nat PROVE h[r] \in S
    <2> DEFINE T == {k \in Nat : h[k] \notin S}
    <2>1. SUFFICES ASSUME T # {} PROVE FALSE
      OBVIOUS
    <2>2. PICK k \in T : \A j \in T : k <= j
      <3>1. T \in SUBSET Nat
        OBVIOUS
      <3> HIDE DEF T
      <3>2. QED
        BY <2>1, <3>1, LeastNatural
    <2>3. k # 0 /\ k \in Nat
      BY <1>1, <1>9
    <2>4. k - 1 \in Nat /\ (k - 1) + 1 = k /\ ~ (k <= k - 1)
      BY <2>3
    <2>5. h[k - 1] \in S
      BY <2>2, <2>4
    <2>6. h[k] = G[h[k - 1]]
      BY <1>3, <1>9, <2>3, <2>5
    <2>7. QED
      BY <1>2, <2>2, <2>5, <2>6
  <1>12. QED
    BY <1>8, <1>9, <1>10, <1>11 DEF S

\* What localBFS returns, in these terms.
LEMMA HopsAreRounds ==
  ASSUME NEW w, NEW u
  PROVE  LocalBFS(w, u) =
           [v \in DOMAIN w |-> IF Rounds(w, u, v) = {} THEN Far ELSE Min(Rounds(w, u, v))]
  BY Zenon DEF LocalBFS, Rounds, Seen, Sees

\* f is the number of edges from u: no edge is shorter than f says, and f is the length
\* of some way.
IsHops(w, u, f) ==
  /\ f \in [DOMAIN w -> Nat]
  /\ f[u] = 0
  /\ \A n \in DOMAIN w : f[n] < Cardinality(DOMAIN w) \/ f[n] = Far
  /\ \A n \in DOMAIN w, m \in DOMAIN w :
       f[n] # Far /\ m \in Neighbors(w, n) => f[m] # Far /\ f[m] <= f[n] + 1
  /\ \A n \in DOMAIN w \ {u} : f[n] # Far =>
       \E p \in DOMAIN w : n \in Neighbors(w, p) /\ f[p] # Far /\ f[n] = f[p] + 1

\* The rounds of localBFS count the edges.
LEMMA Hops ==
  ASSUME NEW w, IsFiniteSet(DOMAIN w), NEW u \in DOMAIN w, Far \in Nat,
         Cardinality(DOMAIN w) < Far
  PROVE  IsHops(w, u, LocalBFS(w, u))
  <1> DEFINE N == DOMAIN w
             C == Cardinality(N)
             seen == Seen(w, u)
             f == LocalBFS(w, u)
             R(v) == Rounds(w, u, v)
  <1>1. C \in Nat
    BY FS_CardinalityType
  <1>2. /\ seen \in [Nat -> SUBSET N] /\ seen[0] = {u}
        /\ \A r \in Nat : seen[r + 1] = seen[r] \cup NeighborsOf(w, seen[r])
    BY SeenStep
  <1>3. \A v \in N : f[v] = IF R(v) = {} THEN Far ELSE Min(R(v))
    BY HopsAreRounds
  <1>4. \A v : R(v) = {r \in 0 .. C : v \in seen[r]}
    BY DEF Rounds
  <1>d. f = [v \in N |-> f[v]]
    BY HopsAreRounds, Zenon
  <1> HIDE DEF N, C, seen, f, R
  <1>5. ASSUME NEW v \in N, R(v) # {}
        PROVE  /\ f[v] \in 0 .. C /\ v \in seen[f[v]]
               /\ \A r \in 0 .. C : v \in seen[r] => f[v] <= r
    <2>1. IsFiniteSet(0 .. C)
      BY <1>1, FS_Interval
    <2>2. IsFiniteSet(R(v)) /\ R(v) \subseteq Int
      BY <1>1, <1>4, <2>1, FS_Subset
    <2>3. Min(R(v)) \in R(v) /\ \A r \in R(v) : Min(R(v)) <= r
      BY <1>5, <2>2, Extremes
    <2>4. QED
      BY <1>3, <1>4, <1>5, <2>3
  <1>6. \A v \in N : f[v] # Far <=> R(v) # {}
    BY <1>1, <1>3, <1>5 DEF C, N
  <1>7. f \in [N -> Nat]
    <2>1. \A v \in N : f[v] \in Nat
      BY <1>1, <1>3, <1>5
    <2>2. QED
      BY <1>d, <2>1
  <1>8. u \in N /\ f[u] = 0
    <2>1. u \in N /\ u \in seen[0] /\ 0 \in 0 .. C
      BY <1>1, <1>2 DEF N
    <2>2. R(u) # {}
      BY <1>4, <2>1
    <2>3. QED
      BY <1>5, <2>1, <2>2
  <1>9. ASSUME NEW n \in N, f[n] # Far, NEW m \in N, m \in Neighbors(w, n), NEW r \in Nat,
               n \in seen[r], r < C
        PROVE  f[m] # Far /\ f[m] <= r + 1
    <2>1. m \in seen[r + 1] /\ r + 1 \in 0 .. C
      BY <1>1, <1>2, <1>9 DEF NeighborsOf
    <2>2. R(m) # {}
      BY <1>4, <2>1
    <2>3. QED
      BY <1>5, <1>6, <2>1, <2>2
  <1>10. ASSUME NEW n \in N \ {u}, f[n] # Far
         PROVE  \E p \in N : n \in Neighbors(w, p) /\ f[p] # Far /\ f[n] = f[p] + 1
    <2>1. /\ f[n] \in 0 .. C /\ n \in seen[f[n]]
          /\ \A r \in 0 .. C : n \in seen[r] => f[n] <= r
      BY <1>5, <1>6, <1>10
    <2>2. f[n] # 0
      BY <1>2, <1>10, <2>1
    <2>3. PICK r \in Nat : r + 1 = f[n] /\ r < C
      <3>1. f[n] - 1 \in Nat /\ (f[n] - 1) + 1 = f[n] /\ f[n] - 1 < C
        BY <1>1, <2>1, <2>2
      <3>2. QED
        BY <3>1
    <2>4. n \notin seen[r]
      BY <1>1, <2>1, <2>3
    <2>5. PICK p \in seen[r] : n \in Neighbors(w, p)
      BY <1>2, <2>1, <2>3, <2>4 DEF NeighborsOf
    <2>6. p \in N /\ r \in 0 .. C
      BY <1>1, <1>2, <2>3, <2>5
    <2>7. R(p) # {}
      BY <1>4, <2>5, <2>6
    <2>8. f[p] # Far /\ f[p] \in Nat /\ f[p] <= r /\ p \in seen[f[p]]
      BY <1>1, <1>5, <1>6, <2>5, <2>6, <2>7
    <2>9. f[n] <= f[p] + 1
      BY <1>9, <1>1, <2>3, <2>5, <2>6, <2>8, <1>10
    <2>10. QED
      BY <2>3, <2>5, <2>6, <2>8, <2>9
  <1>11. ASSUME NEW n \in N, f[n] # Far PROVE f[n] < C
    <2> DEFINE In(k) == {m \in N : f[m] # Far /\ f[m] < k}
               T == {k \in Nat : \E v \in N : f[v] = k /\ f[v] # Far /\ ~ Cardinality(In(k)) >= k}
    <2>1. \A k \in Nat : IsFiniteSet(In(k)) /\ Cardinality(In(k)) \in Nat
      BY FS_Subset, FS_CardinalityType DEF N
    <2>2. T = {}
      <3>1. SUFFICES ASSUME T # {} PROVE FALSE
        OBVIOUS
      <3>2. PICK k \in T : \A j \in T : k <= j
        <4>1. T \in SUBSET Nat
          OBVIOUS
        <4> HIDE DEF T
        <4>2. QED
          BY <3>1, <4>1, LeastNatural
      <3>3. k \in Nat /\ ~ Cardinality(In(k)) >= k
        OBVIOUS
      <3>4. PICK v \in N : f[v] = k /\ f[v] # Far
        OBVIOUS
      <3> HIDE DEF In
      <3>5. k # 0
        BY <2>1, <3>3
      <3>6. v # u
        BY <1>8, <3>4, <3>5
      <3>7. PICK p \in N : n \in N /\ f[p] # Far /\ f[v] = f[p] + 1
        BY <1>10, <3>4, <3>6
      <3>8. f[p] \in Nat /\ f[p] = k - 1 /\ ~ (k <= f[p])
        BY <1>7, <3>3, <3>4, <3>7
      <3>9. f[p] \notin T
        BY <3>2, <3>8
      <3>10. Cardinality(In(f[p])) >= f[p]
        BY <3>7, <3>8, <3>9
      <3>11. p \notin In(f[p]) /\ In(f[p]) \cup {p} \in SUBSET In(k)
        BY <1>7, <3>3, <3>7, <3>8 DEF In
      <3>12. /\ Cardinality(In(f[p]) \cup {p}) = Cardinality(In(f[p])) + 1
             /\ Cardinality(In(f[p]) \cup {p}) <= Cardinality(In(k))
        BY <2>1, <3>3, <3>8, <3>11, FS_AddElement, FS_Subset
      <3>13. QED
        BY <2>1, <3>3, <3>8, <3>10, <3>12
    <2>3. f[n] \in Nat
      BY <1>7
    <2>4. Cardinality(In(f[n])) >= f[n]
      BY <1>11, <2>2, <2>3
    <2>5. In(f[n]) \in SUBSET (N \ {n})
      BY <2>3
    <2> HIDE DEF In
    <2>6. IsFiniteSet(N \ {n}) /\ Cardinality(N \ {n}) = C - 1
      BY FS_RemoveElement DEF C, N
    <2>7. Cardinality(In(f[n])) <= C - 1
      BY <2>5, <2>6, FS_Subset
    <2>8. QED
      BY <1>1, <2>1, <2>3, <2>4, <2>7
  <1>12. \A n \in N : f[n] < C \/ f[n] = Far
    BY <1>11
  <1>13. \A n \in N, m \in N :
           f[n] # Far /\ m \in Neighbors(w, n) => f[m] # Far /\ f[m] <= f[n] + 1
    <2> SUFFICES ASSUME NEW n \in N, NEW m \in N, f[n] # Far, m \in Neighbors(w, n)
                 PROVE  f[m] # Far /\ f[m] <= f[n] + 1
      OBVIOUS
    <2>1. f[n] \in Nat /\ n \in seen[f[n]]
      BY <1>1, <1>5, <1>6
    <2>2. QED
      BY <1>9, <1>11, <2>1
  <1>14. QED
    BY <1>7, <1>8, <1>10, <1>12, <1>13 DEF IsHops, N, C, f

\* d[u] counts the edges from u, for every node u.
AllHops(w, d) == \A u \in DOMAIN w : IsHops(w, u, d[u])

\* Edges have no direction.
Undirected(w) == \A n, m \in DOMAIN w : m \in Neighbors(w, n) => n \in Neighbors(w, m)

\* A detour is not shorter.
LEMMA HopsTriangle ==
  ASSUME NEW w, NEW d, AllHops(w, d), Far \in Nat,
         NEW u \in DOMAIN w, NEW x \in DOMAIN w, NEW y \in DOMAIN w,
         d[u][x] # Far, d[x][y] # Far
  PROVE  d[u][y] # Far /\ d[u][y] <= d[u][x] + d[x][y]
  <1> DEFINE Bad(v) == ~ (d[u][v] # Far /\ d[u][v] <= d[u][x] + d[x][v])
             T == {k \in Nat : \E v \in DOMAIN w : d[x][v] = k /\ k # Far /\ Bad(v)}
  <1>1. IsHops(w, u, d[u]) /\ IsHops(w, x, d[x])
    BY DEF AllHops
  <1>2. T = {}
    <2>1. SUFFICES ASSUME T # {} PROVE FALSE
      OBVIOUS
    <2>2. PICK k \in T : \A j \in T : k <= j
      <3>1. T \in SUBSET Nat
        OBVIOUS
      <3> HIDE DEF T
      <3>2. QED
        BY <2>1, <3>1, LeastNatural
    <2>3. PICK v \in DOMAIN w : d[x][v] = k /\ k # Far /\ Bad(v)
      OBVIOUS
    <2>4. k \in Nat /\ d[u][x] \in Nat /\ d[u][v] \in Nat /\ d[x][x] = 0
      BY <1>1 DEF IsHops
    <2>5. v # x
      BY <2>3, <2>4
    <2>6. PICK p \in DOMAIN w : v \in Neighbors(w, p) /\ d[x][p] # Far /\ d[x][v] = d[x][p] + 1
      BY <1>1, <2>3, <2>5 DEF IsHops
    <2>7. d[x][p] \in Nat /\ d[u][p] \in Nat
      BY <1>1 DEF IsHops
    <2>8. ~ (k <= d[x][p])
      BY <2>3, <2>4, <2>6, <2>7
    <2>9. ~ Bad(p)
      BY <2>2, <2>6, <2>7, <2>8
    <2>10. d[u][v] # Far /\ d[u][v] <= d[u][p] + 1
      BY <1>1, <2>6, <2>9 DEF IsHops
    <2>11. QED
      BY <2>3, <2>4, <2>6, <2>7, <2>9, <2>10
  <1>3. d[x][y] \in Nat
    BY <1>1 DEF IsHops
  <1>4. QED
    BY <1>2, <1>3

\* The way back is as long as the way there.
LEMMA HopsSymmetric ==
  ASSUME NEW w, Undirected(w), NEW d, AllHops(w, d), Far \in Nat, 1 < Far
  PROVE  \A u, v \in DOMAIN w : d[u][v] = d[v][u]
  <1>1. ASSUME NEW v \in DOMAIN w, NEW y \in DOMAIN w, d[v][y] # Far
        PROVE  d[y][v] # Far /\ d[y][v] <= d[v][y]
    <2> DEFINE Bad(z) == ~ (d[z][v] # Far /\ d[z][v] <= d[v][z])
               T == {k \in Nat : \E z \in DOMAIN w : d[v][z] = k /\ k # Far /\ Bad(z)}
    <2>1. \A z \in DOMAIN w : IsHops(w, z, d[z])
      BY DEF AllHops
    <2>2. T = {}
      <3>1. SUFFICES ASSUME T # {} PROVE FALSE
        OBVIOUS
      <3>2. PICK k \in T : \A j \in T : k <= j
        <4>1. T \in SUBSET Nat
          OBVIOUS
        <4> HIDE DEF T
        <4>2. QED
          BY <3>1, <4>1, LeastNatural
      <3>3. PICK z \in DOMAIN w : d[v][z] = k /\ k # Far /\ Bad(z)
        OBVIOUS
      <3>4. d[v][v] = 0 /\ d[z][z] = 0 /\ k \in Nat /\ d[z][v] \in Nat
        BY <2>1 DEF IsHops
      <3>5. z # v
        BY <3>3, <3>4
      <3>6. PICK p \in DOMAIN w : z \in Neighbors(w, p) /\ d[v][p] # Far /\ d[v][z] = d[v][p] + 1
        BY <2>1, <3>3, <3>5 DEF IsHops
      <3>7. d[v][p] \in Nat /\ d[p][v] \in Nat /\ d[z][p] \in Nat
        BY <2>1 DEF IsHops
      <3>8. ~ (k <= d[v][p])
        BY <3>3, <3>4, <3>6, <3>7
      <3>9. ~ Bad(p)
        BY <3>2, <3>6, <3>7, <3>8
      <3>10. p \in Neighbors(w, z)
        BY <3>6 DEF Undirected
      <3>11. d[z][p] # Far /\ d[z][p] <= 1
        BY <2>1, <3>4, <3>10 DEF IsHops
      <3>12. d[z][v] # Far /\ d[z][v] <= d[z][p] + d[p][v]
        BY <3>9, <3>11, HopsTriangle
      <3>13. QED
        BY <3>3, <3>4, <3>6, <3>7, <3>9, <3>11, <3>12
    <2>3. d[v][y] \in Nat
      BY <2>1 DEF IsHops
    <2>4. QED
      BY <1>1, <2>2, <2>3
  <1>2. ASSUME NEW u \in DOMAIN w, NEW v \in DOMAIN w PROVE d[u][v] = d[v][u]
    <2>1. d[u][v] \in Nat /\ d[v][u] \in Nat
      BY DEF AllHops, IsHops
    <2>2. CASE d[u][v] = Far
      BY <1>1, <2>2
    <2>3. CASE d[u][v] # Far
      BY <1>1, <2>1, <2>3
    <2>4. QED
      BY <2>2, <2>3
  <1>3. QED
    BY <1>2

-----------------------------------------------------------------------------
(***************************************************************************)
(* getLocalBlockDiameter: its loop in terms of named parts.                *)
(***************************************************************************)
Found(w, u, i, low) ==
  Max({low} \cup {Eccentricity(w, v) : v \in {v \in DOMAIN w : LocalBFS(w, u)[v] = i}})

Down(w, u, m, i, low, next) ==
  IF 2 * i <= low \/ Eccentricity(w, u) - i >= m THEN low
  ELSE IF Found(w, u, i, low) > 2 * (i - 1) THEN Found(w, u, i, low)
       ELSE next[Found(w, u, i, low)]

Descends(h, w, u, m) ==
  h = [i \in 0 .. Eccentricity(w, u) |->
         [low \in 0 .. Cardinality(DOMAIN w) |-> Down(w, u, m, i, low, h[i - 1])]]

\* What it returns, in these terms.
LEMMA DiameterIsDescent ==
  ASSUME NEW w, NEW u, NEW m
  PROVE  LocalBlockDiameter(w, u, m) =
           IF Eccentricity(w, u) = Far THEN Far
           ELSE (CHOOSE h : Descends(h, w, u, m))[Eccentricity(w, u)][Eccentricity(w, u)]
  BY Zenon DEF LocalBlockDiameter, Descends, Down, Found

\* The eccentricities of the nodes of a connected graph are eccentricities.
LEMMA EccentricityIs ==
  ASSUME NEW w, IsFiniteSet(DOMAIN w), NEW d, AllHops(w, d),
         \A u \in DOMAIN w : d[u] = LocalBFS(w, u), NEW u \in DOMAIN w
  PROVE  /\ Eccentricity(w, u) \in Nat
         /\ \A v \in DOMAIN w : d[u][v] <= Eccentricity(w, u)
         /\ \E v \in DOMAIN w : Eccentricity(w, u) = d[u][v]
  <1>1. Eccentricity(w, u) = Max({d[u][v] : v \in DOMAIN w})
    BY DEF Eccentricity
  <1>2. \A v \in DOMAIN w : d[u][v] \in Nat
    BY DEF AllHops, IsHops
  <1>3. PICK f, D : f = d[u] /\ D = DOMAIN w
    OBVIOUS
  <1>4. IsFiniteSet(D) /\ D # {} /\ \A v \in D : f[v] \in Int
    BY <1>2, <1>3
  <1>5. /\ \E x \in D : Max({f[y] : y \in D}) = f[x]
        /\ \A x \in D : f[x] <= Max({f[y] : y \in D})
    BY ONLY <1>4, ExtremeValues
  <1>6. QED
    BY <1>1, <1>2, <1>3, <1>5

\* What the fringe adds is the largest eccentricity in it, or nothing.
FoundFits(w, u, i, low, found, C) ==
  /\ found \in 0 .. C /\ found >= low
  /\ \A v \in DOMAIN w : LocalBFS(w, u)[v] = i => Eccentricity(w, v) <= found
  /\ found = low \/ \E v \in DOMAIN w : found = Eccentricity(w, v)

\* The result of one fringe.
LEMMA FoundIs ==
  ASSUME NEW w, IsFiniteSet(DOMAIN w), NEW u, NEW i, NEW C \in Nat,
         \A v \in DOMAIN w : Eccentricity(w, v) \in 0 .. C, NEW low \in 0 .. C
  PROVE  FoundFits(w, u, i, low, Found(w, u, i, low), C)
  <1> DEFINE F == {v \in DOMAIN w : LocalBFS(w, u)[v] = i}
             e == [v \in DOMAIN w |-> Eccentricity(w, v)]
             X == {low} \cup {e[v] : v \in F}
  <1>1. Found(w, u, i, low) = Max(X)
    BY DEF Found
  <1>2. IsFiniteSet(F) /\ F \subseteq DOMAIN w
    BY FS_Subset
  <1>3. \A v \in DOMAIN w : e[v] \in 0 .. C /\ e[v] = Eccentricity(w, v)
    OBVIOUS
  <1>4. IsFiniteSet({e[v] : v \in F})
    <2> HIDE DEF F, e
    <2>1. QED
      BY <1>2, FiniteImage
  <1>5. IsFiniteSet(X)
    <2> HIDE DEF F, e
    <2>1. QED
      BY <1>4, FS_Singleton, FS_Union
  <1>6. X # {} /\ X \subseteq 0 .. C /\ X \subseteq Int
    BY <1>2, <1>3
  <1>7. \A x : x \in X <=> x = low \/ \E v \in F : x = e[v]
    OBVIOUS
  <1> HIDE DEF X, e
  <1>8. Max(X) \in X /\ \A x \in X : x <= Max(X)
    BY <1>5, <1>6, Extremes
  <1>9. QED
    BY <1>1, <1>3, <1>6, <1>7, <1>8 DEF FoundFits

\* The loop can be run: its recursion is well founded.
LEMMA DescentExists ==
  ASSUME NEW w, IsFiniteSet(DOMAIN w), NEW u \in DOMAIN w, NEW m,
         \A v \in DOMAIN w : Eccentricity(w, v) \in 0 .. Cardinality(DOMAIN w)
  PROVE  Descends(CHOOSE h : Descends(h, w, u, m), w, u, m)
  <1> DEFINE C == Cardinality(DOMAIN w)
             R == [0 .. C -> Nat]
             S == Nat \X R
             One(i, f) == [low \in 0 .. C |-> Down(w, u, m, i, low, f)]
             G == [s \in S |-> <<s[1] + 1, One(s[1] + 1, s[2])>>]
             a == <<0, [low \in 0 .. C |-> low]>>
  <1>1. C \in Nat
    BY FS_CardinalityType
  <1>2. ASSUME NEW i \in Nat, NEW f \in R PROVE One(i, f) \in R
    <2>1. ASSUME NEW low \in 0 .. C PROVE Down(w, u, m, i, low, f) \in Nat
      <3>1. Found(w, u, i, low) \in 0 .. C
        BY <1>1, FoundIs DEF FoundFits
      <3>2. QED
        BY <1>1, <3>1 DEF Down
    <2>2. QED
      BY <2>1
  <1>3. a \in S
    BY <1>1
  <1>4. G \in [S -> S]
    <2>1. ASSUME NEW s \in S PROVE <<s[1] + 1, One(s[1] + 1, s[2])>> \in S
      <3>1. s[1] + 1 \in Nat /\ s[2] \in R
        OBVIOUS
      <3>2. One(s[1] + 1, s[2]) \in R
        BY <1>2, <3>1
      <3> HIDE DEF One, R
      <3>3. QED
        BY <3>1, <3>2
    <2> HIDE DEF S, One
    <2>2. QED
      BY <2>1
  <1>5. \A s \in S : G[s][1] = s[1] + 1 /\ G[s][2] = One(s[1] + 1, s[2])
    <2> HIDE DEF S, One
    <2>1. QED
      OBVIOUS
  <1>6. \A s \in S : s[1] \in Nat /\ s[2] \in R
    OBVIOUS
  <1>7. a[1] = 0 /\ a[2] = [low \in 0 .. C |-> low]
    OBVIOUS
  <1> HIDE DEF S, G, a
  <1>8. PICK f : f \in [Nat -> S] /\ f[0] = a /\ \A k \in Nat : f[k + 1] = G[f[k]]
    <2>1. PICK b, T, F : b = a /\ T = S /\ F = G
      OBVIOUS
    <2>2. b \in T /\ F \in [T -> T]
      BY <1>3, <1>4, <2>1
    <2>3. PICK f : Repeats(f, T, b, F)
      BY ONLY <2>2, IterationExists
    <2>4. QED
      BY <2>1, <2>3 DEF Repeats
  <1>9. \A k \in Nat : f[k][1] = k
    <2> DEFINE T == {k \in Nat : f[k][1] # k}
    <2>1. SUFFICES ASSUME T # {} PROVE FALSE
      OBVIOUS
    <2>2. PICK k \in T : \A j \in T : k <= j
      <3>1. T \in SUBSET Nat
        OBVIOUS
      <3> HIDE DEF T
      <3>2. QED
        BY <2>1, <3>1, LeastNatural
    <2>3. k \in Nat /\ k # 0
      BY <1>7, <1>8
    <2>4. k - 1 \in Nat /\ (k - 1) + 1 = k /\ ~ (k <= k - 1)
      BY <2>3
    <2>5. f[k - 1][1] = k - 1
      BY <2>2, <2>4
    <2>6. f[k] = G[f[k - 1]] /\ f[k - 1] \in S
      BY <1>8, <2>4
    <2>7. QED
      BY <1>5, <2>4, <2>5, <2>6
  <1> DEFINE E == Eccentricity(w, u)
             h == [i \in 0 .. E |-> f[i][2]]
  <1>10. E \in Nat
    BY <1>1
  <1>11. ASSUME NEW i \in 0 .. E PROVE h[i] = One(i, h[i - 1])
    <2>1. i \in Nat /\ h[i] = f[i][2]
      BY <1>10
    <2>2. CASE i = 0
      <3>1. h[i] = [low \in 0 .. C |-> low]
        BY <1>7, <1>8, <2>1, <2>2
      <3>2. \A low \in 0 .. C : 2 * i <= low
        BY <2>2
      <3>3. \A low \in 0 .. C : Down(w, u, m, i, low, h[i - 1]) = low
        BY <3>2 DEF Down
      <3> HIDE DEF h
      <3>4. QED
        BY <3>1, <3>3
    <2>3. CASE i # 0
      <3>1. i - 1 \in Nat /\ (i - 1) + 1 = i /\ i - 1 \in 0 .. E
        BY <1>10, <2>1, <2>3
      <3>2. f[i] = G[f[i - 1]] /\ f[i - 1] \in S /\ f[i - 1][1] = i - 1
        BY <1>8, <1>9, <3>1
      <3>3. h[i - 1] = f[i - 1][2]
        BY <3>1
      <3> HIDE DEF h, One
      <3>4. QED
        BY <1>5, <2>1, <3>1, <3>2, <3>3
    <2>4. QED
      BY <2>2, <2>3
  <1>12. Descends(h, w, u, m)
    <2>1. h = [i \in 0 .. E |-> h[i]]
      OBVIOUS
    <2> HIDE DEF h
    <2>2. h = [i \in 0 .. E |-> One(i, h[i - 1])]
      BY <1>11, <2>1
    <2>3. QED
      BY <2>2 DEF Descends
  <1>13. QED
    BY <1>12

\* getLocalBlockDiameter returns the diameter, from whichever node it starts: two nodes
\* inside fringe i are at most 2 i apart, those outside it have been searched from.
LEMMA DiameterRight ==
  ASSUME NEW w, IsFiniteSet(DOMAIN w), Undirected(w), NEW u \in DOMAIN w, Far \in Nat,
         Cardinality(DOMAIN w) < Far
  PROVE  LocalBlockDiameter(w, u, Cardinality(DOMAIN w))
           = Max({Eccentricity(w, v) : v \in DOMAIN w})
  <1> DEFINE N == DOMAIN w
             C == Cardinality(N)
             d == [v \in N |-> LocalBFS(w, v)]
             e == [v \in N |-> Eccentricity(w, v)]
             D == Max({e[v] : v \in N})
  <1>1. C \in Nat /\ C # 0
    BY FS_CardinalityType, FS_EmptySet
  <1>2. AllHops(w, d)
    BY Hops DEF AllHops
  <1>3. \A v \in N : d[v] = LocalBFS(w, v) /\ e[v] = Eccentricity(w, v)
    OBVIOUS
  <1>4. Max({Eccentricity(w, v) : v \in N}) = D
    OBVIOUS
  <1>c. N = DOMAIN w /\ C = Cardinality(DOMAIN w) /\ u \in N /\ IsFiniteSet(N)
    OBVIOUS
  <1> HIDE DEF d, e, C
  <1>5. \A v, x \in N : d[v][x] = d[x][v]
    BY <1>1, <1>2, <1>c, HopsSymmetric
  <1>6. \A v, x \in N : d[v][x] \in Nat /\ (d[v][x] < C \/ d[v][x] = Far)
    BY <1>2, <1>c DEF AllHops, IsHops
  <1>7. ASSUME NEW v \in N
        PROVE  /\ e[v] \in Nat /\ \A x \in N : d[v][x] <= e[v]
               /\ \E x \in N : e[v] = d[v][x]
    BY <1>2, <1>3, EccentricityIs
  <1>8. (\E v \in N : D = e[v]) /\ \A v \in N : e[v] <= D
    <2>1. PICK f, M : f = e /\ M = N
      OBVIOUS
    <2>2. IsFiniteSet(M) /\ M # {} /\ \A v \in M : f[v] \in Int
      BY <1>7, <1>c, <2>1
    <2>3. /\ \E x \in M : Max({f[y] : y \in M}) = f[x]
          /\ \A x \in M : f[x] <= Max({f[y] : y \in M})
      BY ONLY <2>2, ExtremeValues
    <2>4. QED
      BY <2>1, <2>3
  <1> HIDE DEF D, N
  <1>9. CASE e[u] = Far
    <2>1. \A v \in N : e[v] <= Far
      BY <1>1, <1>6, <1>7, <1>c
    <2>2. D = Far
      BY <1>7, <1>8, <1>9, <1>c, <2>1
    <2>3. QED
      BY <1>3, <1>4, <1>9, <1>c, <2>2, DiameterIsDescent DEF N
  <1>10. CASE e[u] # Far
    <2>1. \A v \in N : d[u][v] # Far
      BY <1>1, <1>6, <1>7, <1>10, <1>c
    <2>2. ASSUME NEW v \in N, NEW x \in N
          PROVE  d[v][x] # Far /\ d[v][x] <= d[u][v] + d[u][x]
      <3>1. d[v][u] # Far /\ d[u][x] # Far
        BY <1>5, <1>c, <2>1
      <3>2. d[v][x] # Far /\ d[v][x] <= d[v][u] + d[u][x]
        BY <1>2, <1>c, <3>1, HopsTriangle
      <3>3. QED
        BY <1>5, <1>c, <3>2
    <2>3. \A v \in N : e[v] \in 0 .. C /\ e[v] < C
      BY <1>1, <1>6, <1>7, <2>2
    <2>4. D \in 0 .. C
      BY <1>8, <2>3
    <2>5. \A v \in DOMAIN w : Eccentricity(w, v) \in 0 .. Cardinality(DOMAIN w)
      BY <1>3, <1>c, <2>3
    <2>6. PICK h : h = CHOOSE x : Descends(x, w, u, C)
      OBVIOUS
    <2>7. Descends(h, w, u, C)
      BY <1>c, <2>5, <2>6, DescentExists
    <2>8. LocalBlockDiameter(w, u, C) = h[e[u]][e[u]]
      BY <1>3, <1>10, <1>c, <2>6, DiameterIsDescent
    <2>9. \A i \in 0 .. e[u], low \in 0 .. C : h[i][low] = Down(w, u, C, i, low, h[i - 1])
      <3>1. \A i \in 0 .. Eccentricity(w, u), low \in 0 .. Cardinality(DOMAIN w) :
              h[i][low] = Down(w, u, C, i, low, h[i - 1])
        <4>1. SUFFICES ASSUME NEW i \in 0 .. Eccentricity(w, u),
                              NEW low \in 0 .. Cardinality(DOMAIN w)
                       PROVE  h[i][low] = Down(w, u, C, i, low, h[i - 1])
          OBVIOUS
        <4>2. PICK f : f = [k \in 0 .. Eccentricity(w, u) |->
                             [l \in 0 .. Cardinality(DOMAIN w) |->
                                Down(w, u, C, k, l, h[k - 1])]]
          OBVIOUS
        <4>3. f[i][low] = Down(w, u, C, i, low, h[i - 1])
          BY <4>1, <4>2
        <4>4. h = f
          BY <2>7, <4>2, Zenon DEF Descends
        <4>5. QED
          BY <4>3, <4>4
      <3>2. QED
        BY <1>3, <1>c, <3>1
    \* Once low covers the nodes outside fringe i, the loop ends with the diameter.
    <2> DEFINE Covers(i, low) == low <= D /\ \A v \in N : d[u][v] > i => e[v] <= low
               T == {i \in Nat : i <= e[u] /\ \E low \in 0 .. C : Covers(i, low) /\ h[i][low] # D}
    <2>10. ASSUME NEW i \in Nat, NEW low \in 0 .. C, Covers(i, low), 2 * i <= low
           PROVE  low = D
      <3>1. PICK v \in N : D = e[v]
        BY <1>8
      <3>2. PICK x \in N : e[v] = d[v][x]
        BY <1>7
      <3>3. d[v][x] <= d[u][v] + d[u][x] /\ d[x][v] = d[v][x] /\ d[x][v] <= e[x]
            /\ d[u][v] \in Nat /\ d[u][x] \in Nat
        BY <1>5, <1>6, <1>7, <1>c, <2>2
      <3>4. CASE d[u][v] > i
        BY <2>4, <2>10, <3>1, <3>4
      <3>5. CASE d[u][x] > i
        <4>1. e[x] <= low /\ e[x] \in Nat
          BY <1>7, <2>10, <3>5
        <4>2. QED
          BY <2>4, <2>10, <3>1, <3>2, <3>3, <4>1
      <3>6. CASE d[u][v] <= i /\ d[u][x] <= i
        BY <2>4, <2>10, <3>1, <3>2, <3>3, <3>6
      <3>7. QED
        BY <3>3, <3>4, <3>5, <3>6
    <2>11. T = {}
      <3>1. SUFFICES ASSUME T # {} PROVE FALSE
        OBVIOUS
      <3>2. PICK i \in T : \A j \in T : i <= j
        <4>1. T \in SUBSET Nat
          OBVIOUS
        <4> HIDE DEF T
        <4>2. QED
          BY <3>1, <4>1, LeastNatural
      <3>3. PICK low \in 0 .. C : Covers(i, low) /\ h[i][low] # D
        OBVIOUS
      <3>4. i \in Nat /\ i <= e[u] /\ e[u] \in Nat /\ e[u] < C /\ i \in 0 .. e[u]
        BY <1>7, <1>c, <2>3
      <3>5. ~ (2 * i <= low)
        <4> HIDE DEF Covers, T
        <4>1. ASSUME 2 * i <= low PROVE FALSE
          <5>1. low = D
            BY <2>10, <3>3, <3>4, <4>1
          <5>2. h[i][low] = low
            BY <2>9, <3>4, <4>1 DEF Down
          <5>3. QED
            BY <3>3, <5>1, <5>2
        <4>2. QED
          BY <4>1
      <3> DEFINE found == Found(w, u, i, low)
      <3>6. /\ found \in 0 .. C /\ found >= low
            /\ \A v \in N : d[u][v] = i => e[v] <= found
            /\ found = low \/ \E v \in N : found = e[v]
        <4>1. /\ Found(w, u, i, low) \in 0 .. C
              /\ Found(w, u, i, low) >= low
              /\ \A v \in DOMAIN w : LocalBFS(w, u)[v] = i
                   => Eccentricity(w, v) <= Found(w, u, i, low)
              /\ \/ Found(w, u, i, low) = low
                 \/ \E v \in DOMAIN w : Found(w, u, i, low) = Eccentricity(w, v)
          <5>1. PICK c \in Nat : c = C
            BY <1>1
          <5>2. low \in 0 .. c /\ \A v \in DOMAIN w : Eccentricity(w, v) \in 0 .. c
            BY <1>c, <2>5, <5>1
          <5>3. FoundFits(w, u, i, low, Found(w, u, i, low), c)
            BY ONLY IsFiniteSet(DOMAIN w), c \in Nat, <5>2, FoundIs
          <5>4. QED
            BY <5>1, <5>3 DEF FoundFits
        <4>2. QED
          BY <1>3, <1>c, <4>1
      <3>7. i # 0 /\ i - 1 \in Nat /\ i - 1 <= e[u] /\ ~ (i <= i - 1)
        BY <1>1, <3>4, <3>5
      <3>8. h[i][low] = IF found > 2 * (i - 1) THEN found ELSE h[i - 1][found]
        <4>1. ~ (Eccentricity(w, u) - i >= C)
          BY <1>1, <1>3, <1>c, <3>4
        <4>2. QED
          BY <2>9, <3>4, <3>5, <4>1 DEF Down
      <3> HIDE DEF found
      <3>9. Covers(i - 1, found)
        <4>1. found <= D
          BY <1>8, <2>4, <3>3, <3>6
        <4>2. ASSUME NEW v \in N, d[u][v] > i - 1 PROVE e[v] <= found
          <5>1. d[u][v] \in Nat /\ e[v] \in Nat
            BY <1>6, <1>7, <1>c
          <5>2. CASE d[u][v] = i
            BY <3>6, <5>2
          <5>3. CASE d[u][v] # i
            <6>1. e[v] <= low
              BY <3>3, <3>4, <4>2, <5>1, <5>3
            <6>2. QED
              BY <3>6, <5>1, <6>1
          <5>4. QED
            BY <5>2, <5>3
        <4>3. QED
          BY <4>1, <4>2
      <3>10. CASE found > 2 * (i - 1)
        <4>1. 2 * (i - 1) <= found
          BY <3>4, <3>6, <3>10
        <4> HIDE DEF Covers, T
        <4>2. found = D
          BY <2>10, <3>6, <3>7, <3>9, <4>1
        <4>3. QED
          BY <3>3, <3>8, <3>10, <4>2
      <3>11. CASE ~ (found > 2 * (i - 1))
        <4>1. i - 1 \notin T
          BY <3>2, <3>7
        <4>2. h[i - 1][found] = D
          BY <3>6, <3>7, <3>9, <4>1
        <4>3. QED
          BY <3>3, <3>8, <3>11, <4>2
      <3>12. QED
        BY <3>10, <3>11
    <2>12. e[u] \in 0 .. C /\ Covers(e[u], e[u])
      <3>1. e[u] <= D /\ e[u] \in 0 .. C /\ e[u] \in Nat
        BY <1>7, <1>8, <1>c, <2>3
      <3>2. \A v \in N : ~ (d[u][v] > e[u])
        BY <1>6, <1>7, <1>c, <3>1
      <3>3. QED
        BY <3>1, <3>2
    <2>13. h[e[u]][e[u]] = D
      <3> HIDE DEF Covers
      <3>1. e[u] \in Nat /\ e[u] <= e[u]
        BY <1>7, <1>c
      <3>2. QED
        BY <2>11, <2>12, <3>1
    <2>14. QED
      BY <1>4, <1>c, <2>8, <2>13
  <1>11. QED
    BY <1>9, <1>10

-----------------------------------------------------------------------------
(***************************************************************************)
(* localDijkstra.  A node whose entry is in no queue any more is settled:  *)
(* a visit would improve none of its neighbours.                           *)
(***************************************************************************)
Waits(n) == <<dist[n], n>> \in queue \cup alternate

Settled(n) ==
  \A m \in Neighbors(network, n) : m \in visited \/ dist[m] <= dist[n] + network[n][m]

SearchTypeOK ==
  /\ source \in Nodes /\ visited \subseteq Nodes /\ source \in visited
  /\ dist \in [Nodes -> Nat] /\ predecessor \in [Nodes -> Nodes \cup {-1}]
  /\ queue \subseteq Nat \X Nodes /\ alternate \subseteq Nat \X Nodes
  /\ dist[source] = 0 /\ \A n \in Nodes : dist[n] <= Far
  /\ \A x \in queue \cup alternate : dist[x[2]] # Far
  /\ \A n \in visited : dist[n] # Far

\* The predecessors are visited, so their distances stay.
Tree ==
  \A n \in Nodes \ {source} : dist[n] # Far =>
    /\ predecessor[n] \in Neighbors(network, n) /\ predecessor[n] \in visited
    /\ dist[n] = dist[predecessor[n]] + network[predecessor[n]][n]

AllSettled ==
  /\ \A n \in Nodes : dist[n] # Far => Waits(n) \/ Settled(n)
  /\ \A n \in visited \ {source} : Settled(n)

\* Every visited node adds at most one edge.
Short ==
  \A W \in Nat : (\A n, m \in Nodes : network[n][m] <= W) =>
    \A n \in Nodes : dist[n] # Far =>
      /\ dist[n] <= Cardinality(visited) * W
      /\ n \in visited => dist[n] <= (Cardinality(visited) - 1) * W

\* Nobody is reached from outside.
Connects ==
  \A C \in SUBSET Nodes : source \in C /\ NeighborsOf(network, C) \subseteq C =>
    \A n \in Nodes : dist[n] # Far => n \in C

EqualWeights(c) == \A n, m \in Nodes : network[n][m] = 0 \/ network[n][m] = c

\* With equal weights a round has one distance.
LayerAt(c, D) ==
  /\ \A x \in queue : x[1] = D /\ dist[x[2]] = D
  /\ \A x \in alternate : x[1] = D + c /\ dist[x[2]] = D + c
  /\ \A n \in Nodes : dist[n] # Far => dist[n] <= D + c
  /\ \A n \in visited : dist[n] <= D
  /\ \A n \in Nodes : dist[n] # Far =>
       Waits(n) \/ \A m \in Neighbors(network, n) : dist[m] <= dist[n] + c

Layered == \A c \in Nat \ {0} : EqualWeights(c) => \E D \in Nat : LayerAt(c, D)

SearchInv == SearchTypeOK /\ Tree /\ AllSettled /\ Short /\ Connects /\ Layered

\* The nodes are natural numbers.
LEMMA NodesFinite ==
  Nodes = BlockIds /\ IsFiniteSet(Nodes) /\ Cardinality(Nodes) = K /\ Nodes \subseteq Nat
  /\ Nodes # {} /\ K \in Nat \ {0} /\ Far \in Nat /\ K < Far
  <1>1. K \in Nat \ {0} /\ Far \in Nat /\ K < Far /\ Nodes = 0 .. (K - 1)
    BY SizesAssumption, FarAssumption, NodesAreBlocks DEF BlockIds
  <1>2. IsFiniteSet(Nodes) /\ Cardinality(Nodes) = K
    BY <1>1, FS_Interval
  <1>3. Nodes \subseteq Nat /\ 0 \in Nodes
    BY <1>1
  <1>4. QED
    BY <1>1, <1>2, <1>3, NodesAreBlocks

\* A queue that is not empty has a top.
LEMMA TopIn ==
  ASSUME queue \subseteq Nat \X Nodes, queue # {}
  PROVE  Top \in queue
  <1> DEFINE A == {x[1] : x \in queue}
  <1>1. PICK a \in A : \A b \in A : a <= b
    <2>1. A \in SUBSET Nat /\ A # {}
      OBVIOUS
    <2> HIDE DEF A
    <2>2. QED
      BY <2>1, LeastNatural
  <1> DEFINE B == {x[2] : x \in {y \in queue : y[1] = a}}
  <1>2. PICK n \in B : \A m \in B : n <= m
    <2>1. B \in SUBSET Nat /\ B # {}
      BY NodesFinite
    <2> HIDE DEF B
    <2>2. QED
      BY <2>1, LeastNatural
  <1>3. PICK x \in queue : x[1] = a /\ x[2] = n
    BY <1>2
  <1>4. \A y \in queue : x[1] < y[1] \/ (x[1] = y[1] /\ x[2] <= y[2])
    <2> SUFFICES ASSUME NEW y \in queue PROVE x[1] < y[1] \/ (x[1] = y[1] /\ x[2] <= y[2])
      OBVIOUS
    <2>1. y[1] \in Nat /\ x[1] \in Nat /\ a <= y[1]
      BY <1>1
    <2>2. y[1] = a => n <= y[2]
      BY <1>2
    <2>3. QED
      BY <1>3, <2>1, <2>2
  <1>5. QED
    BY <1>3, <1>4 DEF Top

\* A search begins.
LEMMA SearchStart ==
  ASSUME IsNetwork(network)', NEW u \in Nodes, StartSearch(u)
  PROVE  SearchInv'
  <1>1. /\ source' = u /\ queue' = {<<0, u>>} /\ alternate' = {} /\ visited' = {u}
        /\ dist' = [n \in Nodes |-> IF n = u THEN 0 ELSE Far]
        /\ predecessor' = [n \in Nodes |-> -1]
    BY DEF StartSearch
  <1>2. dist'[u] = 0 /\ \A n \in Nodes : n # u => dist'[n] = Far
    BY <1>1
  <1>3. Far \in Nat /\ Far # 0 /\ Cardinality(visited') = 1
    BY <1>1, NodesFinite, FS_Singleton
  <1>4. SearchTypeOK'
    BY <1>1, <1>2, <1>3 DEF SearchTypeOK
  <1>5. Tree'
    BY <1>1, <1>2 DEF Tree
  <1>6. <<dist'[u], u>> \in queue' \cup alternate'
    BY <1>1, <1>2
  <1>7. AllSettled'
    BY <1>1, <1>2, <1>6 DEF AllSettled, Waits
  <1>8. Short'
    <2> SUFFICES ASSUME NEW W \in Nat, NEW n \in Nodes, dist'[n] # Far
                 PROVE  /\ dist'[n] <= Cardinality(visited') * W
                        /\ dist'[n] <= (Cardinality(visited') - 1) * W
      BY DEF Short
    <2>1. dist'[n] = 0 /\ 1 * W = W /\ (1 - 1) * W = 0
      BY <1>2
    <2>2. QED
      BY <1>3, <2>1
  <1>9. Connects'
    BY <1>1, <1>2 DEF Connects
  <1>10. Layered'
    <2> SUFFICES ASSUME NEW c \in Nat \ {0} PROVE LayerAt(c, 0)'
      <3>1. 0 \in Nat
        OBVIOUS
      <3>2. QED
        BY <3>1 DEF Layered
    <2>1. LayerAt(c, 0)'
      BY <1>1, <1>2, <1>3, <1>6 DEF LayerAt, Waits
    <2>2. QED
      BY <2>1
  <1>11. QED
    BY <1>4, <1>5, <1>7, <1>8, <1>9, <1>10 DEF SearchInv

\* The next round: what waited in alternate.
LEMMA SearchRound ==
  ASSUME IsNetwork(network), network' = network, SearchInv, NextRound
  PROVE  SearchInv'
  <1>1. /\ queue = {} /\ queue' = alternate /\ alternate' = {}
        /\ source' = source /\ visited' = visited /\ dist' = dist /\ predecessor' = predecessor
    BY DEF NextRound
  <1>2. queue' \cup alternate' = queue \cup alternate
    BY <1>1
  <1>3. SearchTypeOK'
    BY <1>1, <1>2 DEF SearchInv, SearchTypeOK
  <1>4. Tree' /\ AllSettled' /\ Short' /\ Connects'
    BY <1>1, <1>2 DEF SearchInv, Tree, AllSettled, Waits, Settled, Short, Connects
  <1>5. Layered'
    <2> SUFFICES ASSUME NEW c \in Nat \ {0}, EqualWeights(c)
                 PROVE  \E D \in Nat : LayerAt(c, D)'
      <3>1. ASSUME NEW c \in Nat PROVE EqualWeights(c)' <=> EqualWeights(c)
        BY DEF EqualWeights
      <3>2. QED
        BY <3>1 DEF Layered
    <2>1. PICK D \in Nat : LayerAt(c, D)
      BY DEF SearchInv, Layered
    <2>2. PICK E \in Nat : E = D + c
      OBVIOUS
    <2>3. \A n \in visited : n \in Nodes /\ dist[n] \in Nat /\ dist[n] <= E
      BY <2>1, <2>2 DEF LayerAt, SearchInv, SearchTypeOK
    <2>4. \A n \in Nodes : dist[n] # Far => dist[n] <= E + c
      BY <2>1, <2>2 DEF LayerAt, SearchInv, SearchTypeOK
    <2>5. \A x \in alternate : x[1] = E /\ dist[x[2]] = E
      BY <2>1, <2>2 DEF LayerAt
    <2>6. \A n \in Nodes : dist[n] # Far =>
            Waits(n) \/ \A m \in Neighbors(network, n) : dist[m] <= dist[n] + c
      BY <2>1 DEF LayerAt
    <2>7. LayerAt(c, E)'
      BY <1>1, <1>2, <2>3, <2>4, <2>5, <2>6 DEF LayerAt, Waits
    <2>8. QED
      BY <2>7
  <1>6. QED
    BY <1>3, <1>4, <1>5 DEF SearchInv

\* What a visit of v does: M are the nodes it improves.
Visits(v, M) ==
  /\ v \in Nodes /\ dist[v] # Far /\ Top \in queue /\ Top[2] = v
  /\ M = Relaxed(v)
  /\ queue' = queue \ {Top}
  /\ alternate' = alternate \cup {<<dist[v] + network[v][m], m>> : m \in M}
  /\ dist' = [m \in Nodes |-> IF m \in M THEN dist[v] + network[v][m] ELSE dist[m]]
  /\ predecessor' = [m \in Nodes |-> IF m \in M THEN v ELSE predecessor[m]]
  /\ visited' = IF M # {} THEN visited \cup {v} ELSE visited
  /\ source' = source

\* A visit takes the top of the queue.
LEMMA VisitIs ==
  ASSUME SearchInv, Visit
  PROVE  \E v, M : Visits(v, M)
  <1>1. Top \in queue
    BY TopIn DEF SearchInv, SearchTypeOK, Visit
  <1>2. PICK v, M : v = Top[2] /\ M = Relaxed(v)
    OBVIOUS
  <1>3. v \in Nodes /\ dist[v] # Far
    BY <1>1, <1>2 DEF SearchInv, SearchTypeOK
  <1>4. PICK new : new = [m \in M |-> dist[v] + network[v][m]]
    OBVIOUS
  <1>5. DOMAIN new = M /\ \A m \in M : new[m] = dist[v] + network[v][m]
    BY <1>4
  <1>6. /\ queue' = queue \ {Top}
        /\ alternate' = alternate \cup {<<new[m], m>> : m \in DOMAIN new}
        /\ dist' = [m \in Nodes |-> IF m \in DOMAIN new THEN new[m] ELSE dist[m]]
        /\ predecessor' = [m \in Nodes |-> IF m \in DOMAIN new THEN v ELSE predecessor[m]]
        /\ visited' = IF DOMAIN new # {} THEN visited \cup {v} ELSE visited
        /\ source' = source
    BY <1>2, <1>4 DEF Visit
  <1>7. {<<new[m], m>> : m \in DOMAIN new} = {<<dist[v] + network[v][m], m>> : m \in M}
    BY <1>5
  <1>8. dist' = [m \in Nodes |-> IF m \in M THEN dist[v] + network[v][m] ELSE dist[m]]
    BY <1>5, <1>6
  <1>9. /\ alternate' = alternate \cup {<<dist[v] + network[v][m], m>> : m \in M}
        /\ predecessor' = [m \in Nodes |-> IF m \in M THEN v ELSE predecessor[m]]
        /\ visited' = IF M # {} THEN visited \cup {v} ELSE visited
    <2>1. {<<new[m], m>> : m \in DOMAIN new} = {<<dist[v] + network[v][m], m>> : m \in M}
      BY <1>7
    <2>2. QED
      BY <1>5, <1>6, <2>1
  <1>10. queue' = queue \ {Top} /\ source' = source
    BY <1>6
  <1>11. Visits(v, M)
    BY <1>1, <1>2, <1>3, <1>8, <1>9, <1>10, Zenon DEF Visits
  <1>12. QED
    BY <1>11

\* The distance of a node changes only if the node is improved.
VisitOK(v, M) ==
  /\ M \subseteq Nodes \ visited /\ v \notin M /\ M \subseteq Neighbors(network, v)
  /\ v \in Nodes /\ dist[v] \in Nat /\ dist[v] # Far /\ dist'[v] = dist[v]
  /\ \A m \in M : /\ dist'[m] = dist[v] + network[v][m] /\ dist'[m] < dist[m]
                  /\ dist'[m] \in Nat /\ dist'[m] # Far /\ network[v][m] \in Nat \ {0}
                  /\ <<dist'[m], m>> \in alternate'
  /\ \A m \in Nodes \ M : dist'[m] = dist[m]
  /\ \A m \in Nodes : dist'[m] \in Nat /\ dist[m] \in Nat /\ dist'[m] <= dist[m]
                      /\ dist[m] <= Far
  /\ \A m \in visited' : m \notin M
  /\ visited \subseteq visited' /\ visited' \subseteq Nodes
  /\ \A m \in Neighbors(network, v) : m \notin visited => dist'[m] <= dist[v] + network[v][m]

\* Distances only fall, those of visited nodes stay.
LEMMA VisitFacts ==
  ASSUME IsNetwork(network), SearchInv, NEW v, NEW M, Visits(v, M)
  PROVE  VisitOK(v, M)
  <1>1. M = {m \in Neighbors(network, v) \ visited : dist[m] > dist[v] + network[v][m]}
    BY DEF Visits, Relaxed
  <1>2. network \in [Nodes -> [Nodes -> Nat]]
    BY DEF IsNetwork
  <1>3. \A m \in Neighbors(network, v) : m \in Nodes /\ m # v /\ network[v][m] > 0
    BY <1>2 DEF Neighbors
  <1>4. v \in Nodes /\ dist \in [Nodes -> Nat] /\ visited \subseteq Nodes /\ dist[v] # Far
        /\ Far \in Nat /\ \A n \in Nodes : dist[n] <= Far
    BY NodesFinite DEF Visits, SearchInv, SearchTypeOK
  <1>5. M \subseteq Nodes \ visited /\ v \notin M /\ M \subseteq Neighbors(network, v)
    BY <1>1, <1>3
  <1>6. dist' = [m \in Nodes |-> IF m \in M THEN dist[v] + network[v][m] ELSE dist[m]]
    BY DEF Visits
  <1>7. ASSUME NEW m \in M
        PROVE  /\ dist'[m] = dist[v] + network[v][m] /\ dist'[m] < dist[m]
               /\ dist'[m] \in Nat /\ dist'[m] # Far /\ network[v][m] \in Nat \ {0}
               /\ <<dist'[m], m>> \in alternate'
    <2>1. m \in Nodes /\ network[v][m] \in Nat \ {0} /\ dist[m] > dist[v] + network[v][m]
      BY <1>1, <1>2, <1>3, <1>4
    <2>2. dist'[m] = dist[v] + network[v][m]
      BY <1>6, <2>1
    <2>3. <<dist'[m], m>> \in alternate'
      BY <2>2 DEF Visits
    <2>4. QED
      BY <1>4, <2>1, <2>2, <2>3
  <1>8. \A m \in Nodes \ M : dist'[m] = dist[m]
    BY <1>6
  <1>9. \A m \in Nodes : dist'[m] \in Nat /\ dist[m] \in Nat /\ dist'[m] <= dist[m]
                         /\ dist[m] <= Far
    <2> SUFFICES ASSUME NEW m \in Nodes
                 PROVE  /\ dist'[m] \in Nat /\ dist[m] \in Nat /\ dist'[m] <= dist[m]
                        /\ dist[m] <= Far
      OBVIOUS
    <2>1. dist[m] \in Nat /\ dist[m] <= Far
      BY <1>4
    <2>2. CASE m \in M
      <3>1. dist'[m] \in Nat /\ dist'[m] < dist[m]
        BY <1>7, <2>2
      <3>2. QED
        BY <2>1, <3>1
    <2>3. CASE m \notin M
      BY <1>8, <2>1, <2>3
    <2>4. QED
      BY <2>1, <2>2, <2>3
  <1>10. visited' = IF M # {} THEN visited \cup {v} ELSE visited
    BY DEF Visits
  <1>11. \A m \in Neighbors(network, v) : m \notin visited => dist'[m] <= dist[v] + network[v][m]
    <2> SUFFICES ASSUME NEW m \in Neighbors(network, v), m \notin visited
                 PROVE  dist'[m] <= dist[v] + network[v][m]
      OBVIOUS
    <2>1. CASE m \in M
      <3>1. dist'[m] = dist[v] + network[v][m] /\ dist'[m] \in Nat
        BY <1>7, <2>1
      <3>2. QED
        BY <3>1
    <2>2. CASE m \notin M
      <3>1. network[v][m] \in Nat /\ dist'[m] = dist[m] /\ dist[m] \in Nat /\ dist[v] \in Nat
        BY <1>2, <1>3, <1>4, <1>8, <2>2
      <3>2. QED
        BY <1>1, <2>2, <3>1
    <2>3. QED
      BY <2>1, <2>2
  <1>12. QED
    BY <1>4, <1>5, <1>7, <1>8, <1>9, <1>10, <1>11 DEF VisitOK

\* A visit leaves a search in proper state.
LEMMA VisitTypeOK ==
  ASSUME IsNetwork(network), SearchInv, NEW v, NEW M, Visits(v, M), VisitOK(v, M)
  PROVE  SearchTypeOK'
  <1>1. source \in Nodes /\ source' = source /\ source \in visited /\ dist[source] = 0
        /\ predecessor \in [Nodes -> Nodes \cup {-1}]
        /\ queue \subseteq Nat \X Nodes /\ alternate \subseteq Nat \X Nodes
        /\ (\A x \in queue \cup alternate : dist[x[2]] # Far)
        /\ \A n \in visited : dist[n] # Far
    BY DEF SearchInv, SearchTypeOK, Visits
  <1>2. dist'[source] = 0
    BY <1>1 DEF VisitOK
  <1>3. dist' \in [Nodes -> Nat]
    <2>1. dist' = [m \in Nodes |-> dist'[m]]
      BY DEF Visits
    <2>2. \A m \in Nodes : dist'[m] \in Nat
      BY DEF VisitOK
    <2>3. QED
      BY <2>1, <2>2
  <1>4. predecessor' \in [Nodes -> Nodes \cup {-1}]
    BY <1>1 DEF Visits, VisitOK
  <1>5. {<<dist[v] + network[v][m], m>> : m \in M} \subseteq Nat \X Nodes
    <2>1. \A m \in M : m \in Nodes /\ dist[v] + network[v][m] \in Nat
      BY DEF VisitOK
    <2>2. QED
      BY <2>1
  <1>6. queue' \subseteq queue /\ alternate' \subseteq Nat \X Nodes
        /\ \A x \in alternate' : x \in alternate \/ x[2] \in M
    BY <1>1, <1>5 DEF Visits
  <1>7. \A m \in Nodes : dist[m] # Far => dist'[m] # Far
    <2> SUFFICES ASSUME NEW m \in Nodes, dist[m] # Far PROVE dist'[m] # Far
      OBVIOUS
    <2>1. CASE m \in M
      BY <2>1 DEF VisitOK
    <2>2. CASE m \notin M
      BY <2>2 DEF VisitOK
    <2>3. QED
      BY <2>1, <2>2
  <1>8. \A x \in queue' \cup alternate' : dist'[x[2]] # Far
    <2> SUFFICES ASSUME NEW x \in queue' \cup alternate' PROVE dist'[x[2]] # Far
      OBVIOUS
    <2>1. CASE x[2] \in M
      BY <2>1 DEF VisitOK
    <2>2. CASE x[2] \notin M
      <3>1. x \in queue \cup alternate
        BY <1>6, <2>2
      <3>2. x[2] \in Nodes /\ dist[x[2]] # Far
        BY <1>1, <3>1
      <3>3. QED
        BY <1>7, <3>2
    <2>3. QED
      BY <2>1, <2>2
  <1>9. \A n \in visited' : dist'[n] # Far
    <2> SUFFICES ASSUME NEW n \in visited' PROVE dist'[n] # Far
      OBVIOUS
    <2>1. n \in Nodes /\ (n \in visited \/ n = v)
      BY DEF VisitOK, Visits
    <2>2. dist[n] # Far
      BY <1>1, <2>1 DEF VisitOK
    <2>3. QED
      BY <1>7, <2>1, <2>2
  <1>10. visited' \subseteq Nodes /\ source' \in visited' /\ source' \in Nodes
         /\ dist'[source'] = 0
    BY <1>1, <1>2 DEF VisitOK
  <1>11. \A n \in Nodes : dist'[n] <= Far
    <2>1. Far \in Nat
      BY NodesFinite
    <2>2. \A n \in Nodes : dist'[n] \in Nat /\ dist[n] \in Nat /\ dist'[n] <= dist[n]
                           /\ dist[n] <= Far
      BY DEF VisitOK
    <2>3. QED
      BY <2>1, <2>2
  <1>12. queue' \subseteq Nat \X Nodes
    BY <1>1, <1>6
  <1>13. QED
    BY <1>3, <1>4, <1>6, <1>8, <1>9, <1>10, <1>11, <1>12 DEF SearchTypeOK

\* After a visit the predecessors still lead back.
LEMMA VisitTree ==
  ASSUME IsNetwork(network), network' = network, SearchInv, NEW v, NEW M,
         Visits(v, M), VisitOK(v, M)
  PROVE  Tree'
  <1> SUFFICES ASSUME NEW n \in Nodes \ {source}, dist'[n] # Far
               PROVE  /\ predecessor'[n] \in Neighbors(network, n) /\ predecessor'[n] \in visited'
                      /\ dist'[n] = dist'[predecessor'[n]] + network[predecessor'[n]][n]
    BY DEF Tree, Visits
  <1>1. predecessor'[n] = IF n \in M THEN v ELSE predecessor[n]
    BY DEF Visits
  <1>2. CASE n \in M
    <2>1. predecessor'[n] = v /\ v \in visited' /\ n \in Neighbors(network, v) /\ v \in Nodes
      BY <1>1, <1>2 DEF Visits, VisitOK
    <2>2. v \in Neighbors(network, n)
      BY <2>1 DEF IsNetwork, Neighbors
    <2>3. dist'[n] = dist'[v] + network[v][n]
      BY <1>2 DEF VisitOK
    <2>4. QED
      BY <2>1, <2>2, <2>3
  <1>3. CASE n \notin M
    <2>1. dist'[n] = dist[n] /\ predecessor'[n] = predecessor[n]
      BY <1>1, <1>3 DEF VisitOK
    <2>2. /\ predecessor[n] \in Neighbors(network, n) /\ predecessor[n] \in visited
          /\ dist[n] = dist[predecessor[n]] + network[predecessor[n]][n]
      BY <2>1 DEF SearchInv, Tree
    <2>3. predecessor[n] \in Nodes \ M /\ predecessor[n] \in visited'
      BY <2>2 DEF VisitOK
    <2>4. dist'[predecessor[n]] = dist[predecessor[n]]
      BY <2>3 DEF VisitOK
    <2>5. QED
      BY <2>1, <2>2, <2>3, <2>4
  <1>4. QED
    BY <1>2, <1>3

\* A node other than v that is not improved waits or is settled as before.
LEMMA VisitWaits ==
  ASSUME IsNetwork(network), SearchInv, NEW v, NEW M, Visits(v, M), VisitOK(v, M),
         NEW n \in Nodes, n # v, n \notin M, Waits(n)
  PROVE  Waits(n)'
  <1>1. dist'[n] = dist[n]
    BY DEF VisitOK
  <1>2. <<dist[n], n>> # Top
    BY DEF Visits
  <1>3. <<dist[n], n>> \in queue' \cup alternate'
    BY <1>2 DEF Waits, Visits
  <1>4. QED
    BY <1>1, <1>3 DEF Waits

\* A visit settles its node and no other node is unsettled by it; only the source is
\* visited again for an improvement.
LEMMA VisitSettles ==
  ASSUME IsNetwork(network), network' = network, SearchInv, NEW v, NEW M,
         Visits(v, M), VisitOK(v, M)
  PROVE  /\ AllSettled'
         /\ v \in visited => M = {} \/ v = source
  <1>1. ASSUME NEW n \in Nodes, n \notin M, Settled(n) PROVE Settled(n)'
    <2> SUFFICES ASSUME NEW m \in Neighbors(network, n), m \notin visited'
                 PROVE  dist'[m] <= dist'[n] + network[n][m]
      BY DEF Settled
    <2>1. m \in Nodes /\ network[n][m] \in Nat
      BY DEF Neighbors, IsNetwork
    <2>2. dist'[n] = dist[n] /\ m \notin visited /\ dist'[m] <= dist[m]
          /\ dist[n] \in Nat /\ dist[m] \in Nat /\ dist'[m] \in Nat
      BY <1>1, <2>1 DEF VisitOK
    <2>3. dist[m] <= dist[n] + network[n][m]
      BY <1>1, <2>2 DEF Settled
    <2>4. QED
      BY <2>1, <2>2, <2>3
  <1>2. Settled(v)'
    <2>1. \A m \in Neighbors(network, v) : m \notin visited =>
            dist'[m] <= dist[v] + network[v][m]
      BY DEF VisitOK
    <2>2. visited \subseteq visited' /\ dist'[v] = dist[v]
      BY DEF VisitOK
    <2>3. QED
      BY <2>1, <2>2 DEF Settled
  <1>3. ASSUME NEW n \in Nodes, dist'[n] # Far PROVE Waits(n)' \/ Settled(n)'
    <2>1. CASE n = v
      BY <1>2, <2>1
    <2>2. CASE n \in M
      BY <2>2 DEF VisitOK, Waits
    <2>3. CASE n # v /\ n \notin M
      <3>1. dist[n] # Far
        BY <1>3, <2>3 DEF VisitOK
      <3>2. Waits(n) \/ Settled(n)
        BY <3>1 DEF SearchInv, AllSettled
      <3>3. QED
        BY <1>1, <2>3, <3>2, VisitWaits
    <2>4. QED
      BY <2>1, <2>2, <2>3
  <1>4. ASSUME NEW n \in visited', n # source' PROVE Settled(n)'
    <2>1. n \in Nodes /\ n \notin M /\ n # source /\ (n = v \/ n \in visited)
      BY <1>4 DEF VisitOK, Visits
    <2>2. CASE n = v
      BY <1>2, <2>2
    <2>3. CASE n \in visited
      BY <1>1, <2>1, <2>3 DEF SearchInv, AllSettled
    <2>4. QED
      BY <2>1, <2>2, <2>3
  <1>5. ASSUME v \in visited, v # source PROVE M = {}
    <2>1. Settled(v)
      BY <1>5 DEF SearchInv, AllSettled
    <2>2. ASSUME NEW m \in M PROVE FALSE
      <3>1. m \in Neighbors(network, v) /\ m \notin visited /\ m \in Nodes
            /\ dist[v] + network[v][m] < dist[m]
            /\ dist[m] \in Nat /\ dist[v] \in Nat /\ network[v][m] \in Nat
        BY <2>2 DEF VisitOK
      <3>2. QED
        BY <2>1, <3>1 DEF Settled
    <2>3. QED
      BY <2>2
  <1>6. AllSettled'
    BY <1>3, <1>4 DEF AllSettled
  <1>7. QED
    BY <1>5, <1>6

\* Every visited node adds at most one edge to the distances.
LEMMA VisitShort ==
  ASSUME IsNetwork(network), network' = network, SearchInv, NEW v, NEW M,
         Visits(v, M), VisitOK(v, M)
  PROVE  Short'
  <1> SUFFICES ASSUME NEW W \in Nat, \A n, m \in Nodes : network[n][m] <= W,
                      NEW n \in Nodes, dist'[n] # Far
               PROVE  /\ dist'[n] <= Cardinality(visited') * W
                      /\ n \in visited' => dist'[n] <= (Cardinality(visited') - 1) * W
    BY DEF Short
  <1>1. IsFiniteSet(visited) /\ visited # {} /\ visited \subseteq Nodes /\ source \in visited
        /\ dist[source] = 0
    BY NodesFinite, FS_Subset DEF SearchInv, SearchTypeOK
  <1>2. PICK c \in Nat \ {0} : c = Cardinality(visited)
    BY <1>1, FS_CardinalityType, FS_EmptySet
  <1>3. \A x \in Nodes : dist[x] # Far =>
          /\ dist[x] <= c * W
          /\ x \in visited => dist[x] <= (c - 1) * W
    BY <1>2 DEF SearchInv, Short
  <1>4. /\ c * W \in Nat /\ (c - 1) * W \in Nat /\ (c - 1) * W + W = c * W
        /\ (c + 1) * W = c * W + W /\ (c + 1) - 1 = c /\ W <= c * W
    <2>1. c - 1 \in Nat /\ (c - 1) + 1 = c
      OBVIOUS
    <2>2. \A a \in Nat : a * W \in Nat /\ (a + 1) * W = a * W + W
      OBVIOUS
    <2>3. PICK b \in Nat : b = c - 1
      BY <2>1
    <2>4. b * W \in Nat /\ (b + 1) * W = b * W + W /\ b + 1 = c
      BY <2>1, <2>2, <2>3
    <2>5. QED
      BY <2>2, <2>3, <2>4
  <1>5. PICK p \in Nat : p = c * W
    BY <1>4
  <1>6. PICK q \in Nat : q = (c - 1) * W
    BY <1>4
  <1>7. q + W = p /\ (c + 1) * W = p + W /\ W <= p
    BY <1>4, <1>5, <1>6
  <1>8. \A x \in Nodes : dist[x] # Far =>
          dist[x] \in Nat /\ dist[x] <= p /\ (x \in visited => dist[x] <= q)
    BY <1>3, <1>5, <1>6 DEF VisitOK
  <1>9. dist'[n] \in Nat /\ dist[n] \in Nat
    BY DEF VisitOK
  <1>10. \A m \in M : dist'[m] = dist[v] + network[v][m] /\ network[v][m] \in Nat
                      /\ network[v][m] <= W /\ dist[v] \in Nat /\ m \in Nodes
    BY DEF VisitOK
  <1>11. v \in Nodes /\ dist[v] # Far /\ dist'[v] = dist[v] /\ v \notin M
         /\ M \cap visited = {} /\ (n \notin M => dist'[n] = dist[n])
    BY DEF VisitOK
  <1>12. CASE visited' = visited
    <2>1. CASE n \in M
      <3>1. v \in visited
        BY <1>12, <2>1 DEF Visits
      <3>2. v = source
        BY <2>1, <3>1, VisitSettles
      <3>3. dist[v] = 0
        BY <1>1, <3>2
      <3>4. dist'[n] <= p /\ n \notin visited'
        BY <1>7, <1>9, <1>10, <1>11, <1>12, <2>1, <3>3
      <3>5. QED
        BY <1>2, <1>5, <1>12, <3>4
    <2>2. CASE n \notin M
      <3>1. dist'[n] <= p /\ (n \in visited => dist'[n] <= q)
        BY <1>8, <1>11, <2>2
      <3>2. QED
        BY <1>2, <1>5, <1>6, <1>12, <3>1
    <2>3. QED
      BY <2>1, <2>2
  <1>13. CASE visited' # visited
    <2>1. visited' = visited \cup {v} /\ v \notin visited
      BY <1>13 DEF Visits
    <2>2. Cardinality(visited') = c + 1
      BY <1>1, <1>2, <2>1, FS_AddElement
    <2>3. dist[v] <= p /\ dist[v] \in Nat
      BY <1>8, <1>11
    <2>4. CASE n \in M
      <3>1. dist'[n] <= p + W /\ n \notin visited'
        BY <1>5, <1>9, <1>10, <1>11, <2>1, <2>3, <2>4
      <3>2. QED
        BY <1>7, <2>2, <3>1
    <2>5. CASE n \notin M
      <3>1. dist'[n] <= p /\ dist'[n] <= p + W
        BY <1>8, <1>9, <1>11, <2>5
      <3>2. ((c + 1) - 1) * W = p
        BY <1>4, <1>5
      <3>3. QED
        BY <1>7, <2>2, <3>1, <3>2
    <2>6. QED
      BY <2>4, <2>5
  <1>14. QED
    BY <1>12, <1>13

\* An improved node is a neighbour of a node that is reached.
LEMMA VisitConnects ==
  ASSUME IsNetwork(network), network' = network, SearchInv, NEW v, NEW M,
         Visits(v, M), VisitOK(v, M)
  PROVE  Connects'
  <1> SUFFICES ASSUME NEW C \in SUBSET Nodes, source \in C, NeighborsOf(network, C) \subseteq C,
                      NEW n \in Nodes, dist'[n] # Far
               PROVE  n \in C
    BY DEF Connects, Visits
  <1>1. \A x \in Nodes : dist[x] # Far => x \in C
    BY DEF SearchInv, Connects
  <1>2. v \in C
    BY <1>1 DEF VisitOK
  <1>3. CASE n \in M
    BY <1>2, <1>3 DEF VisitOK, NeighborsOf
  <1>4. CASE n \notin M
    BY <1>1, <1>4 DEF VisitOK
  <1>5. QED
    BY <1>3, <1>4

\* With equal weights only nodes are improved that nobody has reached before.
LEMMA VisitLayer ==
  ASSUME IsNetwork(network), network' = network, SearchInv, NEW v, NEW M,
         Visits(v, M), VisitOK(v, M), NEW c \in Nat \ {0}, EqualWeights(c),
         NEW D \in Nat, LayerAt(c, D)
  PROVE  LayerAt(c, D)'
  <1>1. /\ \A x \in queue : x[1] = D /\ dist[x[2]] = D
        /\ \A x \in alternate : x[1] = D + c /\ dist[x[2]] = D + c
        /\ \A n \in Nodes : dist[n] # Far => dist[n] <= D + c
        /\ \A n \in visited : dist[n] <= D
        /\ \A n \in Nodes : dist[n] # Far =>
             Waits(n) \/ \A m \in Neighbors(network, n) : dist[m] <= dist[n] + c
    BY DEF LayerAt
  <1>2. dist[v] = D /\ v \in Nodes /\ dist'[v] = D
    BY <1>1 DEF Visits, VisitOK
  <1>3. \A m \in Neighbors(network, v) : m \in Nodes /\ network[v][m] = c
    BY <1>2 DEF IsNetwork, Neighbors, EqualWeights
  <1>4. ASSUME NEW m \in M PROVE m \in Nodes /\ dist'[m] = D + c /\ dist[m] = Far
    <2>1. m \in Nodes /\ dist'[m] = D + c /\ dist'[m] < dist[m] /\ dist[m] \in Nat
      BY <1>2, <1>3 DEF VisitOK
    <2>2. QED
      BY <1>1, <2>1
  <1>5. \A n \in Nodes : dist[n] # Far => dist'[n] = dist[n]
    BY <1>4 DEF VisitOK
  <1>6. queue \subseteq Nat \X Nodes /\ alternate \subseteq Nat \X Nodes
        /\ \A x \in queue \cup alternate : dist[x[2]] # Far
    BY DEF SearchInv, SearchTypeOK
  <1>7. \A x \in queue' : x[1] = D /\ dist'[x[2]] = D
    <2>1. queue' \subseteq queue
      BY DEF Visits
    <2>2. QED
      BY <1>1, <1>5, <1>6, <2>1
  <1>8. ASSUME NEW x \in alternate' PROVE x[1] = D + c /\ dist'[x[2]] = D + c
    <2>1. CASE x \in alternate
      BY <1>1, <1>5, <1>6, <2>1
    <2>2. CASE x \notin alternate
      <3>1. PICK m \in M : x = <<dist[v] + network[v][m], m>>
        BY <2>2 DEF Visits
      <3>2. x[1] = D + c /\ x[2] = m
        BY <1>2, <1>3, <3>1 DEF VisitOK
      <3>3. QED
        BY <1>4, <3>2
    <2>3. QED
      BY <2>1, <2>2
  <1>9. ASSUME NEW n \in Nodes, dist'[n] # Far PROVE dist'[n] <= D + c
    <2>1. CASE n \in M
      BY <1>4, <2>1
    <2>2. CASE n \notin M
      BY <1>1, <1>9, <2>2 DEF VisitOK
    <2>3. QED
      BY <2>1, <2>2
  <1>10. ASSUME NEW n \in visited' PROVE dist'[n] <= D
    <2>1. n \in Nodes /\ (n = v \/ n \in visited) /\ n \notin M
      BY DEF Visits, VisitOK
    <2>2. CASE n = v
      BY <1>2, <2>2
    <2>3. CASE n \in visited
      BY <1>1, <2>1, <2>3 DEF VisitOK
    <2>4. QED
      BY <2>1, <2>2, <2>3
  <1>11. ASSUME NEW n \in Nodes, dist'[n] # Far
         PROVE  Waits(n)' \/ \A m \in Neighbors(network, n) : dist'[m] <= dist'[n] + c
    <2>1. CASE n \in M
      BY <2>1 DEF VisitOK, Waits
    <2>2. CASE n = v
      <3>1. ASSUME NEW m \in Neighbors(network, v) PROVE dist'[m] <= D + c
        <4>1. CASE m \in visited
          <5>1. m \in visited' /\ dist'[m] \in Nat
            BY <1>3, <4>1 DEF VisitOK
          <5>2. dist'[m] <= D
            BY <1>10, <5>1
          <5>3. QED
            BY <5>1, <5>2
        <4>2. CASE m \notin visited
          BY <1>2, <1>3, <4>2 DEF VisitOK
        <4>3. QED
          BY <4>1, <4>2
      <3>2. QED
        BY <1>2, <2>2, <3>1
    <2>3. CASE n \notin M /\ n # v
      <3>1. dist[n] # Far /\ dist'[n] = dist[n]
        BY <1>11, <2>3 DEF VisitOK
      <3>2. CASE Waits(n)
        BY <2>3, <3>2, VisitWaits
      <3>3. CASE \A m \in Neighbors(network, n) : dist[m] <= dist[n] + c
        <4>1. ASSUME NEW m \in Neighbors(network, n) PROVE dist'[m] <= dist'[n] + c
          <5>1. m \in Nodes
            BY DEF Neighbors, IsNetwork
          <5>2. dist'[m] \in Nat /\ dist[m] \in Nat /\ dist'[m] <= dist[m] /\ dist[n] \in Nat
            BY <5>1 DEF VisitOK
          <5>3. dist[m] <= dist[n] + c
            BY <3>3
          <5>4. QED
            BY <3>1, <5>2, <5>3
        <4>2. QED
          BY <4>1
      <3>4. QED
        BY <1>1, <3>1, <3>2, <3>3
    <2>4. QED
      BY <2>1, <2>2, <2>3
  <1>12. QED
    BY <1>7, <1>8, <1>9, <1>10, <1>11 DEF LayerAt

\* Every visit keeps the invariant of the search.
LEMMA SearchVisit ==
  ASSUME IsNetwork(network), network' = network, SearchInv, Visit
  PROVE  SearchInv'
  <1>1. PICK v, M : Visits(v, M)
    BY VisitIs
  <1>2. VisitOK(v, M)
    BY <1>1, VisitFacts
  <1>3. SearchTypeOK' /\ Tree' /\ AllSettled' /\ Short' /\ Connects'
    BY <1>1, <1>2, VisitTypeOK, VisitTree, VisitSettles, VisitShort, VisitConnects
  <1>4. Layered'
    <2> SUFFICES ASSUME NEW c \in Nat \ {0}, EqualWeights(c)
                 PROVE  \E D \in Nat : LayerAt(c, D)'
      <3>1. ASSUME NEW c \in Nat PROVE EqualWeights(c)' <=> EqualWeights(c)
        BY DEF EqualWeights
      <3>2. QED
        BY <3>1 DEF Layered
    <2>1. PICK D \in Nat : LayerAt(c, D)
      BY DEF SearchInv, Layered
    <2>2. QED
      BY <1>1, <1>2, <2>1, VisitLayer
  <1>5. QED
    BY <1>3, <1>4 DEF SearchInv

\* A search keeps its invariant.
LEMMA SearchKeeps ==
  ASSUME IsNetwork(network), network' = network, SearchInv, SearchStep
  PROVE  SearchInv'
  BY SearchVisit, SearchRound DEF SearchStep

-----------------------------------------------------------------------------
(***************************************************************************)
(* The reference for the distances, round by round.                        *)
(***************************************************************************)
Shorter(w, e) ==
  [n \in DOMAIN w |-> Min({e[n]}
     \cup {e[m] + w[m][n] : m \in {x \in Neighbors(w, n) : e[x] # Far}})]

Shortens(h, w, u) ==
  h = [r \in Nat |-> IF r = 0 THEN [n \in DOMAIN w |-> IF n = u THEN 0 ELSE Far]
                     ELSE LET e == h[r - 1]
                          IN  [n \in DOMAIN w |-> Min({e[n]}
                                 \cup {e[m] + w[m][n] :
                                        m \in {x \in Neighbors(w, n) : e[x] # Far}})]]

\* Shortest in these terms.
LEMMA ShortestIs ==
  ASSUME NEW w, NEW u
  PROVE  Shortest(w, u) = (CHOOSE h : Shortens(h, w, u))[Cardinality(DOMAIN w)]
  BY Zenon DEF Shortest, Shortens

\* What a round of the reference finds for a node.
ShorterFits(w, e, n, s) ==
  /\ s \in Nat /\ s <= e[n]
  /\ \A m \in Neighbors(w, n) : e[m] # Far => s <= e[m] + w[m][n]
  /\ s = e[n] \/ \E m \in Neighbors(w, n) : e[m] # Far /\ s = e[m] + w[m][n]

\* One round takes the least of what a node has and what its neighbours offer.
LEMMA ShorterIs ==
  ASSUME NEW w, IsFiniteSet(DOMAIN w), w \in [DOMAIN w -> [DOMAIN w -> Nat]],
         NEW e \in [DOMAIN w -> Nat], NEW n \in DOMAIN w
  PROVE  ShorterFits(w, e, n, Shorter(w, e)[n])
  <1> DEFINE X == {x \in Neighbors(w, n) : e[x] # Far}
             v == [m \in X |-> e[m] + w[m][n]]
             V == {v[m] : m \in X}
             S == {e[n]} \cup V
  <1>1. Shorter(w, e)[n] = Min({e[n]} \cup {e[m] + w[m][n] : m \in X})
    BY DEF Shorter
  <1>2. V = {e[m] + w[m][n] : m \in X}
    OBVIOUS
  <1>3. X \subseteq DOMAIN w /\ IsFiniteSet(X)
    BY FS_Subset DEF Neighbors
  <1>4. IsFiniteSet(V)
    <2> HIDE DEF X, v
    <2>1. QED
      BY <1>3, FiniteImage
  <1>5. IsFiniteSet(S)
    <2> HIDE DEF V
    <2>1. QED
      BY <1>4, FS_Singleton, FS_Union
  <1>6. \A m \in X : v[m] = e[m] + w[m][n] /\ v[m] \in Nat
    <2>1. \A m \in X : e[m] \in Nat /\ w[m][n] \in Nat
      BY <1>3
    <2>2. QED
      BY <2>1
  <1>7. S # {} /\ S \subseteq Nat
    BY <1>6
  <1>8. \A s : s \in S <=> s = e[n] \/ \E m \in X : s = v[m]
    OBVIOUS
  <1>9. Shorter(w, e)[n] = Min(S)
    BY <1>1, <1>2
  <1> HIDE DEF S, v, V
  <1>10. Min(S) \in S /\ \A s \in S : Min(S) <= s
    BY <1>5, <1>7, Extremes
  <1>11. QED
    BY <1>6, <1>7, <1>8, <1>9, <1>10 DEF ShorterFits

\* The rounds.
ShortRounds(h, w, u) ==
  /\ h \in [Nat -> [DOMAIN w -> Nat]]
  /\ h[0] = [n \in DOMAIN w |-> IF n = u THEN 0 ELSE Far]
  /\ \A r \in Nat : h[r + 1] = Shorter(w, h[r])
  /\ Shortest(w, u) = h[Cardinality(DOMAIN w)]

\* The rounds of the reference exist as a function of their number.
LEMMA ShortestRounds ==
  ASSUME NEW w, IsFiniteSet(DOMAIN w), w \in [DOMAIN w -> [DOMAIN w -> Nat]],
         NEW u \in DOMAIN w, Far \in Nat
  PROVE  \E h : ShortRounds(h, w, u)
  <1> DEFINE S == [DOMAIN w -> Nat]
             a == [n \in DOMAIN w |-> IF n = u THEN 0 ELSE Far]
             G == [e \in S |-> Shorter(w, e)]
  <1>1. a \in S
    OBVIOUS
  <1>2. G \in [S -> S]
    <2>1. ASSUME NEW e \in S PROVE Shorter(w, e) \in S
      <3>1. \A n \in DOMAIN w : Shorter(w, e)[n] \in Nat
        BY ShorterIs DEF ShorterFits
      <3>2. Shorter(w, e) = [n \in DOMAIN w |-> Shorter(w, e)[n]]
        BY DEF Shorter
      <3>3. QED
        BY <3>1, <3>2
    <2> HIDE DEF S
    <2>2. QED
      BY <2>1
  <1>3. \A e \in S : G[e] = Shorter(w, e)
    OBVIOUS
  <1> HIDE DEF S, a, G
  <1>4. PICK f : f \in [Nat -> S] /\ f[0] = a /\ \A k \in Nat : f[k + 1] = G[f[k]]
    <2>1. PICK b, T, F : b = a /\ T = S /\ F = G
      OBVIOUS
    <2>2. b \in T /\ F \in [T -> T]
      BY <1>1, <1>2, <2>1
    <2>3. PICK f : Repeats(f, T, b, F)
      BY ONLY <2>2, IterationExists
    <2>4. QED
      BY <2>1, <2>3 DEF Repeats
  <1>5. \A r \in Nat : f[r] = IF r = 0 THEN a ELSE Shorter(w, f[r - 1])
    <2> SUFFICES ASSUME NEW r \in Nat, r # 0 PROVE f[r] = Shorter(w, f[r - 1])
      BY <1>4
    <2>1. r - 1 \in Nat /\ (r - 1) + 1 = r
      OBVIOUS
    <2>2. f[r] = G[f[r - 1]] /\ f[r - 1] \in S
      BY <1>4, <2>1
    <2>3. QED
      BY <1>3, <2>2
  <1>6. ASSUME NEW h
        PROVE  Shortens(h, w, u) <=>
                 h = [r \in Nat |-> IF r = 0 THEN a ELSE Shorter(w, h[r - 1])]
    BY Zenon DEF Shortens, Shorter, a
  <1>7. Shortens(f, w, u)
    <2>1. f = [r \in Nat |-> IF r = 0 THEN a ELSE Shorter(w, f[r - 1])]
      BY <1>4, <1>5
    <2>2. QED
      BY <1>6, <2>1
  <1>8. PICK h : h = CHOOSE d : Shortens(d, w, u)
    OBVIOUS
  <1>9. h = [r \in Nat |-> IF r = 0 THEN a ELSE Shorter(w, h[r - 1])]
    BY <1>6, <1>7, <1>8
  <1>10. PICK k : k = [r \in Nat |-> IF r = 0 THEN a ELSE Shorter(w, h[r - 1])]
    OBVIOUS
  <1>11. /\ DOMAIN h = Nat /\ h[0] = a /\ h = [r \in Nat |-> h[r]]
         /\ \A r \in Nat : r # 0 => h[r] = Shorter(w, h[r - 1])
    BY <1>9, <1>10
  <1>12. \A r \in Nat : h[r + 1] = Shorter(w, h[r])
    <2> SUFFICES ASSUME NEW r \in Nat PROVE h[r + 1] = Shorter(w, h[r])
      OBVIOUS
    <2>1. r + 1 \in Nat /\ r + 1 # 0 /\ (r + 1) - 1 = r
      OBVIOUS
    <2>2. QED
      BY <1>11, <2>1
  <1>13. ASSUME NEW r \in Nat PROVE h[r] \in S
    <2> DEFINE T == {q \in Nat : h[q] \notin S}
    <2>1. SUFFICES ASSUME T # {} PROVE FALSE
      OBVIOUS
    <2>2. PICK i \in T : \A j \in T : i <= j
      <3>1. T \in SUBSET Nat
        OBVIOUS
      <3> HIDE DEF T
      <3>2. QED
        BY <2>1, <3>1, LeastNatural
    <2>3. i # 0 /\ i \in Nat
      BY <1>1, <1>11
    <2>4. i - 1 \in Nat /\ ~ (i <= i - 1)
      BY <2>3
    <2>5. h[i - 1] \in S
      BY <2>2, <2>4
    <2>6. h[i] = G[h[i - 1]]
      BY <1>3, <1>11, <2>3, <2>5
    <2>7. QED
      BY <1>2, <2>2, <2>5, <2>6
  <1>14. h \in [Nat -> S]
    BY <1>11, <1>13
  <1>15. Shortest(w, u) = h[Cardinality(DOMAIN w)]
    BY <1>8, ShortestIs
  <1>16. ShortRounds(h, w, u)
    BY <1>11, <1>12, <1>14, <1>15 DEF ShortRounds, S, a
  <1>17. QED
    BY <1>16

\* Distances that no edge shortens and that some edge explains.
Explained(w, u, f) ==
  /\ f \in [DOMAIN w -> Nat] /\ f[u] = 0 /\ \A n \in DOMAIN w : f[n] <= Far
  /\ \A n \in DOMAIN w, m \in DOMAIN w : n \in Neighbors(w, m) /\ f[m] # Far =>
       f[n] <= f[m] + w[m][n]
  /\ \A n \in DOMAIN w \ {u} : f[n] # Far =>
       \E p \in Neighbors(w, n) : f[p] # Far /\ f[n] = f[p] + w[p][n]

\* They are the shortest.
LEMMA ExplainedIsShortest ==
  ASSUME NEW w, IsFiniteSet(DOMAIN w), w \in [DOMAIN w -> [DOMAIN w -> Nat]],
         \A n, m \in DOMAIN w : w[n][m] = w[m][n],
         NEW u \in DOMAIN w, Far \in Nat, NEW f, Explained(w, u, f)
  PROVE  f = Shortest(w, u)
  <1> DEFINE N == DOMAIN w
             C == Cardinality(N)
  <1>a. \A k \in Nat : k # 0 => \E j \in Nat : k = j + 1 /\ ~ (k <= j)
    <2>1. ASSUME NEW k \in Nat, k # 0 PROVE k - 1 \in Nat /\ k = (k - 1) + 1 /\ ~ (k <= k - 1)
      BY ONLY <2>1
    <2>2. QED
      BY <2>1
  <1>b. \A a, b, c \in Nat : a <= b /\ b # c /\ b <= c => a # c
    OBVIOUS
  <1>1. PICK h : ShortRounds(h, w, u)
    BY ShortestRounds
  <1>2. /\ h \in [Nat -> [N -> Nat]] /\ h[0] = [n \in N |-> IF n = u THEN 0 ELSE Far]
        /\ \A r \in Nat : h[r + 1] = Shorter(w, h[r])
        /\ Shortest(w, u) = h[C]
    BY <1>1 DEF ShortRounds
  <1>3. \A r \in Nat, n \in N : h[r][n] \in Nat
    BY <1>2
  <1>4. \A r \in Nat, n \in N : ShorterFits(w, h[r], n, h[r + 1][n])
    <2> SUFFICES ASSUME NEW r \in Nat, NEW n \in N
                 PROVE  ShorterFits(w, h[r], n, h[r + 1][n])
      OBVIOUS
    <2>1. PICK e \in [N -> Nat] : e = h[r]
      BY <1>2
    <2>2. ShorterFits(w, e, n, Shorter(w, e)[n])
      BY ShorterIs
    <2>3. QED
      BY <1>2, <2>1, <2>2
  <1>5. /\ f \in [N -> Nat] /\ f[u] = 0 /\ \A n \in N : f[n] <= Far
        /\ \A n \in N, m \in N : n \in Neighbors(w, m) /\ f[m] # Far => f[n] <= f[m] + w[m][n]
        /\ \A n \in N \ {u} : f[n] # Far =>
             \E p \in Neighbors(w, n) : f[p] # Far /\ f[n] = f[p] + w[p][n]
    BY DEF Explained
  <1>6. \A n \in N : \A m \in Neighbors(w, n) :
           m \in N /\ w[m][n] \in Nat /\ w[m][n] > 0 /\ n \in Neighbors(w, m)
    BY DEF Neighbors
  <1>7. C \in Nat /\ N # {} /\ u \in N
    BY FS_CardinalityType
  \* The reference is between f and the largest distance.
  <1>8. ASSUME NEW r \in Nat PROVE \A n \in N : f[n] <= h[r][n] /\ h[r][n] <= Far
    <2> DEFINE T == {k \in Nat : ~ \A n \in N : f[n] <= h[k][n] /\ h[k][n] <= Far}
    <2>1. SUFFICES ASSUME T # {} PROVE FALSE
      OBVIOUS
    <2>2. PICK i \in T : \A j \in T : i <= j
      <3>1. T \in SUBSET Nat
        OBVIOUS
      <3> HIDE DEF T
      <3>2. QED
        BY <2>1, <3>1, LeastNatural
    <2>3. i \in Nat /\ \E n \in N : ~ (f[n] <= h[i][n] /\ h[i][n] <= Far)
      OBVIOUS
    <2>4. \A n \in N : f[n] <= h[0][n] /\ h[0][n] <= Far
      BY <1>2, <1>5
    <2>5. i # 0
      BY <2>3, <2>4
    <2>6. PICK j \in Nat : i = j + 1 /\ ~ (i <= j)
      BY <2>3, <2>5, <1>a
    <2>7. \A n \in N : f[n] <= h[j][n] /\ h[j][n] <= Far
      BY <2>2, <2>6
    <2>8. ASSUME NEW n \in N PROVE f[n] <= h[i][n] /\ h[i][n] <= Far
      <3>1. ShorterFits(w, h[j], n, h[i][n])
        BY <1>4, <2>6
      <3>2. h[i][n] \in Nat /\ h[j][n] \in Nat /\ h[i][n] <= h[j][n] /\ f[n] \in Nat
        BY <1>3, <1>5, <2>6, <3>1 DEF ShorterFits
      <3>3. CASE h[i][n] = h[j][n]
        BY <2>7, <3>3
      <3>4. CASE h[i][n] # h[j][n]
        <4>1. PICK m \in Neighbors(w, n) : h[j][m] # Far /\ h[i][n] = h[j][m] + w[m][n]
          BY <3>1, <3>4 DEF ShorterFits
        <4>2. m \in N /\ w[m][n] \in Nat /\ n \in Neighbors(w, m)
          BY <1>6
        <4>3. f[m] <= h[j][m] /\ h[j][m] <= Far /\ f[m] \in Nat /\ h[j][m] \in Nat
          BY <1>3, <1>5, <2>7, <4>2
        <4>4. f[m] # Far
          BY <4>1, <4>3, <1>b
        <4>5. f[n] <= f[m] + w[m][n]
          BY <1>5, <4>2, <4>4
        <4>6. QED
          BY <2>7, <3>2, <4>1, <4>2, <4>3, <4>5
      <3>5. QED
        BY <3>3, <3>4
    <2>9. QED
      BY <2>3, <2>8
  \* A node with k nodes before it has its distance after k rounds.
  <1> DEFINE Before(n) == {m \in N : f[m] < f[n]}
             Late(k) == \E n \in N :
               f[n] # Far /\ Cardinality(Before(n)) <= k /\ ~ (h[k][n] <= f[n])
  <1>9. \A n : IsFiniteSet(Before(n)) /\ Cardinality(Before(n)) \in Nat
    BY FS_Subset, FS_CardinalityType
  <1>10. ASSUME NEW r \in Nat PROVE ~ Late(r)
    <2> DEFINE T == {k \in Nat : Late(k)}
    <2>1. SUFFICES ASSUME T # {} PROVE FALSE
      OBVIOUS
    <2>2. PICK i \in T : \A j \in T : i <= j
      <3>1. T \in SUBSET Nat
        OBVIOUS
      <3> HIDE DEF T
      <3>2. QED
        BY <2>1, <3>1, LeastNatural
    <2>3. PICK n \in N : f[n] # Far /\ Cardinality(Before(n)) <= i /\ ~ (h[i][n] <= f[n])
      OBVIOUS
    <2>4. i \in Nat /\ h[i][n] \in Nat /\ f[n] \in Nat
      BY <1>3, <1>5
    <2>5. \A j \in Nat : h[j + 1][u] <= h[j][u]
      BY <1>4, <1>7 DEF ShorterFits
    <2>6. ASSUME NEW p \in N, p \in Before(n) PROVE Cardinality(Before(p)) < Cardinality(Before(n))
      <3>1. f[p] \in Nat /\ f[n] \in Nat /\ f[p] < f[n]
        BY <1>5, <2>6
      <3>2. p \notin Before(p) /\ Before(p) \cup {p} \in SUBSET Before(n)
        BY <1>5, <3>1
      <3> HIDE DEF Before
      <3>3. /\ Cardinality(Before(p) \cup {p}) = Cardinality(Before(p)) + 1
            /\ Cardinality(Before(p) \cup {p}) <= Cardinality(Before(n))
        BY <1>9, <3>2, FS_AddElement, FS_Subset
      <3>4. QED
        BY <1>9, <3>3
    <2> HIDE DEF Before
    <2>7. CASE i = 0
      <3>1. n = u
        <4>1. SUFFICES ASSUME n # u PROVE FALSE
          OBVIOUS
        <4>2. PICK p \in Neighbors(w, n) : f[p] # Far /\ f[n] = f[p] + w[p][n]
          BY <1>5, <2>3, <4>1
        <4>3. p \in N /\ f[p] \in Nat /\ f[p] < f[n]
          BY <1>5, <1>6, <4>2
        <4>4. p \in Before(n)
          BY <4>3 DEF Before
        <4>5. QED
          BY <1>9, <2>3, <2>6, <2>7, <4>3, <4>4
      <3>2. h[0][u] = 0
        BY <1>2, <1>7
      <3>3. QED
        BY <1>5, <2>3, <2>7, <3>1, <3>2
    <2>8. CASE i # 0
      <3>1. PICK j \in Nat : i = j + 1 /\ ~ (i <= j)
        BY <2>4, <2>8, <1>a
      <3>2. ~ Late(j)
        BY <2>2, <3>1
      <3> HIDE DEF T
      <3>3. CASE n = u
        <4>1. Cardinality(Before(u)) <= j
          <5>1. Before(u) = {}
            BY <1>5 DEF Before
          <5>2. QED
            BY <3>1, <5>1, FS_EmptySet
        <4>2. f[u] # Far /\ h[j][u] <= f[u]
          BY <1>7, <2>3, <3>2, <3>3, <4>1
        <4>3. h[i][u] <= h[j][u] /\ h[j][u] \in Nat
          BY <1>3, <1>7, <2>5, <3>1
        <4>4. QED
          BY <1>5, <2>3, <2>4, <3>3, <4>2, <4>3
      <3>4. CASE n # u
        <4>1. PICK p \in Neighbors(w, n) : f[p] # Far /\ f[n] = f[p] + w[p][n]
          BY <1>5, <2>3, <3>4
        <4>2. p \in N /\ f[p] \in Nat /\ f[p] < f[n] /\ w[p][n] \in Nat
          BY <1>5, <1>6, <4>1
        <4>3. p \in Before(n)
          BY <4>2 DEF Before
        <4>4. Cardinality(Before(p)) <= j
          BY <1>9, <2>3, <2>6, <3>1, <4>2, <4>3
        <4>5. h[j][p] <= f[p] /\ h[j][p] \in Nat
          BY <1>3, <3>2, <4>1, <4>2, <4>4
        <4>6. f[p] <= Far /\ Far \in Nat
          BY <1>5, <4>2
        <4>7. h[j][p] # Far
          BY <4>1, <4>2, <4>5, <4>6, <1>b
        <4>8. h[i][n] <= h[j][p] + w[p][n]
          BY <1>4, <3>1, <4>7 DEF ShorterFits
        <4>9. QED
          BY <2>3, <2>4, <4>1, <4>2, <4>5, <4>8
      <3>5. QED
        BY <3>3, <3>4
    <2>9. QED
      BY <2>7, <2>8
  <1>11. ASSUME NEW n \in N PROVE h[C][n] = f[n]
    <2>1. f[n] <= h[C][n] /\ h[C][n] <= Far /\ h[C][n] \in Nat /\ f[n] \in Nat /\ f[n] <= Far
      BY <1>3, <1>5, <1>7, <1>8
    <2>2. Cardinality(Before(n)) <= C
      BY FS_Subset
    <2> HIDE DEF Before
    <2>3. ~ Late(C)
      BY <1>7, <1>10
    <2>4. f[n] # Far => h[C][n] <= f[n]
      BY <2>2, <2>3
    <2>5. QED
      BY <2>1, <2>4
  <1>12. h[C] \in [N -> Nat]
    BY <1>2, <1>7
  <1>13. h[C] = f
    BY <1>5, <1>11, <1>12
  <1>14. QED
    BY <1>2, <1>13

-----------------------------------------------------------------------------
(***************************************************************************)
(* A search that is over.                                                  *)
(***************************************************************************)

\* No edge is longer than one Kth of the largest distance.
LEMMA LongestEdge ==
  ASSUME IsNetwork(network)
  PROVE  \E W \in Nat : K * W < Far /\ \A n, m \in Nodes : network[n][m] <= W
  <1> DEFINE D == Nodes \X Nodes
             f == [e \in D |-> network[e[1]][e[2]]]
  <1>1. IsFiniteSet(D) /\ D # {}
    <2>1. IsFiniteSet(Nodes) /\ Nodes # {}
      BY NodesFinite
    <2>2. IsFiniteSet(Nodes \X Nodes)
      BY <2>1, FS_Product
    <2>3. PICK n : <<n, n>> \in Nodes \X Nodes
      BY <2>1
    <2>4. QED
      BY <2>2, <2>3
  <1>2. \A e \in D : f[e] = network[e[1]][e[2]] /\ f[e] \in Nat
    BY DEF IsNetwork
  <1>3. PICK e \in D : \A x \in D : f[x] <= f[e]
    <2>1. \A x \in D : f[x] \in Int
      BY <1>2
    <2> HIDE DEF D, f
    <2>2. QED
      BY <1>1, <2>1, FiniteMax
  <1>4. f[e] \in Nat /\ f[e] = network[e[1]][e[2]] /\ e[1] \in Nodes /\ e[2] \in Nodes
    BY <1>2
  <1>5. K * f[e] < Far
    BY <1>4, NodesFinite DEF IsNetwork
  <1>6. \A n, m \in Nodes : network[n][m] <= f[e]
    <2> SUFFICES ASSUME NEW n \in Nodes, NEW m \in Nodes PROVE network[n][m] <= f[e]
      OBVIOUS
    <2>1. <<n, m>> \in D /\ f[<<n, m>>] = network[n][m]
      OBVIOUS
    <2> HIDE DEF D, f
    <2>2. QED
      BY <1>3, <2>1
  <1>7. QED
    BY <1>4, <1>5, <1>6

\* At the end the neighbours of a reached node are reached.
LEMMA ReachedClosed ==
  ASSUME IsNetwork(network), SearchInv, Idle,
         NEW n \in Nodes, dist[n] # Far, NEW m \in Neighbors(network, n)
  PROVE  dist[m] # Far /\ (m \in visited \/ dist[m] <= dist[n] + network[n][m])
  <1>1. PICK W \in Nat : K * W < Far /\ \A x, y \in Nodes : network[x][y] <= W
    BY LongestEdge
  <1>2. /\ m \in Nodes /\ network[n][m] \in Nat /\ network[n][m] <= W
        /\ dist[n] \in Nat /\ dist[m] \in Nat
        /\ visited \subseteq Nodes /\ \A x \in visited : dist[x] # Far
    BY <1>1 DEF IsNetwork, SearchInv, SearchTypeOK, Neighbors
  <1>3. ~ Waits(n)
    BY DEF Waits, Idle
  <1>4. m \in visited \/ dist[m] <= dist[n] + network[n][m]
    BY <1>3 DEF SearchInv, AllSettled, Settled
  <1>5. PICK c \in Nat : c = Cardinality(visited) /\ c <= K /\ (n \notin visited => c + 1 <= K)
    <2>1. IsFiniteSet(visited) /\ Cardinality(visited) \in Nat /\ Cardinality(visited) <= K
      BY <1>2, NodesFinite, FS_Subset, FS_CardinalityType
    <2>2. n \notin visited => Cardinality(visited) + 1 <= K
      <3>1. visited \cup {n} \in SUBSET Nodes
        BY <1>2
      <3>2. Cardinality(visited \cup {n}) <= K
        BY <3>1, NodesFinite, FS_Subset
      <3>3. n \notin visited => Cardinality(visited \cup {n}) = Cardinality(visited) + 1
        BY <2>1, FS_AddElement
      <3>4. QED
        BY <3>2, <3>3
    <2>3. QED
      BY <2>1, <2>2
  <1>6. dist[n] <= c * W /\ (n \in visited => dist[n] <= (c - 1) * W)
    BY <1>1, <1>5 DEF SearchInv, Short
  <1>7. K \in Nat /\ Far \in Nat
    BY NodesFinite
  <1>8. \A a, b, x \in Nat : a <= b => a * x <= b * x
    <2> SUFFICES ASSUME NEW a \in Nat, NEW b \in Nat, NEW x \in Nat, a <= b PROVE a * x <= b * x
      OBVIOUS
    <2>1. PICK d \in Nat : b = a + d
      <3>1. b - a \in Nat /\ b = a + (b - a)
        OBVIOUS
      <3>2. QED
        BY <3>1
    <2>2. b * x = a * x + d * x /\ d * x \in Nat /\ a * x \in Nat
      BY <2>1
    <2>3. QED
      BY <2>2
  <1>9. \A a, x \in Nat : (a + 1) * x = a * x + x /\ (a - 1) * x + x = a * x /\ a * x \in Nat
                          /\ (a - 1) * x \in Int
    OBVIOUS
  <1>10. dist[n] + W <= K * W
    <2>1. PICK p \in Nat, q \in Nat, r \in Int :
            p = K * W /\ q = c * W /\ r = (c - 1) * W /\ r + W = q /\ q <= p
            /\ (n \notin visited => q + W <= p)
      <3>1. c * W <= K * W /\ (n \notin visited => (c + 1) * W <= K * W)
        <4>1. c + 1 \in Nat
          OBVIOUS
        <4>2. QED
          BY <1>5, <1>7, <1>8, <4>1
      <3>2. (c + 1) * W = c * W + W /\ (c - 1) * W + W = c * W /\ (c - 1) * W \in Int
            /\ c * W \in Nat /\ K * W \in Nat
        BY <1>7, <1>9
      <3>3. QED
        BY <3>1, <3>2
    <2>2. dist[n] <= q /\ (n \in visited => dist[n] <= r)
      BY <1>6, <2>1
    <2>3. dist[n] + W <= p
      BY <1>2, <2>1, <2>2
    <2>4. QED
      BY <2>1, <2>3
  <1>11. dist[m] # Far
    <2>1. PICK p \in Nat : p = K * W
      BY <1>7, <1>9
    <2>2. dist[n] + W <= p /\ p < Far
      BY <1>1, <1>10, <2>1
    <2>3. dist[n] + network[n][m] < Far
      BY <1>2, <1>7, <2>2
    <2>4. QED
      BY <1>2, <1>4, <1>7, <2>3
  <1>12. QED
    BY <1>4, <1>11

\* Exactly the nodes that localBFS sees are reached.
LEMMA ReachedIsConnected ==
  ASSUME IsNetwork(network), SearchInv, Idle
  PROVE  \A n \in Nodes : dist[n] # Far <=> LocalBFS(network, source)[n] # Far
  <1>1. PICK w, u, f : w = network /\ u = source /\ f = LocalBFS(network, source)
    OBVIOUS
  <1>2. DOMAIN w = Nodes /\ u \in Nodes /\ dist[u] = 0 /\ Far \in Nat /\ 0 < Far
        /\ IsFiniteSet(DOMAIN w) /\ Cardinality(DOMAIN w) < Far
    BY <1>1, NodesFinite DEF IsNetwork, SearchInv, SearchTypeOK
  <1>3. IsHops(w, u, f)
    <2>1. f = LocalBFS(w, u)
      BY <1>1
    <2>2. QED
      BY <1>2, <2>1, Hops
  <1>4. /\ f[u] = 0 /\ \A n \in Nodes : f[n] \in Nat
        /\ \A n \in Nodes, m \in Nodes :
             f[n] # Far /\ m \in Neighbors(w, n) => f[m] # Far /\ f[m] <= f[n] + 1
        /\ \A n \in Nodes \ {u} : f[n] # Far =>
             \E p \in Nodes : n \in Neighbors(w, p) /\ f[p] # Far /\ f[n] = f[p] + 1
    BY <1>2, <1>3 DEF IsHops
  <1>5. \A n \in Nodes : dist[n] # Far => f[n] # Far
    <2> DEFINE C == {n \in Nodes : f[n] # Far}
    <2>1. C \in SUBSET Nodes /\ source \in C
      BY <1>1, <1>2, <1>4
    <2>2. NeighborsOf(network, C) \subseteq C
      <3> SUFFICES ASSUME NEW m \in NeighborsOf(network, C) PROVE m \in C
        OBVIOUS
      <3>1. PICK n \in C : m \in Neighbors(w, n)
        BY <1>1 DEF NeighborsOf
      <3>2. m \in Nodes
        BY <1>2, <3>1 DEF Neighbors
      <3>3. QED
        BY <1>4, <3>1, <3>2
    <2>3. \A n \in Nodes : dist[n] # Far => n \in C
      <3> HIDE DEF C
      <3>1. QED
        BY <2>1, <2>2 DEF SearchInv, Connects
    <2>4. QED
      BY <2>3
  <1>6. \A n \in Nodes : f[n] # Far => dist[n] # Far
    <2> DEFINE T == {k \in Nat : \E n \in Nodes : f[n] = k /\ k # Far /\ dist[n] = Far}
    <2>1. T = {}
      <3>1. SUFFICES ASSUME T # {} PROVE FALSE
        OBVIOUS
      <3>2. PICK k \in T : \A j \in T : k <= j
        <4>1. T \in SUBSET Nat
          OBVIOUS
        <4> HIDE DEF T
        <4>2. QED
          BY <3>1, <4>1, LeastNatural
      <3>3. PICK n \in Nodes : f[n] = k /\ k # Far /\ dist[n] = Far
        OBVIOUS
      <3>4. n # u
        BY <1>2, <3>3
      <3>5. PICK p \in Nodes : n \in Neighbors(w, p) /\ f[p] # Far /\ f[n] = f[p] + 1
        BY <1>4, <3>3, <3>4
      <3>6. f[p] \in Nat /\ ~ (k <= f[p])
        BY <1>4, <3>3, <3>5
      <3>7. dist[p] # Far
        BY <3>2, <3>5, <3>6
      <3>8. dist[n] # Far
        BY <1>1, <3>5, <3>7, ReachedClosed
      <3>9. QED
        BY <3>3, <3>8
    <2>2. QED
      BY <1>4, <2>1
  <1>7. QED
    BY <1>1, <1>5, <1>6

\* With equal weights no edge is a shortcut.
LEMMA EqualNoShortcut ==
  ASSUME IsNetwork(network), SearchInv, Idle, SameWeights(network)
  PROVE  \A n \in Nodes : \A m \in Neighbors(network, n) :
           /\ network[m][n] = network[n][m]
           /\ dist[n] # Far => dist[m] <= dist[n] + network[n][m]
  <1>1. PICK w, u : w = network /\ u = source
    OBVIOUS
  <1>2. /\ DOMAIN w = Nodes /\ w \in [Nodes -> [Nodes -> Nat]] /\ u \in Nodes
        /\ \A n, m \in Nodes : w[n][m] = w[m][n]
        /\ Far \in Nat /\ IsFiniteSet(Nodes)
    BY <1>1, NodesFinite DEF IsNetwork, SearchInv, SearchTypeOK
  <1>3. PICK c \in Nat \ {0} : EqualWeights(c)
    <2>1. CASE \E n, m \in Nodes : network[n][m] # 0
      <3>1. PICK x \in Nodes, y \in Nodes : network[x][y] # 0
        BY <2>1
      <3>2. network[x][y] \in Nat \ {0}
        BY <3>1 DEF IsNetwork
      <3>3. EqualWeights(network[x][y])
        <4> SUFFICES ASSUME NEW n \in Nodes, NEW m \in Nodes, network[n][m] # 0
                     PROVE  network[n][m] = network[x][y]
          BY DEF EqualWeights
        <4>1. network[n][m] \in Nat /\ network[n][m] > 0 /\ network[x][y] > 0
          BY <3>2 DEF IsNetwork
        <4>2. PICK a, b : a = <<n, m>> /\ b = <<x, y>>
          OBVIOUS
        <4>3. a \in Nodes \X Nodes /\ b \in Nodes \X Nodes
              /\ a[1] = n /\ a[2] = m /\ b[1] = x /\ b[2] = y
          BY <4>2
        <4>4. QED
          BY <1>1, <1>2, <4>1, <4>3 DEF SameWeights
      <3>4. QED
        BY <3>2, <3>3
    <2>2. CASE ~ \E n, m \in Nodes : network[n][m] # 0
      <3>1. EqualWeights(1)
        BY <2>2 DEF EqualWeights
      <3>2. QED
        BY <3>1
    <2>3. QED
      BY <2>1, <2>2
  <1>4. PICK D \in Nat : LayerAt(c, D)
    BY <1>3 DEF SearchInv, Layered
  <1>5. \A n \in Nodes : dist[n] # Far => \A m \in Neighbors(network, n) : dist[m] <= dist[n] + c
    BY <1>4 DEF LayerAt, Waits, Idle
  <1>6. \A n \in Nodes : \A m \in Neighbors(network, n) :
           m \in Nodes /\ network[n][m] = c /\ network[m][n] = c /\ n \in Neighbors(network, m)
    <2> SUFFICES ASSUME NEW n \in Nodes, NEW m \in Neighbors(network, n)
                 PROVE  m \in Nodes /\ network[n][m] = c /\ network[m][n] = c
                        /\ n \in Neighbors(network, m)
      OBVIOUS
    <2>1. m \in Nodes /\ network[n][m] > 0 /\ m # n
      BY <1>1, <1>2 DEF Neighbors
    <2>2. network[m][n] = network[n][m] /\ network[n][m] \in Nat
      BY <1>1, <1>2, <2>1
    <2>3. network[n][m] = c
      BY <1>3, <2>1, <2>2 DEF EqualWeights
    <2>4. QED
      BY <1>1, <1>2, <2>1, <2>2, <2>3 DEF Neighbors
  <1>7. QED
    BY <1>5, <1>6

\* With equal weights the distances are the shortest.
LEMMA EqualIsShortest ==
  ASSUME IsNetwork(network), SearchInv, Idle, SameWeights(network)
  PROVE  dist = Shortest(network, source)
  <1>1. PICK w, u, f : w = network /\ u = source /\ f = dist
    OBVIOUS
  <1>2. /\ DOMAIN w = Nodes /\ w \in [Nodes -> [Nodes -> Nat]] /\ u \in Nodes
        /\ \A n, m \in Nodes : w[n][m] = w[m][n]
        /\ Far \in Nat /\ IsFiniteSet(Nodes)
    BY <1>1, NodesFinite DEF IsNetwork, SearchInv, SearchTypeOK
  <1>6. \A n \in Nodes : \A m \in Neighbors(network, n) :
           n \in Neighbors(network, m) /\ m \in Nodes
           /\ (dist[n] # Far => dist[m] <= dist[n] + network[n][m])
    <2> SUFFICES ASSUME NEW n \in Nodes, NEW m \in Neighbors(network, n)
                 PROVE  n \in Neighbors(network, m) /\ m \in Nodes
                        /\ (dist[n] # Far => dist[m] <= dist[n] + network[n][m])
      OBVIOUS
    <2>1. n \in Neighbors(network, m) /\ m \in Nodes
      BY <1>1, <1>2 DEF Neighbors
    <2>2. QED
      BY <2>1, EqualNoShortcut
  <1>7. f \in [Nodes -> Nat] /\ f[u] = 0 /\ \A n \in Nodes : f[n] <= Far
    BY <1>1 DEF SearchInv, SearchTypeOK
  <1>8. \A n \in Nodes, m \in Nodes : n \in Neighbors(w, m) /\ f[m] # Far => f[n] <= f[m] + w[m][n]
    BY <1>1, <1>6
  <1>9. \A n \in Nodes \ {u} : f[n] # Far =>
          \E p \in Neighbors(w, n) : f[p] # Far /\ f[n] = f[p] + w[p][n]
    <2> SUFFICES ASSUME NEW n \in Nodes \ {u}, f[n] # Far
                 PROVE  \E p \in Neighbors(w, n) : f[p] # Far /\ f[n] = f[p] + w[p][n]
      OBVIOUS
    <2>1. /\ predecessor[n] \in Neighbors(network, n) /\ predecessor[n] \in visited
          /\ dist[n] = dist[predecessor[n]] + network[predecessor[n]][n]
      BY <1>1 DEF SearchInv, Tree
    <2>2. dist[predecessor[n]] # Far
      BY <2>1 DEF SearchInv, SearchTypeOK
    <2>3. QED
      BY <1>1, <2>1, <2>2
  <1>10. Explained(w, u, f)
    BY <1>2, <1>7, <1>8, <1>9 DEF Explained
  <1>11. f = Shortest(w, u)
    BY <1>2, <1>10, ExplainedIsShortest
  <1>12. QED
    BY <1>1, <1>11

\* What the callers of localDijkstra get.
LEMMA SearchLeadsBack ==
  ASSUME IsNetwork(network), SearchInv
  PROVE  WalksLeadBack
  <1> SUFFICES ASSUME Idle
               PROVE  /\ \A n \in Nodes : dist[n] # Far <=> LocalBFS(network, source)[n] # Far
                      /\ \A n \in Nodes \ {source} : dist[n] # Far =>
                           /\ predecessor[n] \in Neighbors(network, n)
                           /\ dist[n] = dist[predecessor[n]] + network[predecessor[n]][n]
                      /\ SameWeights(network) => dist = Shortest(network, source)
    BY DEF WalksLeadBack
  <1>1. \A n \in Nodes \ {source} : dist[n] # Far =>
          /\ predecessor[n] \in Neighbors(network, n)
          /\ dist[n] = dist[predecessor[n]] + network[predecessor[n]][n]
    BY DEF SearchInv, Tree
  <1>2. QED
    BY <1>1, ReachedIsConnected, EqualIsShortest

\* The descent finds the largest distance.
LEMMA SearchDiameter ==
  ASSUME IsNetwork(network), SearchInv
  PROVE  DiameterExact
  <1>1. PICK w, u : w = network /\ u = source
    OBVIOUS
  <1>2. /\ DOMAIN w = Nodes /\ w \in [Nodes -> [Nodes -> Nat]] /\ u \in Nodes
        /\ \A n, m \in Nodes : w[n][m] = w[m][n]
        /\ Far \in Nat /\ IsFiniteSet(DOMAIN w) /\ Cardinality(DOMAIN w) < Far
    BY <1>1, NodesFinite DEF IsNetwork, SearchInv, SearchTypeOK
  <1>3. Undirected(w)
    BY <1>2 DEF Undirected, Neighbors
  <1>4. LocalBlockDiameter(w, u, Cardinality(DOMAIN w)) = Max({Eccentricity(w, v) : v \in DOMAIN w})
    BY <1>2, <1>3, DiameterRight
  <1>5. QED
    BY <1>1, <1>2, <1>4 DEF DiameterExact

-----------------------------------------------------------------------------
(***************************************************************************)
(* The block graph in CSR form.                                            *)
(***************************************************************************)

\* o lists a set in the order R.
InOrder(R, S, o) ==
  /\ DOMAIN o = 1 .. Cardinality(S)
  /\ \A i \in DOMAIN o : o[i] \in S /\ Cardinality(Below(R, S, o[i])) = i - 1

\* The order of the integers.
Ascending == {e \in Int \X Int : e[1] < e[2]}

\* What a list in order does.
Lists(R, S, o) ==
  /\ \A i, j \in DOMAIN o : <<o[i], o[j]>> \in R <=> i < j
  /\ \A x \in S : \E i \in DOMAIN o : o[i] = x
  /\ \A T \in SUBSET S : (\A x \in T, y \in S : <<y, x>> \in R => y \in T) =>
       \A i \in DOMAIN o : o[i] \in T <=> i <= Cardinality(T)

\* What stands in order lists the set once, an initial part first.
LEMMA ListedInOrder ==
  ASSUME NEW S, IsFiniteSet(S), NEW R, Orders(R, S), NEW o, InOrder(R, S, o)
  PROVE  Lists(R, S, o)
  <1> DEFINE n == Cardinality(S)
             rank(x) == Cardinality(Below(R, S, x))
  <1>1. n \in Nat /\ DOMAIN o = 1 .. n
    BY FS_CardinalityType DEF InOrder
  <1>2. \A i \in DOMAIN o : o[i] \in S /\ rank(o[i]) = i - 1
    BY DEF InOrder
  <1>3. /\ \A x \in S : rank(x) \in 0 .. (n - 1)
        /\ \A x, y \in S : rank(x) = rank(y) => x = y
        /\ \A x, y \in S : <<x, y>> \in R => rank(x) < rank(y)
    BY Ranks
  <1> HIDE DEF n
  <1>4. ASSUME NEW i \in DOMAIN o, NEW j \in DOMAIN o PROVE <<o[i], o[j]>> \in R <=> i < j
    <2>1. o[i] \in S /\ o[j] \in S /\ rank(o[i]) = i - 1 /\ rank(o[j]) = j - 1
      BY <1>2
    <2>2. i \in Nat /\ j \in Nat
      BY <1>1
    <2>3. <<o[i], o[j]>> \in R => i < j
      <3>1. <<o[i], o[j]>> \in R => rank(o[i]) < rank(o[j])
        BY <1>3, <2>1
      <3> HIDE DEF rank
      <3>2. QED
        BY <2>1, <2>2, <3>1
    <2>4. <<o[j], o[i]>> \in R => j < i
      <3>1. <<o[j], o[i]>> \in R => rank(o[j]) < rank(o[i])
        BY <1>3, <2>1
      <3> HIDE DEF rank
      <3>2. QED
        BY <2>1, <2>2, <3>1
    <2>5. i < j => o[i] # o[j]
      <3> HIDE DEF rank
      <3>1. QED
        BY <2>1, <2>2
    <2>6. o[i] # o[j] => <<o[i], o[j]>> \in R \/ <<o[j], o[i]>> \in R
      BY <2>1 DEF Orders
    <2>7. QED
      BY <2>2, <2>3, <2>4, <2>5, <2>6
  <1>5. ASSUME NEW x \in S PROVE \E i \in DOMAIN o : o[i] = x
    <2>1. PICK i \in DOMAIN o : rank(x) = i - 1
      <3>1. rank(x) \in 0 .. (n - 1)
        BY <1>3
      <3> HIDE DEF rank
      <3>2. rank(x) + 1 \in DOMAIN o /\ rank(x) = (rank(x) + 1) - 1
        BY <1>1, <3>1
      <3>3. QED
        BY <3>2
    <2>2. o[i] \in S /\ rank(o[i]) = rank(x)
      BY <1>2, <2>1
    <2>3. o[i] = x
      BY <1>3, <2>2
    <2>4. QED
      BY <2>3
  <1>6. ASSUME NEW T \in SUBSET S, \A x \in T, y \in S : <<y, x>> \in R => y \in T,
               NEW i \in DOMAIN o
        PROVE  o[i] \in T <=> i <= Cardinality(T)
    <2>1. i \in Nat /\ o[i] \in S /\ rank(o[i]) = i - 1
      BY <1>1, <1>2
    <2>2. IsFiniteSet(T) /\ Cardinality(T) \in Nat
      BY FS_Subset, FS_CardinalityType
    <2> DEFINE B == Below(R, S, o[i])
    <2>3. B \in SUBSET S /\ o[i] \notin B /\ IsFiniteSet(B) /\ Cardinality(B) = i - 1
      <3>1. B \in SUBSET S /\ o[i] \notin B
        BY <2>1 DEF Below, Orders
      <3>2. QED
        BY <2>1, <3>1, FS_Subset
    <2>4. CASE o[i] \in T
      <3>1. B \cup {o[i]} \in SUBSET T
        BY <1>6, <2>4 DEF Below
      <3> HIDE DEF B
      <3>2. Cardinality(B \cup {o[i]}) = i
        <4>1. Cardinality(B \cup {o[i]}) = Cardinality(B) + 1
          BY <2>3, FS_AddElement
        <4>2. QED
          BY <2>1, <2>3, <4>1
      <3>3. Cardinality(B \cup {o[i]}) <= Cardinality(T)
        BY <2>2, <3>1, FS_Subset
      <3>4. QED
        BY <2>4, <3>2, <3>3
    <2>5. CASE o[i] \notin T
      <3>1. T \in SUBSET B
        <4> SUFFICES ASSUME NEW x \in T PROVE <<x, o[i]>> \in R
          BY DEF Below
        <4>1. x # o[i] /\ <<o[i], x>> \notin R /\ x \in S
          BY <1>6, <2>1, <2>5
        <4>2. QED
          BY <2>1, <4>1 DEF Orders
      <3> HIDE DEF B
      <3>2. Cardinality(T) <= i - 1
        BY <2>3, <3>1, FS_Subset
      <3>3. QED
        BY <2>1, <2>2, <2>5, <3>2
    <2>6. QED
      BY <2>4, <2>5
  <1>7. QED
    BY <1>4, <1>5, <1>6 DEF Lists

\* The integers are ordered.
LEMMA AscendingOrders ==
  ASSUME NEW S, S \subseteq Int
  PROVE  Orders(Ascending, S) /\ \A x \in S : Below(Ascending, S, x) = {y \in S : y < x}
  <1>1. \A x, y \in S : <<x, y>> \in Ascending <=> x < y
    BY DEF Ascending
  <1>2. \A x, y, z \in S : x < y /\ y < z => x < z
    OBVIOUS
  <1>3. \A x, y \in S : (x # y => x < y \/ y < x) /\ ~ (x < x)
    OBVIOUS
  <1>4. QED
    BY <1>1, <1>2, <1>3 DEF Orders, Below

\* The elements of a finite set of integers, in order.
LEMMA SortedAscends ==
  ASSUME NEW S, IsFiniteSet(S), S \subseteq Int
  PROVE  InOrder(Ascending, S, Sorted(S, <)) /\ Lists(Ascending, S, Sorted(S, <))
  <1> DEFINE n == Cardinality(S)
             Least(i) == CHOOSE x \in S : Cardinality({y \in S : y < x}) = i - 1
             o == [i \in 1 .. n |-> Least(i)]
  <1>1. Sorted(S, <) = o
    BY Zenon DEF Sorted
  <1>2. n \in Nat
    BY FS_CardinalityType
  <1>3. ASSUME NEW i \in 1 .. n
        PROVE  o[i] \in S /\ Cardinality(Below(Ascending, S, o[i])) = i - 1
    <2>1. PICK r \in 0 .. (n - 1) : r = i - 1
      BY <1>2
    <2>2. PICK x \in S : Cardinality(Below(Ascending, S, x)) = r
      <3>1. PICK R : R = Ascending
        OBVIOUS
      <3>2. Orders(R, S)
        BY <3>1, AscendingOrders
      <3>3. \A t \in 0 .. (Cardinality(S) - 1) : \E x \in S : Cardinality(Below(R, S, x)) = t
        BY ONLY IsFiniteSet(S), <3>2, Ranks
      <3>4. QED
        BY <3>1, <3>3
    <2>3. Cardinality({y \in S : y < x}) = i - 1
      BY <2>1, <2>2, AscendingOrders
    <2>4. Least(i) \in S /\ Cardinality({y \in S : y < Least(i)}) = i - 1
      BY <2>3
    <2> HIDE DEF Least
    <2>5. QED
      BY <2>4, AscendingOrders
  <1>4. InOrder(Ascending, S, o)
    <2>1. DOMAIN o = 1 .. n
      OBVIOUS
    <2> HIDE DEF o
    <2>2. QED
      BY <1>3, <2>1 DEF InOrder
  <1>5. QED
    BY <1>1, <1>4, AscendingOrders, ListedInOrder

\* The column of a place in the flat array.
LEMMA Column ==
  ASSUME NEW k \in Nat \ {0}, NEW b \in Nat, NEW x \in Nat, b * k <= x, x < b * k + k
  PROVE  x % k = x - b * k /\ x - b * k \in 0 .. (k - 1)
  <1>1. PICK p \in Nat : p = b * k
    OBVIOUS
  <1>2. PICK c \in 0 .. (k - 1) : x = p + c
    <2>1. x - p \in 0 .. (k - 1) /\ x = p + (x - p)
      BY <1>1
    <2>2. QED
      BY <2>1
  <1>3. (b * k + c) % k = c
    OBVIOUS
  <1>4. QED
    BY <1>1, <1>2, <1>3

\* Every place belongs to one row and one column.
LEMMA Place ==
  ASSUME NEW k \in Nat \ {0}, NEW b \in 0 .. (k - 1), NEW c \in 0 .. (k - 1)
  PROVE  /\ b * k + c \in 0 .. (k * k - 1) /\ (b * k + c) % k = c
         /\ (b + 1) * k = b * k + k /\ b * k \in Nat /\ b * k + k <= k * k
         /\ \A d \in 0 .. (k - 1), e \in 0 .. (k - 1) : d * k + e = b * k + c => d = b /\ e = c
  <1>1. (b + 1) * k = b * k + k /\ b * k \in Nat /\ k * k \in Nat
    OBVIOUS
  <1>2. b * k + k <= k * k
    <2>1. PICK d \in Nat : k = b + 1 + d
      <3>1. k - b - 1 \in Nat /\ k = b + 1 + (k - b - 1)
        OBVIOUS
      <3>2. QED
        BY <3>1
    <2>2. k * k = (b + 1) * k + d * k /\ d * k \in Nat
      BY <2>1
    <2>3. QED
      BY <1>1, <2>2
  <1>3. (b * k + c) % k = c
    OBVIOUS
  <1>4. ASSUME NEW d \in 0 .. (k - 1), NEW e \in 0 .. (k - 1), d * k + e = b * k + c
        PROVE  d = b /\ e = c
    <2>1. (d * k + e) % k = e
      OBVIOUS
    <2>2. e = c
      BY <1>3, <1>4, <2>1
    <2>3. d * k \in Nat
      OBVIOUS
    <2>4. d * k = b * k
      BY <1>1, <1>4, <2>2, <2>3
    <2>5. (d - b) * k = 0
      BY <2>4
    <2>6. QED
      BY <2>2, <2>5
  <1>5. b * k + c \in 0 .. (k * k - 1)
    BY <1>1, <1>2
  <1>6. QED
    BY <1>1, <1>2, <1>3, <1>4, <1>5

\* The arrays that FlatToCSR fills.
Positive(flat) == {i \in DOMAIN flat : flat[i] > 0}

RowStart(flat, k, r) == {i \in Positive(flat) : i < r * k}

CSROf(m, o, flat, k) ==
  /\ m.ia = [r \in 0 .. k |-> Cardinality(RowStart(flat, k, r))]
  /\ m.ja = [e \in DOMAIN o |-> o[e] % k]
  /\ m.values = [e \in DOMAIN o |-> flat[o[e]]]

\* flatToCSR in terms of the sorted places with a positive entry.
LEMMA FlatToCSRIs ==
  ASSUME NEW flat, NEW k
  PROVE  CSROf(FlatToCSR(flat, k), Sorted(Positive(flat), <), flat, k)
  <1> DEFINE o == Sorted(Positive(flat), <)
             m == [ia |-> [r \in 0 .. k |-> Cardinality({i \in DOMAIN flat :
                                                   flat[i] > 0 /\ i < r * k})],
                   ja |-> [e \in DOMAIN o |-> o[e] % k],
                   values |-> [e \in DOMAIN o |-> flat[o[e]]]]
  <1>1. FlatToCSR(flat, k) = m
    BY Zenon DEF FlatToCSR, Positive
  <1>2. \A r : {i \in DOMAIN flat : flat[i] > 0 /\ i < r * k} = RowStart(flat, k, r)
    BY DEF RowStart, Positive
  <1>3. m.ia = [r \in 0 .. k |-> Cardinality(RowStart(flat, k, r))]
    BY <1>2
  <1>4. m.ja = [e \in DOMAIN o |-> o[e] % k] /\ m.values = [e \in DOMAIN o |-> flat[o[e]]]
    OBVIOUS
  <1> HIDE DEF m, o
  <1>5. CSROf(m, o, flat, k)
    BY <1>3, <1>4 DEF CSROf
  <1>6. QED
    BY <1>1, <1>5 DEF o

\* An entry of the matrix is the counter at its place.
LEMMA CSRHolds ==
  ASSUME NEW k \in Nat \ {0}, NEW flat \in [0 .. (k * k - 1) -> Nat],
         NEW b \in 0 .. (k - 1), NEW c \in 0 .. (k - 1)
  PROVE  CSREntry(FlatToCSR(flat, k), b, c) = flat[b * k + c]
  <1> DEFINE S == Positive(flat)
             o == Sorted(S, <)
             x == b * k + c
  <1>1. PICK m : m = FlatToCSR(flat, k)
    OBVIOUS
  <1>2. CSROf(m, o, flat, k)
    BY <1>1, FlatToCSRIs
  <1>3. S \subseteq 0 .. (k * k - 1) /\ IsFiniteSet(S) /\ S \subseteq Int
        /\ \A i : i \in S <=> i \in 0 .. (k * k - 1) /\ flat[i] > 0
    <2>1. IsFiniteSet(0 .. (k * k - 1)) /\ k * k \in Nat
      BY FS_Interval
    <2>2. S \in SUBSET (0 .. (k * k - 1))
          /\ \A i : i \in S <=> i \in 0 .. (k * k - 1) /\ flat[i] > 0
      BY DEF Positive
    <2>3. IsFiniteSet(S)
      BY <2>1, <2>2, FS_Subset
    <2>4. QED
      BY <2>1, <2>2, <2>3
  <1>4. InOrder(Ascending, S, o) /\ Lists(Ascending, S, o)
    BY <1>3, SortedAscends
  <1>5. DOMAIN o = 1 .. Cardinality(S) /\ Cardinality(S) \in Nat /\ \A i \in DOMAIN o : o[i] \in S
    BY <1>3, <1>4, FS_CardinalityType DEF InOrder
  <1>6. /\ x \in 0 .. (k * k - 1) /\ x % k = c /\ b * k \in Nat
        /\ (b + 1) * k = b * k + k /\ b * k + k <= k * k
    BY Place
  <1> HIDE DEF S, o
  <1>7. ASSUME NEW r \in 0 .. k
        PROVE  /\ m.ia[r] \in Nat /\ m.ia[r] <= Cardinality(S)
               /\ \A i \in DOMAIN o : o[i] < r * k <=> i <= m.ia[r]
    <2> DEFINE T == RowStart(flat, k, r)
    <2>1. r * k \in Nat
      OBVIOUS
    <2>2. T \in SUBSET S /\ \A i : i \in T <=> i \in S /\ i < r * k
      BY DEF RowStart, S
    <2>3. m.ia[r] = Cardinality(T)
      BY <1>2 DEF CSROf
    <2> HIDE DEF T
    <2>4. \A i \in T, j \in S : <<j, i>> \in Ascending => j \in T
      <3> SUFFICES ASSUME NEW i \in T, NEW j \in S, <<j, i>> \in Ascending PROVE j < r * k
        BY <2>2
      <3>1. j < i /\ i < r * k /\ i \in Int /\ j \in Int
        BY <1>3, <2>2 DEF Ascending
      <3>2. QED
        BY <2>1, <3>1
    <2>5. \A i \in DOMAIN o : o[i] \in T <=> i <= Cardinality(T)
      BY <1>4, <2>2, <2>4 DEF Lists
    <2>6. QED
      BY <1>3, <1>5, <2>2, <2>3, <2>5, FS_Subset, FS_CardinalityType
  <1> DEFINE E == {e \in (m.ia[b] + 1) .. m.ia[b + 1] : m.ja[e] = c}
  <1>8. CSREntry(m, b, c) = Sum(m.values, E)
    <2>1. CSREntry(m, b, c) = WeightOf(m.values, E)
      BY Zenon DEF CSREntry, WeightOf
    <2>2. QED
      BY <2>1, WeightIsSum
  <1>9. ASSUME NEW e PROVE e \in E <=> e \in DOMAIN o /\ o[e] = x
    <2>1. b \in 0 .. k /\ b + 1 \in 0 .. k
      OBVIOUS
    <2>2. PICK lo \in Nat, hi \in Nat : lo = m.ia[b] /\ hi = m.ia[b + 1] /\ hi <= Cardinality(S)
      BY <1>7, <2>1
    <2>3. e \in E <=> e \in (lo + 1) .. hi /\ m.ja[e] = c
      BY <2>2
    <2> HIDE DEF E
    <2>4. e \in (lo + 1) .. hi => e \in DOMAIN o
      BY <1>5, <2>2
    <2>5. SUFFICES ASSUME e \in DOMAIN o
                   PROVE  e \in (lo + 1) .. hi /\ m.ja[e] = c <=> o[e] = x
      BY <2>3, <2>4
    <2>6. m.ja[e] = o[e] % k
      BY <1>2, <2>5 DEF CSROf
    <2>7. o[e] \in Nat /\ e \in Nat /\ e >= 1
      BY <1>3, <1>5, <2>5
    <2>8. e \in (lo + 1) .. hi <=> b * k <= o[e] /\ o[e] < b * k + k
      <3>1. o[e] < b * k <=> e <= lo
        BY <1>7, <2>1, <2>2, <2>5
      <3>2. o[e] < b * k + k <=> e <= hi
        BY <1>6, <1>7, <2>1, <2>2, <2>5
      <3>3. QED
        BY <1>6, <2>7, <3>1, <3>2
    <2>9. b * k <= o[e] /\ o[e] < b * k + k => o[e] % k = o[e] - b * k
      <3>1. PICK y \in Nat : y = o[e]
        BY <2>7
      <3>2. b \in Nat
        OBVIOUS
      <3>3. b * k <= y /\ y < b * k + k => y % k = y - b * k
        BY <3>2, Column
      <3>4. QED
        BY <3>1, <3>3
    <2>10. PICK p \in Nat : p = b * k
      BY <1>6
    <2>11. CASE p <= o[e] /\ o[e] < p + k
      <3>1. e \in (lo + 1) .. hi
        BY <2>8, <2>10, <2>11
      <3>2. m.ja[e] = o[e] - p
        BY <2>6, <2>9, <2>10, <2>11
      <3>3. x = p + c
        BY <2>10
      <3>4. o[e] - p = c <=> o[e] = p + c
        <4>1. PICK y \in Nat, z \in Nat : y = o[e] /\ z = c
          BY <2>7
        <4>2. y - p = z <=> y = p + z
          OBVIOUS
        <4>3. QED
          BY <4>1, <4>2
      <3>5. QED
        BY <3>1, <3>2, <3>3, <3>4
    <2>12. CASE ~ (p <= o[e] /\ o[e] < p + k)
      <3>1. e \notin (lo + 1) .. hi
        BY <2>8, <2>10, <2>12
      <3>2. x = p + c /\ p <= p + c /\ p + c < p + k
        BY <2>10
      <3>3. o[e] # x
        BY <2>12, <3>2
      <3>4. QED
        BY <3>1, <3>3
    <2>13. QED
      BY <2>11, <2>12
  <1> HIDE DEF E, x
  <1>10. CASE x \in S
    <2>1. PICK e \in DOMAIN o : o[e] = x
      BY <1>4, <1>10 DEF Lists
    <2>2. \A d \in DOMAIN o : o[d] = x => d = e
      <3> SUFFICES ASSUME NEW d \in DOMAIN o, o[d] = x PROVE d = e
        OBVIOUS
      <3>1. ~ (d < e) /\ ~ (e < d)
        <4>1. <<x, x>> \notin Ascending
          BY <1>3, <1>10 DEF Ascending
        <4>2. QED
          BY <1>4, <2>1, <4>1 DEF Lists
      <3>2. QED
        BY <1>5, <3>1
    <2>3. E = {e}
      BY <1>9, <2>1, <2>2
    <2>4. m.values[e] = flat[x]
      BY <1>2, <2>1 DEF CSROf
    <2>5. flat[x] \in Int
      BY <1>3, <1>10
    <2>6. Sum(m.values, {e}) = m.values[e]
      BY <2>4, <2>5, WeightSingle, WeightIsSum
    <2>7. QED
      BY <1>1, <1>8, <2>3, <2>4, <2>6 DEF x
  <1>11. CASE x \notin S
    <2>1. E = {}
      BY <1>5, <1>9, <1>11
    <2>2. flat[x] = 0
      <3>1. flat[x] \in Nat /\ ~ (flat[x] > 0)
        BY <1>3, <1>6, <1>11
      <3>2. QED
        BY <3>1
    <2>3. QED
      BY <1>1, <1>8, <2>1, <2>2, SumEmpty DEF x
  <1>12. QED
    BY <1>10, <1>11

-----------------------------------------------------------------------------
(***************************************************************************)
(* What the processes count, and what there is to count.                   *)
(***************************************************************************)

\* Sums in the notation of the measures.
LEMMA SumOfIsSum ==
  /\ \A f : SumOf(f) = Sum(f, DOMAIN f)
  /\ \A G, E : EntryWeights(G, E) = Sum(Weights(G.row, E), E)
  <1>1. ASSUME NEW f PROVE SumOf(f) = Sum(f, DOMAIN f)
    BY WeightIsSum DEF SumOf
  <1>2. ASSUME NEW G, NEW E PROVE EntryWeights(G, E) = Sum(Weights(G.row, E), E)
    <2>1. EntryWeights(G, E) = SumOf(Weights(G.row, E))
      BY DEF EntryWeights, Weights
    <2>2. DOMAIN Weights(G.row, E) = E
      BY DEF Weights
    <2>3. QED
      BY <1>1, <2>1, <2>2
  <1>3. QED
    BY <1>1, <1>2

\* A graph in its parts.
GraphIs(G, V) ==
  /\ V = DOMAIN G.row /\ IsFiniteSet(V) /\ V \subseteq Nat /\ V # {}
  /\ \A n, m \in V : G.row[n][m] \in Nat /\ G.row[n][m] = G.row[m][n]
  /\ \A n \in V : G.owner[n] \in PE /\ G.part[n] \in BlockIds /\ DOMAIN G.row[n] = V
  /\ DOMAIN G.owner = V /\ DOMAIN G.part = V

\* The parts of a graph in the form that the lemmas about sums ask for.
LEMMA GraphParts ==
  ASSUME NEW G, IsGraph(G)
  PROVE  GraphIs(G, DOMAIN G.row)
  <1>1. PICK V : V = DOMAIN G.row
    OBVIOUS
  <1>2. /\ IsFiniteSet(V) /\ V \subseteq Nat /\ V # {}
        /\ G \in [row : [V -> [V -> Nat]], owner : [V -> PE], part : [V -> BlockIds]]
        /\ \A n, m \in V : G.row[n][m] = G.row[m][n]
    BY <1>1 DEF IsGraph
  <1>3. G.row \in [V -> [V -> Nat]] /\ G.owner \in [V -> PE] /\ G.part \in [V -> BlockIds]
    BY <1>2
  <1>4. \A n \in V : G.row[n] \in [V -> Nat]
    BY <1>3
  <1>5. QED
    BY <1>1, <1>2, <1>3, <1>4 DEF GraphIs

\* The processes and the blocks.
LEMMA IndexSets ==
  /\ IsFiniteSet(PE) /\ IsFiniteSet(BlockIds) /\ Cardinality(BlockIds) = K
  /\ PE \subseteq Nat /\ BlockIds \subseteq Nat /\ 0 \in BlockIds /\ 0 \in PE
  <1>1. P \in Nat \ {0} /\ K \in Nat \ {0}
    BY SizesAssumption
  <1>2. QED
    BY <1>1, FS_Interval DEF PE, BlockIds

\* The row entries between different blocks.
CutAll(G) ==
  {e \in (DOMAIN G.row) \X (DOMAIN G.row) :
     G.row[e[1]][e[2]] > 0 /\ G.part[e[1]] # G.part[e[2]]}

\* A process sees the block of every neighbour of its nodes.
LEMMA HaloIsRight ==
  ASSUME NEW G, IsGraph(G), NEW p \in PE, NEW n \in Local(G, p), NEW m \in Neighbors(G.row, n)
  PROVE  NeighborBlock(G, p, m) = G.part[m]
  <1>1. G.owner[m] # p => m \in NonLocalNeighbors(G, p)
    BY DEF NonLocalNeighbors, NeighborsOf, Local
  <1>2. QED
    BY <1>1 DEF NeighborBlock, PartHalo

\* So it counts the entries of its own rows.
LEMMA CutEntriesAre ==
  ASSUME NEW G, IsGraph(G), NEW p \in PE
  PROVE  CutEntries(G, p) = {e \in CutAll(G) : G.owner[e[1]] = p}
  <1> DEFINE V == DOMAIN G.row
  <1>1. GraphIs(G, V)
    BY GraphParts
  <1> SUFFICES ASSUME NEW e
               PROVE  e \in CutEntries(G, p) <=> e \in CutAll(G) /\ G.owner[e[1]] = p
    OBVIOUS
  <1>2. CASE ~ (e \in V \X V /\ G.owner[e[1]] = p)
    BY <1>2 DEF CutEntries, CutAll, Local
  <1>3. CASE e \in V \X V /\ G.owner[e[1]] = p
    <2>1. PICK n \in V, m \in V : e[1] = n /\ e[2] = m /\ e = <<n, m>>
      BY <1>3
    <2>2. n \in Local(G, p)
      BY <1>3, <2>1 DEF Local
    <2>3. CASE m \in Neighbors(G.row, n)
      <3>1. NeighborBlock(G, p, m) = G.part[m]
        BY <2>2, <2>3, HaloIsRight
      <3>2. G.row[n][m] > 0
        BY <2>3 DEF Neighbors
      <3>3. e \in CutEntries(G, p) <=> G.part[m] # G.part[n]
        BY <2>1, <2>2, <2>3, <3>1 DEF CutEntries
      <3>4. e \in CutAll(G) <=> G.part[m] # G.part[n]
        BY <2>1, <3>2 DEF CutAll
      <3>5. QED
        BY <1>3, <3>3, <3>4
    <2>4. CASE m \notin Neighbors(G.row, n)
      <3>1. e \notin CutEntries(G, p)
        BY <2>1, <2>4 DEF CutEntries
      <3>2. e \notin CutAll(G)
        BY <2>1, <2>4 DEF CutAll, Neighbors
      <3>3. QED
        BY <3>1, <3>2
    <2>5. QED
      BY <2>3, <2>4
  <1>4. QED
    BY <1>2, <1>3

\* Entries have natural weights, and there are finitely many.
LEMMA CutAllType ==
  ASSUME NEW G, IsGraph(G), NEW E \in SUBSET CutAll(G)
  PROVE  /\ IsFiniteSet(E) /\ \A e \in E : Weights(G.row, E)[e] \in Nat
         /\ \A e \in E : /\ e[1] \in DOMAIN G.row /\ e[2] \in DOMAIN G.row /\ e = <<e[1], e[2]>>
                         /\ G.row[e[1]][e[2]] \in Nat \ {0} /\ G.part[e[1]] # G.part[e[2]]
                         /\ Weights(G.row, E)[e] = G.row[e[1]][e[2]]
  <1> DEFINE V == DOMAIN G.row
  <1>1. GraphIs(G, V)
    BY GraphParts
  <1>2. IsFiniteSet(E)
    <2>1. IsFiniteSet(V \X V)
      BY <1>1, FS_Product DEF GraphIs
    <2>2. E \in SUBSET (V \X V)
      BY DEF CutAll
    <2>3. QED
      BY <2>1, <2>2, FS_Subset
  <1>3. \A e \in E : /\ e[1] \in V /\ e[2] \in V /\ e = <<e[1], e[2]>>
                     /\ G.row[e[1]][e[2]] > 0 /\ G.part[e[1]] # G.part[e[2]]
    BY DEF CutAll
  <1>4. \A e \in E : G.row[e[1]][e[2]] \in Nat \ {0}
    BY <1>1, <1>3 DEF GraphIs
  <1>5. \A e \in E : Weights(G.row, E)[e] = G.row[e[1]][e[2]]
    BY DEF Weights
  <1>6. QED
    BY <1>2, <1>3, <1>4, <1>5

\* The processes share the entries out: their sums add up to the whole.
LEMMA ShareEntries ==
  ASSUME NEW G, IsGraph(G), NEW E \in SUBSET CutAll(G),
         NEW s, \A p \in PE : s[p] = EntryWeights(G, {e \in E : G.owner[e[1]] = p})
  PROVE  Sum(s, PE) = EntryWeights(G, E)
  <1> DEFINE f == Weights(G.row, E)
             part == [p \in PE |-> {e \in E : G.owner[e[1]] = p}]
  <1>1. IsFiniteSet(E) /\ \A e \in E : f[e] \in Int
    <2>1. IsFiniteSet(E) /\ \A e \in E : f[e] \in Nat
      BY CutAllType
    <2> HIDE DEF f
    <2>2. QED
      BY <2>1
  <1>2. \A p \in PE : s[p] = Sum(f, part[p])
    <2> SUFFICES ASSUME NEW p \in PE PROVE s[p] = Sum(f, part[p])
      OBVIOUS
    <2> DEFINE D == {e \in E : G.owner[e[1]] = p}
    <2>1. part[p] = D /\ D \in SUBSET E
      OBVIOUS
    <2>2. s[p] = Sum(Weights(G.row, D), D)
      BY SumOfIsSum
    <2>3. \A e \in D : Weights(G.row, D)[e] = f[e]
      BY DEF Weights
    <2>4. IsFiniteSet(D)
      BY <1>1, <2>1, FS_Subset
    <2> HIDE DEF D, f
    <2>5. Sum(Weights(G.row, D), D) = Sum(f, D)
      BY <2>3, <2>4, SumSame
    <2>6. QED
      BY <2>1, <2>2, <2>5
  <1>3. \A p \in PE : part[p] \in SUBSET E
    OBVIOUS
  <1>4. \A e \in E : \E p \in PE : e \in part[p]
    <2> SUFFICES ASSUME NEW e \in E PROVE \E p \in PE : e \in part[p]
      OBVIOUS
    <2>1. e[1] \in DOMAIN G.row
      BY CutAllType
    <2>2. G.owner[e[1]] \in PE
      BY <2>1, GraphParts DEF GraphIs
    <2>3. QED
      BY <2>2
  <1>5. \A p, q \in PE : p # q => part[p] \cap part[q] = {}
    OBVIOUS
  <1> HIDE DEF f, part
  <1>6. Sum(f, E) = Sum(s, PE)
    <2>1. PICK N : N = PE /\ IsFiniteSet(N)
      BY IndexSets
    <2>2. /\ \A p \in N : s[p] = Sum(f, part[p]) /\ part[p] \in SUBSET E
          /\ \A e \in E : \E p \in N : e \in part[p]
          /\ \A p, q \in N : p # q => part[p] \cap part[q] = {}
      BY <1>2, <1>3, <1>4, <1>5, <2>1
    <2>3. Sum(f, E) = Sum(s, N)
      BY ONLY <1>1, <2>1, <2>2, SumParts
    <2>4. QED
      BY <2>1, <2>3
  <1>7. QED
    BY <1>6, SumOfIsSum DEF f

\* A process's own entries as CutEntries lists them.
LEMMA OwnEntry ==
  ASSUME NEW G, IsGraph(G), NEW p \in PE, NEW e
  PROVE  e \in CutEntries(G, p) <=>
           e \in CutAll(G) /\ G.owner[e[1]] = p /\ NeighborBlock(G, p, e[2]) = G.part[e[2]]
  <1>1. e \in CutEntries(G, p) => e[1] \in Local(G, p) /\ e[2] \in Neighbors(G.row, e[1])
    BY DEF CutEntries
  <1>2. e \in CutEntries(G, p) => NeighborBlock(G, p, e[2]) = G.part[e[2]]
    BY <1>1, HaloIsRight
  <1>3. QED
    BY <1>2, CutEntriesAre

\* The row entries between two blocks.
Between(G, b, c) == {e \in CutAll(G) : G.part[e[1]] = b /\ G.part[e[2]] = c}

\* Their weights.
LEMMA BetweenIsCut ==
  ASSUME NEW G, IsGraph(G), NEW b, NEW c
  PROVE  EntryWeights(G, Between(G, b, c)) =
           IF b = c THEN 0
           ELSE CutBetween(G.row, {n \in DOMAIN G.row : G.part[n] = b},
                                  {n \in DOMAIN G.row : G.part[n] = c})
  <1> DEFINE V == DOMAIN G.row
             A == {n \in V : G.part[n] = b}
             B == {n \in V : G.part[n] = c}
  <1>1. GraphIs(G, V)
    BY GraphParts
  <1>2. IsFiniteSet(A) /\ IsFiniteSet(B)
    <2>1. A \in SUBSET V /\ B \in SUBSET V /\ IsFiniteSet(V)
      BY <1>1 DEF GraphIs
    <2> HIDE DEF A, B, V
    <2>2. QED
      BY <2>1, FS_Subset
  <1>3. CASE b = c
    <2>1. Between(G, b, c) = {}
      BY <1>3 DEF Between, CutAll
    <2>2. QED
      BY <1>3, <2>1, SumOfIsSum, SumEmpty
  <1>4. CASE b # c
    <2>1. Between(G, b, c) = CutEdges(G.row, A, B)
      <3>1. ASSUME NEW e PROVE e \in Between(G, b, c) <=> e \in CutEdges(G.row, A, B)
        <4>1. e \in Between(G, b, c) <=>
                e \in V \X V /\ G.row[e[1]][e[2]] > 0 /\ G.part[e[1]] = b /\ G.part[e[2]] = c
          BY <1>4 DEF Between, CutAll
        <4>2. e \in CutEdges(G.row, A, B) <=> e \in A \X B /\ G.row[e[1]][e[2]] > 0
          BY DEF CutEdges
        <4>3. e \in A \X B <=> e \in V \X V /\ G.part[e[1]] = b /\ G.part[e[2]] = c
          OBVIOUS
        <4>4. QED
          BY <4>1, <4>2, <4>3
      <3>2. QED
        BY <3>1
    <2>2. PICK D : D = CutEdges(G.row, A, B)
      OBVIOUS
    <2> HIDE DEF A, B
    <2>3. CutBetween(G.row, A, B) = Sum(Weights(G.row, D), D)
      BY <1>2, <2>2, CutIsSum
    <2>4. QED
      BY <1>4, <2>1, <2>2, <2>3, SumOfIsSum DEF A, B
  <1>5. QED
    BY <1>3, <1>4

\* What all processes count together.
Counters(G) ==
  [i \in 0 .. (K * K - 1) |-> SumOverPE(LAMBDA p : LocalBlockGraphEdges(G, p, K)[i])]

\* The entries that are counted at one place.
AtPlace(G, i) == {e \in CutAll(G) : G.part[e[1]] * K + G.part[e[2]] = i}

\* The counter at a place is the weight of the entries that belong there.
LEMMA Counted ==
  ASSUME NEW G, IsGraph(G), NEW i \in 0 .. (K * K - 1)
  PROVE  Counters(G)[i] = EntryWeights(G, AtPlace(G, i)) /\ Counters(G)[i] \in Nat
  <1> DEFINE E == AtPlace(G, i)
             s == [p \in PE |-> LocalBlockGraphEdges(G, p, K)[i]]
  <1>1. E \in SUBSET CutAll(G)
    BY DEF AtPlace
  <1>2. \A p \in PE : s[p] = EntryWeights(G, {e \in E : G.owner[e[1]] = p})
    <2> SUFFICES ASSUME NEW p \in PE PROVE s[p] = EntryWeights(G, {e \in E : G.owner[e[1]] = p})
      OBVIOUS
    <2> DEFINE F == {e \in CutEntries(G, p) :
                       FlatIndex(K, G.part[e[1]], NeighborBlock(G, p, e[2])) = i}
    <2>1. s[p] = EntryWeights(G, F)
      BY DEF LocalBlockGraphEdges
    <2>2. F = {e \in E : G.owner[e[1]] = p}
      <3> SUFFICES ASSUME NEW e PROVE e \in F <=> e \in E /\ G.owner[e[1]] = p
        OBVIOUS
      <3>1. e \in CutEntries(G, p) <=>
              e \in CutAll(G) /\ G.owner[e[1]] = p /\ NeighborBlock(G, p, e[2]) = G.part[e[2]]
        BY OwnEntry
      <3>2. e \in CutAll(G) /\ G.owner[e[1]] = p => e \in CutEntries(G, p)
        BY CutEntriesAre
      <3>3. e \in F <=> e \in CutEntries(G, p)
                       /\ G.part[e[1]] * K + NeighborBlock(G, p, e[2]) = i
        BY DEF FlatIndex
      <3>4. e \in E <=> e \in CutAll(G) /\ G.part[e[1]] * K + G.part[e[2]] = i
        BY DEF AtPlace
      <3> HIDE DEF E, F
      <3>5. QED
        BY <3>1, <3>2, <3>3, <3>4
    <2>3. QED
      BY <2>1, <2>2
  <1>3. Counters(G)[i] = SumOf(s)
    BY DEF Counters, SumOverPE
  <1>4. DOMAIN s = PE
    OBVIOUS
  <1> HIDE DEF s, E
  <1>5. Counters(G)[i] = EntryWeights(G, E)
    BY <1>1, <1>2, <1>3, <1>4, SumOfIsSum, ShareEntries
  <1>6. EntryWeights(G, E) \in Nat
    <2>1. IsFiniteSet(E) /\ \A e \in E : Weights(G.row, E)[e] \in Nat
      BY <1>1, CutAllType
    <2>2. QED
      BY <2>1, SumOfIsSum, SumPositive
  <1>7. QED
    BY <1>5, <1>6 DEF E

\* The counters are numbers, and two blocks have theirs where FlatIndex says.
LEMMA CountersAre ==
  ASSUME NEW G, IsGraph(G)
  PROVE  /\ Counters(G) \in [0 .. (K * K - 1) -> Nat]
         /\ \A b, c \in BlockIds : Counters(G)[b * K + c] = EntryWeights(G, Between(G, b, c))
  <1>1. Counters(G) = [i \in 0 .. (K * K - 1) |-> Counters(G)[i]]
    BY DEF Counters
  <1>2. Counters(G) \in [0 .. (K * K - 1) -> Nat]
    <2>1. \A i \in 0 .. (K * K - 1) : Counters(G)[i] \in Nat
      BY Counted
    <2>2. QED
      BY <1>1, <2>1
  <1>3. ASSUME NEW b \in BlockIds, NEW c \in BlockIds
        PROVE  Counters(G)[b * K + c] = EntryWeights(G, Between(G, b, c))
    <2>1. PICK k \in Nat \ {0} : k = K
      BY SizesAssumption
    <2>2. b \in 0 .. (k - 1) /\ c \in 0 .. (k - 1)
      BY <2>1 DEF BlockIds
    <2>3. /\ b * k + c \in 0 .. (k * k - 1)
          /\ \A d \in 0 .. (k - 1), e \in 0 .. (k - 1) : d * k + e = b * k + c => d = b /\ e = c
      BY <2>2, Place
    <2>4. AtPlace(G, b * K + c) = Between(G, b, c)
      <3> SUFFICES ASSUME NEW e \in CutAll(G)
                   PROVE  G.part[e[1]] * K + G.part[e[2]] = b * K + c <=>
                            G.part[e[1]] = b /\ G.part[e[2]] = c
        BY DEF AtPlace, Between
      <3>1. e[1] \in DOMAIN G.row /\ e[2] \in DOMAIN G.row
        BY DEF CutAll
      <3>2. G.part[e[1]] \in 0 .. (k - 1) /\ G.part[e[2]] \in 0 .. (k - 1)
        BY <2>1, <3>1, GraphParts DEF GraphIs, BlockIds
      <3>3. QED
        BY <2>1, <2>3, <3>2
    <2>5. QED
      BY <2>1, <2>3, <2>4, Counted
  <1>4. QED
    BY <1>2, <1>3

\* The counts of all processes.
CountsOf(G) == [p \in PE |-> LocalBlockGraphEdges(G, p, K)]

\* The block graph is made from the counters; its entries are the cuts between the blocks.
LEMMA BlockGraphRight ==
  ASSUME NEW G, IsGraph(G)
  PROVE  /\ GetBlockGraph(CountsOf(G), K) = FlatToCSR(Counters(G), K)
         /\ \A b, c \in BlockIds :
              CSREntry(GetBlockGraph(CountsOf(G), K), b, c) =
                IF b = c THEN 0
                ELSE CutBetween(G.row, {n \in DOMAIN G.row : G.part[n] = b},
                                       {n \in DOMAIN G.row : G.part[n] = c})
  <1>1. GetBlockGraph(CountsOf(G), K) = FlatToCSR(Counters(G), K)
    <2>1. \A i : SumOverPE(LAMBDA p : CountsOf(G)[p][i])
                   = SumOverPE(LAMBDA p : LocalBlockGraphEdges(G, p, K)[i])
      BY DEF SumOverPE, CountsOf
    <2>2. [i \in 0 .. (K * K - 1) |-> SumOverPE(LAMBDA p : CountsOf(G)[p][i])] = Counters(G)
      <3> DEFINE A(i) == SumOverPE(LAMBDA p : CountsOf(G)[p][i])
                 B(i) == SumOverPE(LAMBDA p : LocalBlockGraphEdges(G, p, K)[i])
      <3>1. \A i : A(i) = B(i)
        BY <2>1
      <3>2. Counters(G) = [i \in 0 .. (K * K - 1) |-> B(i)]
        BY DEF Counters
      <3> HIDE DEF A, B
      <3>3. [i \in 0 .. (K * K - 1) |-> A(i)] = [i \in 0 .. (K * K - 1) |-> B(i)]
        BY <3>1
      <3>4. QED
        BY <3>2, <3>3 DEF A
    <2>3. QED
      BY <2>2 DEF GetBlockGraph
  <1>2. ASSUME NEW b \in BlockIds, NEW c \in BlockIds
        PROVE  CSREntry(FlatToCSR(Counters(G), K), b, c) = EntryWeights(G, Between(G, b, c))
    <2>1. PICK k, f : k = K /\ f = Counters(G)
      OBVIOUS
    <2>2. k \in Nat \ {0} /\ b \in 0 .. (k - 1) /\ c \in 0 .. (k - 1)
          /\ f \in [0 .. (k * k - 1) -> Nat]
      BY <2>1, CountersAre, SizesAssumption DEF BlockIds
    <2>3. CSREntry(FlatToCSR(f, k), b, c) = f[b * k + c]
      BY <2>2, CSRHolds
    <2>4. QED
      BY <2>1, <2>3, CountersAre
  <1>3. ASSUME NEW b \in BlockIds, NEW c \in BlockIds
        PROVE  CSREntry(GetBlockGraph(CountsOf(G), K), b, c) =
                 IF b = c THEN 0
                 ELSE CutBetween(G.row, {n \in DOMAIN G.row : G.part[n] = b},
                                        {n \in DOMAIN G.row : G.part[n] = c})
    <2>1. CSREntry(GetBlockGraph(CountsOf(G), K), b, c) = EntryWeights(G, Between(G, b, c))
      BY <1>1, <1>2
    <2>2. QED
      BY <2>1, BetweenIsCut
  <1>4. QED
    BY <1>1, <1>3

\* Every cut edge has two entries, so the weight of all entries is even.
LEMMA EntriesPairUp ==
  ASSUME NEW G, IsGraph(G)
  PROVE  /\ EntryWeights(G, CutAll(G)) \in Nat
         /\ 2 * (EntryWeights(G, CutAll(G)) \div 2) = EntryWeights(G, CutAll(G))
  <1> DEFINE A == CutAll(G)
             f == Weights(G.row, A)
             U == {e \in A : G.part[e[1]] < G.part[e[2]]}
             D == {e \in A : G.part[e[2]] < G.part[e[1]]}
             b == [e \in U |-> <<e[2], e[1]>>]
  <1>1. /\ IsFiniteSet(A)
        /\ \A e \in A : f[e] \in Nat
        /\ \A e \in A : /\ e[1] \in DOMAIN G.row /\ e[2] \in DOMAIN G.row /\ e = <<e[1], e[2]>>
                        /\ G.row[e[1]][e[2]] \in Nat \ {0} /\ G.part[e[1]] # G.part[e[2]]
                        /\ f[e] = G.row[e[1]][e[2]]
    BY CutAllType
  <1>2. GraphIs(G, DOMAIN G.row)
    BY GraphParts
  <1>3. \A n \in DOMAIN G.row : G.part[n] \in Nat
    BY <1>2, IndexSets DEF GraphIs
  <1>4. A = U \cup D /\ U \cap D = {}
    <2>1. \A e \in A : G.part[e[1]] \in Nat /\ G.part[e[2]] \in Nat /\ G.part[e[1]] # G.part[e[2]]
      BY <1>1, <1>3
    <2> HIDE DEF A
    <2>2. QED
      BY <2>1
  <1>5. IsFiniteSet(U) /\ IsFiniteSet(D)
    <2>1. U \in SUBSET A /\ D \in SUBSET A
      OBVIOUS
    <2> HIDE DEF U, D, A
    <2>2. QED
      BY <1>1, <2>1, FS_Subset
  <1>6. \A e \in U : b[e] \in D /\ f[b[e]] = f[e]
    <2> SUFFICES ASSUME NEW e \in U PROVE b[e] \in D /\ f[b[e]] = f[e]
      OBVIOUS
    <2>1. PICK n \in DOMAIN G.row, m \in DOMAIN G.row :
            /\ e = <<n, m>> /\ G.row[n][m] > 0 /\ G.part[n] < G.part[m] /\ f[e] = G.row[n][m]
      BY <1>1
    <2>2. G.row[m][n] = G.row[n][m]
      BY <1>2 DEF GraphIs
    <2>3. <<m, n>> \in A /\ f[<<m, n>>] = G.row[m][n]
      <3>1. <<m, n>> \in A
        BY <1>3, <2>1, <2>2 DEF CutAll
      <3>2. QED
        BY <3>1 DEF Weights
    <2>4. b[e] = <<m, n>>
      BY <2>1
    <2>5. QED
      BY <2>1, <2>2, <2>3, <2>4
  <1>7. \A d \in D : \E e \in U : b[e] = d
    <2> SUFFICES ASSUME NEW d \in D PROVE \E e \in U : b[e] = d
      OBVIOUS
    <2>1. PICK n \in DOMAIN G.row, m \in DOMAIN G.row :
            /\ d = <<n, m>> /\ G.row[n][m] > 0 /\ G.part[m] < G.part[n]
      BY <1>1
    <2>2. G.row[m][n] = G.row[n][m]
      BY <1>2 DEF GraphIs
    <2>3. <<m, n>> \in U
      BY <1>3, <2>1, <2>2 DEF CutAll
    <2>4. b[<<m, n>>] = <<n, m>>
      BY <2>3
    <2>5. QED
      BY <2>1, <2>3, <2>4
  <1>8. \A x, y \in U : b[x] = b[y] => x = y
    <2> SUFFICES ASSUME NEW x \in U, NEW y \in U, b[x] = b[y] PROVE x = y
      OBVIOUS
    <2>1. x = <<x[1], x[2]>> /\ y = <<y[1], y[2]>>
      BY <1>1
    <2>2. b[x] = <<x[2], x[1]>> /\ b[y] = <<y[2], y[1]>>
      OBVIOUS
    <2>3. x[2] = y[2] /\ x[1] = y[1]
      BY <2>2
    <2>4. QED
      BY <2>1, <2>3
  <1>9. EntryWeights(G, A) = Sum(f, A)
    BY SumOfIsSum
  <1>10. \A e \in U \cup D : f[e] \in Int
    <2>1. \A e \in A : f[e] \in Int
      <3> HIDE DEF f, A
      <3>1. QED
        BY <1>1
    <2>2. QED
      BY <1>4, <2>1
  <1> HIDE DEF b, U, D, f, A
  <1>11. D = {b[e] : e \in U}
    BY <1>6, <1>7
  <1>12. Sum(f, U) = Sum(f, D)
    <2>1. PICK h : h = f
      OBVIOUS
    <2>2. \A x \in U : h[x] = f[b[x]] /\ h[x] \in Int
      BY <1>6, <1>10, <2>1
    <2>3. Sum(h, U) = Sum(f, {b[e] : e \in U})
      BY ONLY <1>5, <1>8, <2>2, SumRename
    <2>4. QED
      BY <1>11, <2>1, <2>3
  <1>13. Sum(f, U \cup D) = Sum(f, U) + Sum(f, D)
    BY <1>4, <1>5, <1>10, SumUnion
  <1>14. Sum(f, U) \in Nat
    <2>1. \A e \in U : f[e] \in Nat
      BY <1>1, <1>4
    <2>2. QED
      BY <1>5, <2>1, SumPositive
  <1>15. PICK x \in Nat : x = Sum(f, U)
    BY <1>14
  <1>16. EntryWeights(G, A) = 2 * x
    BY <1>4, <1>9, <1>12, <1>13, <1>15
  <1>17. (2 * x) \div 2 = x
    OBVIOUS
  <1>18. QED
    BY <1>16, <1>17 DEF A

\* The total of the block graph is the weight of all entries, which is twice the cut.
LEMMA TotalIsCut ==
  ASSUME NEW G, IsGraph(G)
  PROVE  /\ 2 * ComputeCut(G, TRUE) = EntryWeights(G, CutAll(G))
         /\ SumOf(FlatToCSR(Counters(G), K).values) = EntryWeights(G, CutAll(G))
  <1> DEFINE own == [p \in PE |-> EntryWeights(G, CutEntries(G, p))]
             A == CutAll(G)
  <1>1. ComputeCut(G, TRUE) = SumOf(own) \div 2
    BY DEF ComputeCut, SumOverPE
  <1>2. SumOf(own) = EntryWeights(G, A)
    <2>1. \A p \in PE : own[p] = EntryWeights(G, {e \in A : G.owner[e[1]] = p})
      BY CutEntriesAre
    <2>2. DOMAIN own = PE
      OBVIOUS
    <2>3. A \in SUBSET CutAll(G)
      OBVIOUS
    <2> HIDE DEF own
    <2>4. Sum(own, PE) = EntryWeights(G, A)
      BY <2>1, <2>3, ShareEntries
    <2>5. QED
      BY <2>2, <2>4, SumOfIsSum
  <1>3. 2 * ComputeCut(G, TRUE) = EntryWeights(G, A)
    BY <1>1, <1>2, EntriesPairUp
  <1> DEFINE n == K * K
             I == 0 .. (n - 1)
             flat == Counters(G)
             S == Positive(flat)
             o == Sorted(S, <)
             v == FlatToCSR(flat, K).values
  <1>4. n \in Nat /\ flat \in [I -> Nat] /\ DOMAIN flat = I
    BY CountersAre, SizesAssumption
  <1>5. S \in SUBSET I /\ IsFiniteSet(S) /\ IsFiniteSet(I) /\ S \subseteq Int
        /\ \A i \in I : i \notin S => flat[i] = 0
    <2>1. IsFiniteSet(I)
      BY <1>4, FS_Interval
    <2>2. S \in SUBSET I
      BY <1>4 DEF Positive
    <2>3. I \subseteq Int
      BY <1>4
    <2>4. \A i \in I : i \notin S => flat[i] = 0
      BY <1>4 DEF Positive
    <2> HIDE DEF S, I
    <2>5. QED
      BY <2>1, <2>2, <2>3, <2>4, FS_Subset
  <1>6. v = [e \in DOMAIN o |-> flat[o[e]]]
    BY FlatToCSRIs DEF CSROf
  <1>7. InOrder(Ascending, S, o) /\ Lists(Ascending, S, o)
    <2> HIDE DEF S
    <2>1. QED
      BY <1>5, SortedAscends
  <1>8. /\ \A i, j \in DOMAIN o : o[i] = o[j] => i = j
        /\ {o[e] : e \in DOMAIN o} = S
        /\ IsFiniteSet(DOMAIN o)
    <2>1. PICK c \in Nat : c = Cardinality(S)
      BY <1>5, FS_CardinalityType
    <2>2. DOMAIN o = 1 .. c /\ \A i \in DOMAIN o : o[i] \in S
      BY <1>7, <2>1 DEF InOrder
    <2>3. /\ \A i, j \in DOMAIN o : <<o[i], o[j]>> \in Ascending <=> i < j
          /\ \A x \in S : \E i \in DOMAIN o : o[i] = x
      BY <1>7 DEF Lists
    <2>4. \A x : <<x, x>> \notin Ascending
      BY DEF Ascending
    <2> HIDE DEF o, S
    <2>5. IsFiniteSet(DOMAIN o)
      BY <2>2, FS_Interval
    <2>6. \A i, j \in DOMAIN o : o[i] = o[j] => i = j
      <3> SUFFICES ASSUME NEW i \in DOMAIN o, NEW j \in DOMAIN o, o[i] = o[j] PROVE i = j
        OBVIOUS
      <3>1. ~ (i < j) /\ ~ (j < i)
        BY <2>3, <2>4
      <3>2. i \in Nat /\ j \in Nat
        BY <2>2
      <3>3. QED
        BY <3>1, <3>2
    <2>7. QED
      BY <2>2, <2>3, <2>5, <2>6
  <1>9. DOMAIN v = DOMAIN o /\ \A e \in DOMAIN o : v[e] = flat[o[e]] /\ v[e] \in Int
    <2>1. \A e \in DOMAIN o : o[e] \in S
      BY <1>7 DEF InOrder
    <2>2. \A i \in S : flat[i] \in Int
      BY <1>4, <1>5
    <2> HIDE DEF v, o, S, flat
    <2>3. QED
      BY <1>6, <2>1, <2>2
  <1>10. SumOf(v) = Sum(flat, S)
    <2> HIDE DEF v, o, S, flat
    <2>1. PICK D : D = DOMAIN o
      OBVIOUS
    <2>2. Sum(v, D) = Sum(flat, {o[e] : e \in D})
      BY ONLY <1>8, <1>9, <2>1, SumRename
    <2>3. QED
      BY <1>8, <1>9, <2>1, <2>2, SumOfIsSum
  <1>11. Sum(flat, S) = Sum(flat, I)
    <2> DEFINE Z == I \ S
    <2>1. \A i \in I : flat[i] \in Int
      BY <1>4
    <2> HIDE DEF flat, S, I
    <2>2. IsFiniteSet(Z) /\ S \cap Z = {} /\ I = S \cup Z /\ \A i \in Z : flat[i] = 0
      BY <1>5, FS_Difference
    <2> HIDE DEF Z
    <2>3. Sum(flat, Z) = 0
      BY <2>2, SumZero
    <2>4. Sum(flat, S \cup Z) = Sum(flat, S) + Sum(flat, Z)
      BY <1>5, <2>1, <2>2, SumUnion
    <2>5. Sum(flat, S) \in Int
      BY <1>5, <2>1, SumType
    <2>6. QED
      BY <2>2, <2>3, <2>4, <2>5
  <1>12. Sum(flat, I) = EntryWeights(G, A)
    <2> DEFINE f == Weights(G.row, A)
               part == [i \in I |-> AtPlace(G, i)]
    <2>1. IsFiniteSet(A) /\ \A e \in A : f[e] \in Int
      <3>1. IsFiniteSet(A) /\ \A e \in A : f[e] \in Nat
        BY CutAllType
      <3> HIDE DEF f, A
      <3>2. QED
        BY <3>1
    <2>2. \A i \in I : part[i] \in SUBSET A
      BY DEF AtPlace
    <2>3. \A e \in A : \E i \in I : e \in part[i]
      <3> SUFFICES ASSUME NEW e \in A PROVE \E i \in I : e \in part[i]
        OBVIOUS
      <3>1. PICK k \in Nat \ {0} : k = K
        BY SizesAssumption
      <3>2. e[1] \in DOMAIN G.row /\ e[2] \in DOMAIN G.row
        BY DEF CutAll
      <3>3. G.part[e[1]] \in 0 .. (k - 1) /\ G.part[e[2]] \in 0 .. (k - 1)
        BY <3>1, <3>2, GraphParts DEF GraphIs, BlockIds
      <3>4. G.part[e[1]] * k + G.part[e[2]] \in 0 .. (k * k - 1)
        BY <3>3, Place
      <3>5. G.part[e[1]] * K + G.part[e[2]] \in I
        BY <3>1, <3>4
      <3>6. PICK i \in I : i = G.part[e[1]] * K + G.part[e[2]]
        BY <3>5
      <3>7. e \in AtPlace(G, i)
        BY <3>6 DEF AtPlace
      <3>8. part[i] = AtPlace(G, i)
        OBVIOUS
      <3>9. QED
        BY <3>7, <3>8
    <2>4. \A i, j \in I : i # j => part[i] \cap part[j] = {}
      BY DEF AtPlace
    <2>5. \A i \in I : flat[i] = Sum(f, part[i])
      <3> SUFFICES ASSUME NEW i \in I PROVE flat[i] = Sum(f, part[i])
        OBVIOUS
      <3> DEFINE E == AtPlace(G, i)
      <3>1. flat[i] = Sum(Weights(G.row, E), E)
        BY Counted, SumOfIsSum
      <3>2. \A e \in E : Weights(G.row, E)[e] = f[e]
        BY DEF Weights, AtPlace
      <3>3. part[i] = E
        OBVIOUS
      <3>4. IsFiniteSet(E)
        BY <2>1, <2>2, <3>3, FS_Subset
      <3> HIDE DEF E, f, flat, part
      <3>5. Sum(Weights(G.row, E), E) = Sum(f, E)
        BY <3>2, <3>4, SumSame
      <3>6. QED
        BY <3>1, <3>3, <3>5
    <2>6. EntryWeights(G, A) = Sum(f, A)
      BY SumOfIsSum
    <2> HIDE DEF f, part, flat, I, A
    <2>7. PICK J : J = I
      OBVIOUS
    <2>8. /\ IsFiniteSet(J)
          /\ \A i \in J : part[i] \in SUBSET A /\ flat[i] = Sum(f, part[i])
          /\ \A e \in A : \E i \in J : e \in part[i]
          /\ \A i, j \in J : i # j => part[i] \cap part[j] = {}
      BY <1>5, <2>2, <2>3, <2>4, <2>5, <2>7
    <2>9. Sum(f, A) = Sum(flat, J)
      BY ONLY <2>1, <2>8, SumParts
    <2>10. QED
      BY <2>6, <2>7, <2>9
  <1>13. QED
    BY <1>3, <1>10, <1>11, <1>12

\* What a process counts between two blocks.
OwnBetween(G, p, b, c) == {e \in Between(G, b, c) : G.owner[e[1]] = p}

\* The process's entry for the two blocks.
OwnEdge(G, p, b, c) == <<b, c, EntryWeights(G, OwnBetween(G, p, b, c))>>

\* A process lists the pairs of blocks it has an edge between, with their weights.
LEMMA OwnBlockEdges ==
  ASSUME NEW G, IsGraph(G), NEW p \in PE, NEW x
  PROVE  x \in LocalBlockEdges(G, p) <=>
           \E b, c \in BlockIds : OwnBetween(G, p, b, c) # {} /\ x = OwnEdge(G, p, b, c)
  <1> DEFINE Pair(e) == <<G.part[e[1]], NeighborBlock(G, p, e[2])>>
             pairs == {Pair(e) : e \in CutEntries(G, p)}
             Edge(b) == <<b[1], b[2], EntryWeights(G, {e \in CutEntries(G, p) : Pair(e) = b})>>
  <1>1. LocalBlockEdges(G, p) = {Edge(b) : b \in pairs}
    BY DEF LocalBlockEdges
  <1>2. \A e \in CutEntries(G, p) :
          /\ e \in CutAll(G) /\ G.owner[e[1]] = p /\ Pair(e) = <<G.part[e[1]], G.part[e[2]]>>
          /\ G.part[e[1]] \in BlockIds /\ G.part[e[2]] \in BlockIds
    <2> SUFFICES ASSUME NEW e \in CutEntries(G, p)
                 PROVE  /\ e \in CutAll(G) /\ G.owner[e[1]] = p
                        /\ Pair(e) = <<G.part[e[1]], G.part[e[2]]>>
                        /\ G.part[e[1]] \in BlockIds /\ G.part[e[2]] \in BlockIds
      OBVIOUS
    <2>1. /\ e \in CutAll(G) /\ G.owner[e[1]] = p /\ NeighborBlock(G, p, e[2]) = G.part[e[2]]
      BY OwnEntry
    <2>2. e[1] \in DOMAIN G.row /\ e[2] \in DOMAIN G.row
      BY <2>1 DEF CutAll
    <2>3. G.part[e[1]] \in BlockIds /\ G.part[e[2]] \in BlockIds
      BY <2>2, GraphParts DEF GraphIs
    <2>4. QED
      BY <2>1, <2>3
  <1>3. ASSUME NEW b \in BlockIds, NEW c \in BlockIds
        PROVE  {e \in CutEntries(G, p) : Pair(e) = <<b, c>>} = OwnBetween(G, p, b, c)
    <2> SUFFICES ASSUME NEW e
                 PROVE  e \in CutEntries(G, p) /\ Pair(e) = <<b, c>>
                          <=> e \in OwnBetween(G, p, b, c)
      OBVIOUS
    <2>1. e \in OwnBetween(G, p, b, c) <=>
            e \in CutAll(G) /\ G.part[e[1]] = b /\ G.part[e[2]] = c /\ G.owner[e[1]] = p
      BY DEF OwnBetween, Between
    <2>2. e \in CutAll(G) /\ G.owner[e[1]] = p => e \in CutEntries(G, p)
      BY CutEntriesAre
    <2> HIDE DEF Pair
    <2>3. QED
      BY <1>2, <2>1, <2>2
  <1>4. ASSUME NEW b \in BlockIds, NEW c \in BlockIds
        PROVE  /\ Edge(<<b, c>>) = OwnEdge(G, p, b, c)
               /\ <<b, c>> \in pairs <=> OwnBetween(G, p, b, c) # {}
    <2>1. Edge(<<b, c>>) = OwnEdge(G, p, b, c)
      BY <1>3 DEF OwnEdge
    <2>2. <<b, c>> \in pairs <=> \E e \in CutEntries(G, p) : Pair(e) = <<b, c>>
      OBVIOUS
    <2> HIDE DEF Pair, pairs
    <2>3. QED
      BY <1>3, <2>1, <2>2
  <1>5. \A b \in pairs : \E c, d \in BlockIds : b = <<c, d>>
    BY <1>2
  <1>6. x \in LocalBlockEdges(G, p) <=> \E b \in pairs : x = Edge(b)
    BY <1>1
  <1> HIDE DEF Pair, pairs, Edge
  <1>7. ASSUME x \in LocalBlockEdges(G, p)
        PROVE  \E b, c \in BlockIds : OwnBetween(G, p, b, c) # {} /\ x = OwnEdge(G, p, b, c)
    <2>1. PICK d \in pairs : x = Edge(d)
      BY <1>6, <1>7
    <2>2. PICK b \in BlockIds, c \in BlockIds : d = <<b, c>>
      BY <1>5
    <2>3. QED
      BY <1>4, <2>1, <2>2
  <1>8. ASSUME NEW b \in BlockIds, NEW c \in BlockIds, OwnBetween(G, p, b, c) # {},
               x = OwnEdge(G, p, b, c)
        PROVE  x \in LocalBlockEdges(G, p)
    <2>1. <<b, c>> \in pairs /\ x = Edge(<<b, c>>)
      BY <1>4, <1>8
    <2>2. QED
      BY <1>6, <2>1
  <1>9. QED
    BY <1>7, <1>8

\* What the root gathers from the processes.
Gathered(G) == UNION {{<<p, e>> : e \in LocalBlockEdges(G, p)} : p \in PE}

\* The pairs of blocks with an edge between them.
LinkedBlocks(G) == {x \in BlockIds \X BlockIds : Between(G, x[1], x[2]) # {}}

\* The pairs the root knows of are those with an edge between them.
LEMMA GatheredPairs ==
  ASSUME NEW G, IsGraph(G)
  PROVE  /\ \A x : x \in Gathered(G) <=>
              \E p \in PE, b, c \in BlockIds :
                 OwnBetween(G, p, b, c) # {} /\ x = <<p, OwnEdge(G, p, b, c)>>
         /\ {<<x[2][1], x[2][2]>> : x \in Gathered(G)} = LinkedBlocks(G)
  <1>1. \A x : x \in Gathered(G) <=>
              \E p \in PE, b, c \in BlockIds :
                 OwnBetween(G, p, b, c) # {} /\ x = <<p, OwnEdge(G, p, b, c)>>
    <2> SUFFICES ASSUME NEW x
                 PROVE  x \in Gathered(G) <=>
                          \E p \in PE, b, c \in BlockIds :
                            OwnBetween(G, p, b, c) # {} /\ x = <<p, OwnEdge(G, p, b, c)>>
      OBVIOUS
    <2>1. x \in Gathered(G) <=> \E p \in PE : \E e \in LocalBlockEdges(G, p) : x = <<p, e>>
      BY DEF Gathered
    <2>2. \A p \in PE : \A e : e \in LocalBlockEdges(G, p) <=>
            \E b, c \in BlockIds : OwnBetween(G, p, b, c) # {} /\ e = OwnEdge(G, p, b, c)
      BY OwnBlockEdges
    <2>3. QED
      BY <2>1, <2>2
  <1>2. \A p \in PE, b, c \in BlockIds :
          OwnEdge(G, p, b, c)[1] = b /\ OwnEdge(G, p, b, c)[2] = c
    BY DEF OwnEdge
  <1>3. ASSUME NEW z
        PROVE  z \in {<<x[2][1], x[2][2]>> : x \in Gathered(G)} <=>
                 \E p \in PE, b, c \in BlockIds : OwnBetween(G, p, b, c) # {} /\ z = <<b, c>>
    <2>1. ASSUME NEW p \in PE, NEW b \in BlockIds, NEW c \in BlockIds,
                 OwnBetween(G, p, b, c) # {}
          PROVE  <<b, c>> \in {<<x[2][1], x[2][2]>> : x \in Gathered(G)}
      <3>1. PICK x : x = <<p, OwnEdge(G, p, b, c)>>
        OBVIOUS
      <3>2. x \in Gathered(G) /\ x[2][1] = b /\ x[2][2] = c
        BY <1>1, <1>2, <2>1, <3>1
      <3>3. QED
        BY <3>2
    <2>2. ASSUME NEW x \in Gathered(G)
          PROVE  \E p \in PE, b, c \in BlockIds :
                   OwnBetween(G, p, b, c) # {} /\ <<x[2][1], x[2][2]>> = <<b, c>>
      <3>1. PICK p \in PE, b \in BlockIds, c \in BlockIds :
              OwnBetween(G, p, b, c) # {} /\ x = <<p, OwnEdge(G, p, b, c)>>
        BY <1>1
      <3>2. x[2] = OwnEdge(G, p, b, c)
        BY <3>1
      <3>3. QED
        BY <1>2, <3>1, <3>2
    <2>3. QED
      BY <2>1, <2>2
  <1>4. \A b, c \in BlockIds :
          Between(G, b, c) # {} <=> \E p \in PE : OwnBetween(G, p, b, c) # {}
    <2> SUFFICES ASSUME NEW b \in BlockIds, NEW c \in BlockIds
                 PROVE  Between(G, b, c) # {} <=> \E p \in PE : OwnBetween(G, p, b, c) # {}
      OBVIOUS
    <2>1. \A e \in Between(G, b, c) : G.owner[e[1]] \in PE
      <3> SUFFICES ASSUME NEW e \in Between(G, b, c) PROVE G.owner[e[1]] \in PE
        OBVIOUS
      <3>1. e[1] \in DOMAIN G.row
        BY DEF Between, CutAll
      <3>2. QED
        BY <3>1, GraphParts DEF GraphIs
    <2>2. QED
      BY <2>1 DEF OwnBetween
  <1>5. \A z : z \in LinkedBlocks(G) <=>
                 \E b, c \in BlockIds : Between(G, b, c) # {} /\ z = <<b, c>>
    BY DEF LinkedBlocks
  <1>6. \A z : z \in {<<x[2][1], x[2][2]>> : x \in Gathered(G)} <=> z \in LinkedBlocks(G)
    BY <1>3, <1>4, <1>5
  <1>7. QED
    BY <1>1, <1>6

\* Whatever the processes share, the root adds up to the weight between two blocks.
LEMMA MergedIsWhole ==
  ASSUME NEW G, IsGraph(G), NEW b \in BlockIds, NEW c \in BlockIds
  PROVE  MergedWeight(Gathered(G), <<b, c>>) = EntryWeights(G, Between(G, b, c))
  <1> DEFINE M == {y \in Gathered(G) : <<y[2][1], y[2][2]>> = <<b, c>>}
             f == [x \in M |-> x[2][3]]
             Y == {p \in PE : OwnBetween(G, p, b, c) # {}}
             s == [p \in PE |-> EntryWeights(G, OwnBetween(G, p, b, c))]
             t == [p \in Y |-> <<p, OwnEdge(G, p, b, c)>>]
  <1>1. MergedWeight(Gathered(G), <<b, c>>) = Sum(f, M)
    <2>1. MergedWeight(Gathered(G), <<b, c>>) = SumOf(f)
      BY DEF MergedWeight
    <2>2. DOMAIN f = M
      OBVIOUS
    <2> HIDE DEF f, M
    <2>3. QED
      BY <2>1, <2>2, SumOfIsSum
  <1>2. \A p \in PE : s[p] \in Int
    <2> SUFFICES ASSUME NEW p \in PE PROVE s[p] \in Int
      OBVIOUS
    <2> DEFINE E == OwnBetween(G, p, b, c)
    <2>1. E \in SUBSET CutAll(G)
      BY DEF OwnBetween, Between
    <2>2. s[p] = EntryWeights(G, E)
      OBVIOUS
    <2> HIDE DEF E, s
    <2>3. IsFiniteSet(E) /\ \A e \in E : Weights(G.row, E)[e] \in Nat
      BY <2>1, CutAllType
    <2>4. Sum(Weights(G.row, E), E) \in Nat
      BY <2>3, SumPositive
    <2>5. s[p] \in Nat
      BY <2>2, <2>4, SumOfIsSum
    <2>6. QED
      BY <2>5
  <1>3. \A p \in PE \ Y : s[p] = 0
    <2> SUFFICES ASSUME NEW p \in PE \ Y PROVE s[p] = 0
      OBVIOUS
    <2>1. s[p] = EntryWeights(G, {})
      OBVIOUS
    <2> HIDE DEF s, Y
    <2>2. QED
      BY <2>1, SumOfIsSum, SumEmpty
  <1>4. \A p \in Y : t[p] \in M /\ f[t[p]] = s[p]
    <2> SUFFICES ASSUME NEW p \in Y PROVE t[p] \in M /\ f[t[p]] = s[p]
      OBVIOUS
    <2>1. t[p] \in Gathered(G)
      BY GatheredPairs
    <2>2. t[p][2] = OwnEdge(G, p, b, c)
      OBVIOUS
    <2>3. t[p][2][1] = b /\ t[p][2][2] = c /\ t[p][2][3] = s[p]
      BY <2>2 DEF OwnEdge
    <2> HIDE DEF t, s
    <2>4. QED
      BY <2>1, <2>3
  <1>5. \A x \in M : \E p \in Y : t[p] = x
    <2> SUFFICES ASSUME NEW x \in M PROVE \E p \in Y : t[p] = x
      OBVIOUS
    <2>1. PICK p \in PE, d \in BlockIds, e \in BlockIds :
            OwnBetween(G, p, d, e) # {} /\ x = <<p, OwnEdge(G, p, d, e)>>
      BY GatheredPairs
    <2>2. x[2] = OwnEdge(G, p, d, e)
      BY <2>1
    <2>3. x[2][1] = d /\ x[2][2] = e
      BY <2>2 DEF OwnEdge
    <2>4. d = b /\ e = c
      BY <2>3
    <2>5. QED
      BY <2>1, <2>4
  <1>6. \A p, q \in Y : t[p] = t[q] => p = q
    OBVIOUS
  <1>7. IsFiniteSet(PE) /\ Y \in SUBSET PE
    BY IndexSets
  <1> HIDE DEF t, s, Y, f, M
  <1>8. M = {t[p] : p \in Y}
    BY <1>4, <1>5
  <1>9. PICK R : R = PE
    OBVIOUS
  <1>10. /\ IsFiniteSet(Y) /\ IsFiniteSet(R \ Y) /\ Y \cap (R \ Y) = {} /\ R = Y \cup (R \ Y)
         /\ \A p \in Y \cup (R \ Y) : s[p] \in Int
    BY <1>2, <1>7, <1>9, FS_Subset, FS_Difference
  <1>11. Sum(s, Y) = Sum(f, {t[p] : p \in Y})
    <2>1. \A p \in Y : s[p] = f[t[p]] /\ s[p] \in Int
      BY <1>4, <1>10
    <2>2. QED
      BY ONLY <1>6, <1>10, <2>1, SumRename
  <1>12. Sum(s, R) = Sum(s, Y)
    <2>1. PICK Z : Z = R \ Y
      OBVIOUS
    <2>2. Sum(s, Y \cup Z) = Sum(s, Y) + Sum(s, Z)
      BY ONLY <1>10, <2>1, SumUnion
    <2>3. Sum(s, Z) = 0
      BY <1>3, <1>9, <1>10, <2>1, SumZero
    <2>4. Sum(s, Y) \in Int
      BY <1>10, SumType
    <2>5. QED
      BY <1>10, <2>1, <2>2, <2>3, <2>4
  <1>13. Sum(s, PE) = EntryWeights(G, Between(G, b, c))
    <2>1. PICK E : E = Between(G, b, c)
      OBVIOUS
    <2>2. E \in SUBSET CutAll(G)
      BY <2>1 DEF Between
    <2>3. \A p \in PE : s[p] = EntryWeights(G, {e \in E : G.owner[e[1]] = p})
      BY <2>1 DEF s, OwnBetween
    <2>4. QED
      BY <2>1, <2>2, <2>3, ShareEntries
  <1>14. QED
    BY <1>1, <1>8, <1>9, <1>11, <1>12, <1>13

\* A renaming keeps the number of elements.
LEMMA SameCount ==
  ASSUME NEW S, IsFiniteSet(S), NEW f, \A x, y \in S : f[x] = f[y] => x = y
  PROVE  /\ IsFiniteSet({f[x] : x \in S})
         /\ Cardinality({f[x] : x \in S}) = Cardinality(S)
  <1> DEFINE T == {f[x] : x \in S}
             h == [x \in S |-> f[x]]
  <1>1. h \in [S -> T] /\ \A x, y \in S : h[x] = h[y] => x = y
    OBVIOUS
  <1>2. \A t \in T : \E x \in S : h[x] = t
    OBVIOUS
  <1> HIDE DEF h, T
  <1>3. h \in Bijection(S, T)
    <2>1. h \in Injection(S, T)
      BY <1>1 DEF Injection, IsInjective
    <2>2. h \in Surjection(S, T)
      BY <1>1, <1>2 DEF Surjection
    <2>3. QED
      BY <2>1, <2>2 DEF Bijection
  <1>4. ExistsBijection(S, T)
    BY <1>3 DEF ExistsBijection
  <1>5. IsFiniteSet(T) /\ Cardinality(T) = Cardinality(S)
    BY <1>4, FS_Bijection
  <1>6. QED
    BY <1>5 DEF T

\* A renaming of T to the numbers in S that keeps the order R.
Carries(R, T, pl, S) ==
  /\ \A x \in T : pl[x] \in Int
  /\ \A x, y \in T : pl[x] = pl[y] => x = y
  /\ \A x, y \in T : <<x, y>> \in R <=> pl[x] < pl[y]
  /\ S = {pl[x] : x \in T}

\* What keeps the order keeps the places in it.
LEMMA OrderCarried ==
  ASSUME NEW T, IsFiniteSet(T), NEW R, NEW pl, NEW S, Carries(R, T, pl, S)
  PROVE  /\ IsFiniteSet(S) /\ S \subseteq Int /\ Cardinality(S) = Cardinality(T)
         /\ Orders(R, T)
         /\ \A x \in T : Cardinality(Below(R, T, x)) = Cardinality(Below(Ascending, S, pl[x]))
         /\ \A keys, o : InOrder(R, T, keys) /\ InOrder(Ascending, S, o) =>
               DOMAIN keys = DOMAIN o /\ \A i \in DOMAIN o : pl[keys[i]] = o[i]
  <1> USE DEF Carries
  <1>1. IsFiniteSet(S) /\ Cardinality(S) = Cardinality(T)
    BY SameCount
  <1>2. S \subseteq Int
    OBVIOUS
  <1>3. Orders(R, T)
    <2>1. \A x, y, z \in T : pl[x] < pl[y] /\ pl[y] < pl[z] => pl[x] < pl[z]
      OBVIOUS
    <2>2. \A x, y \in T : (x # y => pl[x] < pl[y] \/ pl[y] < pl[x]) /\ ~ (pl[x] < pl[x])
      OBVIOUS
    <2>3. QED
      BY <2>1, <2>2 DEF Orders
  <1>4. ASSUME NEW x \in T
        PROVE  Cardinality(Below(R, T, x)) = Cardinality(Below(Ascending, S, pl[x]))
    <2> DEFINE B == Below(R, T, x)
    <2>1. B \in SUBSET T
      BY DEF Below
    <2>2. IsFiniteSet(B)
      BY <2>1, FS_Subset
    <2>3. Below(Ascending, S, pl[x]) = {y \in S : y < pl[x]}
      <3>1. PICK v \in S : v = pl[x]
        OBVIOUS
      <3>2. Below(Ascending, S, v) = {y \in S : y < v}
        BY <1>2, AscendingOrders
      <3>3. QED
        BY <3>1, <3>2
    <2>4. {pl[y] : y \in B} = {y \in S : y < pl[x]}
      <3>1. \A y : y \in B <=> y \in T /\ pl[y] < pl[x]
        BY DEF Below
      <3> HIDE DEF B
      <3>2. QED
        BY <3>1
    <2> HIDE DEF B
    <2>5. Cardinality({pl[y] : y \in B}) = Cardinality(B)
      BY <2>1, <2>2, SameCount
    <2>6. QED
      BY <2>3, <2>4, <2>5 DEF B
  <1>5. ASSUME NEW keys, NEW o, InOrder(R, T, keys), InOrder(Ascending, S, o)
        PROVE  DOMAIN keys = DOMAIN o /\ \A i \in DOMAIN o : pl[keys[i]] = o[i]
    <2>1. DOMAIN keys = DOMAIN o
      BY <1>1, <1>5 DEF InOrder
    <2> SUFFICES ASSUME NEW i \in DOMAIN o PROVE pl[keys[i]] = o[i]
      BY <2>1
    <2>2. keys[i] \in T /\ Cardinality(Below(R, T, keys[i])) = i - 1
      BY <1>5, <2>1 DEF InOrder
    <2>3. o[i] \in S /\ Cardinality(Below(Ascending, S, o[i])) = i - 1
      BY <1>5 DEF InOrder
    <2>4. PICK x, y : x = pl[keys[i]] /\ y = o[i]
      OBVIOUS
    <2>5. x \in S /\ y \in S
      BY <2>2, <2>3, <2>4
    <2>6. Cardinality(Below(Ascending, S, x)) = Cardinality(Below(Ascending, S, y))
      BY <1>4, <2>2, <2>3, <2>4
    <2>7. PICK A : A = Ascending
      OBVIOUS
    <2>8. Orders(A, S)
      BY <1>2, <2>7, AscendingOrders
    <2>9. \A u, v \in S : Cardinality(Below(A, S, u)) = Cardinality(Below(A, S, v)) => u = v
      BY ONLY <1>1, <2>8, Ranks
    <2>10. x = y
      BY <2>5, <2>6, <2>7, <2>9
    <2>11. QED
      BY <2>4, <2>10
  <1>6. QED
    BY <1>1, <1>2, <1>3, <1>4, <1>5

\* Row by row, and in a row column by column.
LEMMA PlaceOrder ==
  ASSUME NEW k \in Nat \ {0}, NEW b \in 0 .. (k - 1), NEW c \in 0 .. (k - 1),
         NEW d \in 0 .. (k - 1), NEW e \in 0 .. (k - 1)
  PROVE  /\ b < d \/ (b = d /\ c < e) <=> b * k + c < d * k + e
         /\ \A r \in 0 .. k : b < r <=> b * k + c < r * k
  <1>1. \A r \in Nat : b < r => b * k + c < r * k
    <2> SUFFICES ASSUME NEW r \in Nat, b < r PROVE b * k + c < r * k
      OBVIOUS
    <2>1. PICK x \in Nat : r = b + 1 + x
      <3>1. r - b - 1 \in Nat /\ r = b + 1 + (r - b - 1)
        OBVIOUS
      <3>2. QED
        BY <3>1
    <2>2. r * k = b * k + k + x * k
      BY <2>1
    <2>3. x * k \in Nat /\ b * k \in Nat
      OBVIOUS
    <2>4. QED
      BY <2>2, <2>3
  <1>2. \A r \in Nat : r <= b => r * k <= b * k + c
    <2> SUFFICES ASSUME NEW r \in Nat, r <= b PROVE r * k <= b * k + c
      OBVIOUS
    <2>1. PICK x \in Nat : b = r + x
      <3>1. b - r \in Nat /\ b = r + (b - r)
        OBVIOUS
      <3>2. QED
        BY <3>1
    <2>2. b * k = r * k + x * k
      BY <2>1
    <2>3. x * k \in Nat /\ r * k \in Nat
      OBVIOUS
    <2>4. QED
      BY <2>2, <2>3
  <1>3. \A r \in 0 .. k : b < r <=> b * k + c < r * k
    <2> SUFFICES ASSUME NEW r \in 0 .. k PROVE b < r <=> b * k + c < r * k
      OBVIOUS
    <2>1. r \in Nat /\ r * k \in Nat /\ b * k \in Nat
      OBVIOUS
    <2>2. CASE b < r
      BY <1>1, <2>1, <2>2
    <2>3. CASE r <= b
      BY <1>2, <2>1, <2>3
    <2>4. QED
      BY <2>2, <2>3
  <1>4. b < d => b * k + c < d * k + e
    <2>1. b * k \in Nat /\ d * k \in Nat
      OBVIOUS
    <2>2. QED
      BY <1>1, <2>1
  <1>5. d < b => d * k + e < b * k + c
    <2>1. b * k \in Nat /\ d * k \in Nat
      OBVIOUS
    <2>2. d < b => d * k + k <= b * k
      <3> SUFFICES ASSUME d < b PROVE d * k + k <= b * k
        OBVIOUS
      <3>1. (d + 1) * k <= b * k + 0
        <4>1. PICK x \in Nat : b = (d + 1) + x
          <5>1. b - (d + 1) \in Nat /\ b = (d + 1) + (b - (d + 1))
            OBVIOUS
          <5>2. QED
            BY <5>1
        <4>2. b * k = (d + 1) * k + x * k
          BY <4>1
        <4>3. x * k \in Nat /\ (d + 1) * k \in Nat
          OBVIOUS
        <4>4. QED
          BY <4>2, <4>3
      <3>2. (d + 1) * k = d * k + k
        OBVIOUS
      <3>3. QED
        BY <2>1, <3>1, <3>2
    <2>3. QED
      BY <2>1, <2>2
  <1>6. b = d => (c < e <=> b * k + c < d * k + e)
    <2>1. b * k \in Nat
      OBVIOUS
    <2>2. QED
      BY <2>1
  <1>7. b * k \in Nat /\ d * k \in Nat
    OBVIOUS
  <1>8. b < d \/ (b = d /\ c < e) <=> b * k + c < d * k + e
    <2>1. CASE b < d
      BY <1>4, <2>1
    <2>2. CASE d < b
      BY <1>5, <1>7, <2>2
    <2>3. CASE b = d
      BY <1>6, <2>3
    <2>4. QED
      BY <2>1, <2>2, <2>3
  <1>9. QED
    BY <1>3, <1>8

\* The places of the pairs of blocks.
Places(G) == [x \in LinkedBlocks(G) |-> x[1] * K + x[2]]

\* The order of the pairs.
ByPair(G) == {e \in LinkedBlocks(G) \X LinkedBlocks(G) : LexLess(e[1], e[2])}

\* The pairs with an edge between them stand where the counters are positive.
LEMMA LinkedPlaces ==
  ASSUME NEW G, IsGraph(G)
  PROVE  /\ IsFiniteSet(LinkedBlocks(G))
         /\ \A x \in LinkedBlocks(G) : Places(G)[x] \in Int
         /\ \A x, y \in LinkedBlocks(G) : Places(G)[x] = Places(G)[y] => x = y
         /\ \A x, y \in LinkedBlocks(G) :
              <<x, y>> \in ByPair(G) <=> Places(G)[x] < Places(G)[y]
         /\ Positive(Counters(G)) = {Places(G)[x] : x \in LinkedBlocks(G)}
  <1> DEFINE T == LinkedBlocks(G)
             pl == Places(G)
             flat == Counters(G)
  <1>1. PICK k \in Nat \ {0} : k = K
    BY SizesAssumption
  <1>2. BlockIds = 0 .. (k - 1)
    BY <1>1 DEF BlockIds
  <1>3. T \in SUBSET (BlockIds \X BlockIds)
    BY DEF LinkedBlocks
  <1>4. IsFiniteSet(T)
    <2>1. IsFiniteSet(BlockIds \X BlockIds)
      BY IndexSets, FS_Product
    <2> HIDE DEF T
    <2>2. QED
      BY <1>3, <2>1, FS_Subset
  <1>5. \A x \in T : x[1] \in 0 .. (k - 1) /\ x[2] \in 0 .. (k - 1) /\ x = <<x[1], x[2]>>
                     /\ pl[x] = x[1] * k + x[2]
    <2>1. \A x \in T : pl[x] = x[1] * K + x[2]
      BY DEF Places
    <2> HIDE DEF pl, T
    <2>2. QED
      BY <1>1, <1>2, <1>3, <2>1
  <1>6. \A x \in T : pl[x] \in Int
    <2> SUFFICES ASSUME NEW x \in T PROVE pl[x] \in Int
      OBVIOUS
    <2>1. PICK b \in 0 .. (k - 1), c \in 0 .. (k - 1) : pl[x] = b * k + c
      BY <1>5
    <2>2. QED
      BY <2>1
  <1>7. ASSUME NEW x \in T, NEW y \in T
        PROVE  /\ pl[x] = pl[y] => x = y
               /\ <<x, y>> \in ByPair(G) <=> pl[x] < pl[y]
    <2>1. PICK b \in 0 .. (k - 1), c \in 0 .. (k - 1) :
            b = x[1] /\ c = x[2] /\ x = <<b, c>> /\ pl[x] = b * k + c
      BY <1>5
    <2>2. PICK d \in 0 .. (k - 1), e \in 0 .. (k - 1) :
            d = y[1] /\ e = y[2] /\ y = <<d, e>> /\ pl[y] = d * k + e
      BY <1>5
    <2>3. b * k + c = d * k + e => b = d /\ c = e
      BY Place
    <2>4. b < d \/ (b = d /\ c < e) <=> b * k + c < d * k + e
      BY PlaceOrder
    <2>5. <<x, y>> \in ByPair(G) <=> LexLess(x, y)
      BY DEF ByPair
    <2>6. LexLess(x, y) <=> b < d \/ (b = d /\ c < e)
      BY <2>1, <2>2 DEF LexLess
    <2>7. QED
      BY <2>1, <2>2, <2>3, <2>4, <2>5, <2>6
  <1>8. \A i : i \in Positive(flat) <=> i \in 0 .. (k * k - 1) /\ flat[i] > 0
    BY <1>1, CountersAre DEF Positive
  <1>9. ASSUME NEW E \in SUBSET CutAll(G)
        PROVE  EntryWeights(G, E) > 0 <=> E # {}
    <2>1. IsFiniteSet(E) /\ \A e \in E : Weights(G.row, E)[e] \in Nat
      BY CutAllType
    <2>2. \A e \in E : Weights(G.row, E)[e] > 0
      <3> SUFFICES ASSUME NEW e \in E PROVE Weights(G.row, E)[e] > 0
        OBVIOUS
      <3>1. Weights(G.row, E)[e] = G.row[e[1]][e[2]]
        BY DEF Weights
      <3>2. G.row[e[1]][e[2]] > 0
        BY DEF CutAll
      <3>3. QED
        BY <3>1, <3>2
    <2>3. Sum(Weights(G.row, E), E) > 0 <=> \E e \in E : Weights(G.row, E)[e] > 0
      BY <2>1, SumPositive
    <2>4. EntryWeights(G, E) = Sum(Weights(G.row, E), E)
      BY SumOfIsSum
    <2>5. QED
      BY <2>2, <2>3, <2>4
  <1>10. \A x \in T : pl[x] \in Positive(flat)
    <2> SUFFICES ASSUME NEW x \in T PROVE pl[x] \in Positive(flat)
      OBVIOUS
    <2>1. PICK b \in BlockIds, c \in BlockIds : x = <<b, c>> /\ Between(G, b, c) # {}
      BY DEF LinkedBlocks
    <2>2. b \in 0 .. (k - 1) /\ c \in 0 .. (k - 1) /\ pl[x] = b * k + c
      BY <1>2, <1>5, <2>1
    <2>3. b * k + c \in 0 .. (k * k - 1)
      BY <2>2, Place
    <2>4. flat[b * k + c] = EntryWeights(G, Between(G, b, c))
      BY <1>1, CountersAre
    <2>5. Between(G, b, c) \in SUBSET CutAll(G)
      BY DEF Between
    <2>6. QED
      BY <1>8, <1>9, <2>1, <2>2, <2>3, <2>4, <2>5
  <1>11. \A i \in Positive(flat) : \E x \in T : pl[x] = i
    <2> SUFFICES ASSUME NEW i \in Positive(flat) PROVE \E x \in T : pl[x] = i
      OBVIOUS
    <2>1. i \in 0 .. (K * K - 1) /\ flat[i] > 0
      BY <1>1, <1>8
    <2>2. flat[i] = EntryWeights(G, AtPlace(G, i))
      BY <2>1, Counted
    <2>3. PICK e \in AtPlace(G, i) : TRUE
      <3>1. AtPlace(G, i) \in SUBSET CutAll(G)
        BY DEF AtPlace
      <3>2. QED
        BY <1>9, <2>1, <2>2, <3>1
    <2>4. e \in CutAll(G) /\ G.part[e[1]] * K + G.part[e[2]] = i
      BY DEF AtPlace
    <2>5. PICK b \in BlockIds, c \in BlockIds : b = G.part[e[1]] /\ c = G.part[e[2]]
      <3>1. e[1] \in DOMAIN G.row /\ e[2] \in DOMAIN G.row
        BY <2>4 DEF CutAll
      <3>2. QED
        BY <3>1, GraphParts DEF GraphIs
    <2>6. e \in Between(G, b, c)
      BY <2>4, <2>5 DEF Between
    <2>7. <<b, c>> \in T
      BY <2>6 DEF LinkedBlocks
    <2>8. pl[<<b, c>>] = b * K + c
      BY <2>7 DEF Places
    <2>9. QED
      BY <2>4, <2>5, <2>7, <2>8
  <1> HIDE DEF T, pl, flat
  <1>12. Positive(flat) = {pl[x] : x \in T}
    BY <1>10, <1>11
  <1>13. QED
    BY <1>4, <1>6, <1>7, <1>12 DEF T, pl, flat

\* So the root lists them as the counters do.
LEMMA KeysAndPlaces ==
  ASSUME NEW G, IsGraph(G)
  PROVE  LET S    == Positive(Counters(G))
             keys == Sorted(LinkedBlocks(G), LexLess)
             o    == Sorted(S, <)
         IN  /\ InOrder(Ascending, S, o) /\ Lists(Ascending, S, o)
             /\ IsFiniteSet(S) /\ DOMAIN keys = DOMAIN o
             /\ \A i \in DOMAIN o : keys[i] \in LinkedBlocks(G) /\ Places(G)[keys[i]] = o[i]
  <1> DEFINE T == LinkedBlocks(G)
             S == Positive(Counters(G))
             o == Sorted(S, <)
             n == Cardinality(T)
             Least(i) == CHOOSE x \in T : Cardinality({y \in T : LexLess(y, x)}) = i - 1
             keys == [i \in 1 .. n |-> Least(i)]
  <1>1. Sorted(LinkedBlocks(G), LexLess) = keys
    BY Zenon DEF Sorted
  <1>2. PICK R, pl : R = ByPair(G) /\ pl = Places(G)
    OBVIOUS
  <1>3. /\ IsFiniteSet(T)
        /\ \A x \in T : pl[x] \in Int
        /\ \A x, y \in T : pl[x] = pl[y] => x = y
        /\ \A x, y \in T : <<x, y>> \in R <=> pl[x] < pl[y]
        /\ S = {pl[x] : x \in T}
    BY <1>2, LinkedPlaces
  <1>4. PICK TT, SS : TT = T /\ SS = S
    OBVIOUS
  <1>5. /\ IsFiniteSet(SS) /\ SS \subseteq Int /\ Orders(R, TT)
        /\ \A h, q : InOrder(R, TT, h) /\ InOrder(Ascending, SS, q) =>
              DOMAIN h = DOMAIN q /\ \A i \in DOMAIN q : pl[h[i]] = q[i]
    <2>1. IsFiniteSet(TT) /\ Carries(R, TT, pl, SS)
      BY <1>3, <1>4 DEF Carries
    <2>2. IsFiniteSet(SS) /\ SS \subseteq Int
      BY ONLY <2>1, OrderCarried
    <2>3. Orders(R, TT)
      BY ONLY <2>1, OrderCarried
    <2>4. \A h, q : InOrder(R, TT, h) /\ InOrder(Ascending, SS, q) =>
              DOMAIN h = DOMAIN q /\ \A i \in DOMAIN q : pl[h[i]] = q[i]
      BY ONLY <2>1, OrderCarried
    <2>5. QED
      BY <2>2, <2>3, <2>4
  <1>6. InOrder(Ascending, S, o) /\ Lists(Ascending, S, o)
    BY <1>4, <1>5, SortedAscends
  <1>7. n \in Nat
    BY <1>3, FS_CardinalityType
  <1>8. \A x \in T : Below(R, T, x) = {y \in T : LexLess(y, x)}
    BY <1>2 DEF Below, ByPair
  <1>9. ASSUME NEW i \in 1 .. n
        PROVE  keys[i] \in T /\ Cardinality(Below(R, T, keys[i])) = i - 1
    <2>1. PICK r \in 0 .. (n - 1) : r = i - 1
      BY <1>7
    <2>2. \A t \in 0 .. (Cardinality(TT) - 1) : \E x \in TT : Cardinality(Below(R, TT, x)) = t
      <3>1. IsFiniteSet(TT)
        BY <1>3, <1>4
      <3>2. QED
        BY ONLY <1>5, <3>1, Ranks
    <2>3. PICK x \in T : Cardinality(Below(R, T, x)) = r
      BY <1>4, <2>2
    <2>4. Cardinality({y \in T : LexLess(y, x)}) = i - 1
      BY <1>8, <2>1, <2>3
    <2>5. Least(i) \in T /\ Cardinality({y \in T : LexLess(y, Least(i))}) = i - 1
      BY <2>4
    <2> HIDE DEF Least, T
    <2>6. QED
      BY <1>8, <2>5
  <1>10. InOrder(R, T, keys)
    <2>1. DOMAIN keys = 1 .. n
      OBVIOUS
    <2> HIDE DEF keys
    <2>2. QED
      BY <1>9, <2>1 DEF InOrder
  <1>11. \A i \in DOMAIN keys : keys[i] \in T
    <2> HIDE DEF keys
    <2>1. QED
      BY <1>10 DEF InOrder
  <1> HIDE DEF keys, T, S, o
  <1>12. DOMAIN keys = DOMAIN o /\ \A i \in DOMAIN o : pl[keys[i]] = o[i]
    BY <1>4, <1>5, <1>6, <1>10
  <1>13. IsFiniteSet(S)
    BY <1>4, <1>5
  <1>14. /\ InOrder(Ascending, S, o) /\ Lists(Ascending, S, o)
         /\ IsFiniteSet(S) /\ DOMAIN keys = DOMAIN o
         /\ \A i \in DOMAIN o : keys[i] \in T /\ pl[keys[i]] = o[i]
    BY <1>6, <1>11, <1>12, <1>13
  <1>15. QED
    BY <1>1, <1>2, <1>14 DEF T, S, o

\* What the processes send to the root.
ListsOf(G) == [p \in PE |-> LocalBlockEdges(G, p)]

\* The gathered lists and the summed counters make the same block graph.
LEMMA GatheredGraph ==
  ASSUME NEW G, IsGraph(G)
  PROVE  GetBlockGraphDist(ListsOf(G), K) = FlatToCSR(Counters(G), K)
  <1> DEFINE flat == Counters(G)
             S == Positive(flat)
             o == Sorted(S, <)
             keys == Sorted(LinkedBlocks(G), LexLess)
             all == Gathered(G)
             Early(r) == {e \in DOMAIN keys : keys[e][1] < r}
  <1>1. PICK k \in Nat \ {0} : k = K
    BY SizesAssumption
  <1>2. UNION {{<<p, e>> : e \in ListsOf(G)[p]} : p \in PE} = all
    <2>1. \A p \in PE : ListsOf(G)[p] = LocalBlockEdges(G, p)
      BY DEF ListsOf
    <2>2. QED
      BY <2>1 DEF Gathered
  <1>3. {<<x[2][1], x[2][2]>> : x \in all} = LinkedBlocks(G)
    BY GatheredPairs
  <1>4. GetBlockGraphDist(ListsOf(G), K) =
          [ia     |-> [r \in 0 .. K |-> Cardinality(Early(r))],
           ja     |-> [e \in DOMAIN keys |-> keys[e][2]],
           values |-> [e \in DOMAIN keys |-> MergedWeight(all, keys[e])]]
    <2> DEFINE G0 == UNION {{<<p, e>> : e \in ListsOf(G)[p]} : p \in PE}
               keys0 == Sorted({<<x[2][1], x[2][2]>> : x \in G0}, LexLess)
    <2>1. GetBlockGraphDist(ListsOf(G), K) =
            [ia     |-> [r \in 0 .. K |-> Cardinality({e \in DOMAIN keys0 : keys0[e][1] < r})],
             ja     |-> [e \in DOMAIN keys0 |-> keys0[e][2]],
             values |-> [e \in DOMAIN keys0 |-> MergedWeight(G0, keys0[e])]]
      BY Zenon DEF GetBlockGraphDist
    <2>2. G0 = all /\ keys0 = keys
      BY <1>2, <1>3, Zenon
    <2> HIDE DEF G0, keys0, keys, all
    <2>3. QED
      BY <2>1, <2>2
  <1>5. /\ InOrder(Ascending, S, o) /\ Lists(Ascending, S, o)
        /\ IsFiniteSet(S) /\ DOMAIN keys = DOMAIN o
        /\ \A i \in DOMAIN o : keys[i] \in LinkedBlocks(G) /\ Places(G)[keys[i]] = o[i]
    BY KeysAndPlaces
  <1>6. \A x \in LinkedBlocks(G) :
          \E b, c \in 0 .. (k - 1) : /\ b \in BlockIds /\ c \in BlockIds /\ x = <<b, c>>
                                     /\ Places(G)[x] = b * k + c
    <2>1. \A x \in LinkedBlocks(G) :
            x \in BlockIds \X BlockIds /\ Places(G)[x] = x[1] * K + x[2]
      BY DEF Places, LinkedBlocks
    <2>2. BlockIds = 0 .. (k - 1)
      BY <1>1 DEF BlockIds
    <2>3. QED
      BY <1>1, <2>1, <2>2
  <1>7. ASSUME NEW i \in DOMAIN o
        PROVE  /\ keys[i][2] = o[i] % k
               /\ MergedWeight(all, keys[i]) = flat[o[i]]
               /\ \A r \in 0 .. k : keys[i][1] < r <=> o[i] < r * k
    <2>1. PICK b \in 0 .. (k - 1), c \in 0 .. (k - 1) :
            b \in BlockIds /\ c \in BlockIds /\ keys[i] = <<b, c>> /\ o[i] = b * k + c
      <3>1. keys[i] \in LinkedBlocks(G) /\ Places(G)[keys[i]] = o[i]
        BY <1>5
      <3> HIDE DEF keys, o
      <3>2. QED
        BY <1>6, <3>1
    <2>2. (b * k + c) % k = c
      BY Place
    <2>3. \A r \in 0 .. k : b < r <=> b * k + c < r * k
      BY PlaceOrder
    <2>4. MergedWeight(all, <<b, c>>) = EntryWeights(G, Between(G, b, c))
      BY <2>1, MergedIsWhole
    <2>5. flat[b * k + c] = EntryWeights(G, Between(G, b, c))
      BY <1>1, <2>1, CountersAre
    <2> HIDE DEF keys, o, flat, all
    <2>6. keys[i][1] = b /\ keys[i][2] = c
      BY <2>1
    <2>7. QED
      BY <2>1, <2>2, <2>3, <2>4, <2>5, <2>6
  <1>8. \A r \in 0 .. k : Cardinality(Early(r)) = Cardinality(RowStart(flat, k, r))
    <2> SUFFICES ASSUME NEW r \in 0 .. k
                 PROVE  Cardinality(Early(r)) = Cardinality(RowStart(flat, k, r))
      OBVIOUS
    <2>1. PICK E : E = Early(r)
      OBVIOUS
    <2>2. \A e : e \in E <=> e \in DOMAIN o /\ o[e] < r * k
      BY <1>5, <1>7, <2>1
    <2>3. PICK n \in Nat : n = Cardinality(S)
      BY <1>5, FS_CardinalityType
    <2>4. DOMAIN o = 1 .. n /\ \A i \in DOMAIN o : o[i] \in S
      BY <1>5, <2>3 DEF InOrder
    <2>5. /\ \A i, j \in DOMAIN o : <<o[i], o[j]>> \in Ascending <=> i < j
          /\ \A x \in S : \E i \in DOMAIN o : o[i] = x
      BY <1>5 DEF Lists
    <2>6. \A x : <<x, x>> \notin Ascending
      BY DEF Ascending
    <2>7. \A x : x \in RowStart(flat, k, r) <=> x \in S /\ x < r * k
      BY DEF RowStart
    <2> HIDE DEF o, S, keys, flat
    <2>8. IsFiniteSet(E)
      <3>1. E \in SUBSET (1 .. n)
        BY <2>2, <2>4
      <3>2. IsFiniteSet(1 .. n)
        BY FS_Interval
      <3>3. QED
        BY <3>1, <3>2, FS_Subset
    <2>9. \A x, y \in E : o[x] = o[y] => x = y
      <3> SUFFICES ASSUME NEW x \in E, NEW y \in E, o[x] = o[y] PROVE x = y
        OBVIOUS
      <3>1. x \in DOMAIN o /\ y \in DOMAIN o /\ x \in Nat /\ y \in Nat
        BY <2>2, <2>4
      <3>2. ~ (x < y) /\ ~ (y < x)
        BY <2>5, <2>6, <3>1
      <3>3. QED
        BY <3>1, <3>2
    <2>10. {o[e] : e \in E} = RowStart(flat, k, r)
      BY <2>2, <2>4, <2>5, <2>7
    <2>11. Cardinality({o[e] : e \in E}) = Cardinality(E)
      BY <2>8, <2>9, SameCount
    <2>12. QED
      BY <2>1, <2>10, <2>11
  <1>9. CSROf(FlatToCSR(flat, k), o, flat, k)
    BY FlatToCSRIs
  <1>10. FlatToCSR(flat, k) =
           [ia     |-> [r \in 0 .. k |-> Cardinality(RowStart(flat, k, r))],
            ja     |-> [e \in DOMAIN o |-> o[e] % k],
            values |-> [e \in DOMAIN o |-> flat[o[e]]]]
    <2>1. \E a, b, c : FlatToCSR(flat, k) = [ia |-> a, ja |-> b, values |-> c]
      BY Zenon DEF FlatToCSR
    <2> HIDE DEF flat, o
    <2>2. QED
      BY <1>9, <2>1 DEF CSROf
  <1> HIDE DEF keys, o, flat, all, Early, S
  <1>11. /\ [r \in 0 .. k |-> Cardinality(Early(r))]
              = [r \in 0 .. k |-> Cardinality(RowStart(flat, k, r))]
         /\ [e \in DOMAIN keys |-> keys[e][2]] = [e \in DOMAIN o |-> o[e] % k]
         /\ [e \in DOMAIN keys |-> MergedWeight(all, keys[e])] = [e \in DOMAIN o |-> flat[o[e]]]
    BY <1>5, <1>7, <1>8
  <1>12. GetBlockGraphDist(ListsOf(G), K) = FlatToCSR(flat, k)
    BY <1>1, <1>4, <1>10, <1>11
  <1>13. QED
    BY <1>1, <1>12 DEF flat

\* However it is built, the block graph holds the cuts, and its total is twice the cut.
LEMMA BlockGraphsDo ==
  ASSUME NEW G, IsGraph(G)
  PROVE  BlockGraphsAgree(G, GetBlockGraph(CountsOf(G), K), ListsOf(G))
  <1> DEFINE flat == GetBlockGraph(CountsOf(G), K)
             ref(b, c) == IF b = c THEN 0
                          ELSE CutBetween(G.row, {n \in DOMAIN G.row : G.part[n] = b},
                                                 {n \in DOMAIN G.row : G.part[n] = c})
  <1>1. flat = FlatToCSR(Counters(G), K)
        /\ \A b, c \in BlockIds : CSREntry(flat, b, c) = ref(b, c)
    BY BlockGraphRight
  <1>2. GetBlockGraphDist(ListsOf(G), K) = flat
    BY <1>1, GatheredGraph
  <1>3. 2 * ComputeCut(G, TRUE) = SumOf(flat.values)
    BY <1>1, TotalIsCut
  <1> HIDE DEF flat
  <1>4. BlockGraphsAgree(G, flat, ListsOf(G))
    BY <1>1, <1>2, <1>3, Zenon DEF BlockGraphsAgree
  <1>5. QED
    BY <1>4 DEF flat

\* A sum of ones and zeros counts the ones.
LEMMA SumCounts ==
  ASSUME NEW D, IsFiniteSet(D), NEW f, \A x \in D : f[x] \in {0, 1}
  PROVE  Sum(f, D) = Cardinality({x \in D : f[x] = 1})
  <1> DEFINE O == {x \in D : f[x] = 1}
             Z == {x \in D : f[x] = 0}
  <1>1. O \in SUBSET D /\ Z \in SUBSET D /\ O \cap Z = {} /\ D = O \cup Z
    OBVIOUS
  <1>2. /\ \A x \in O : f[x] \in Int /\ 1 <= f[x] /\ f[x] <= 1
        /\ \A x \in Z : f[x] = 0
        /\ \A x \in O \cup Z : f[x] \in Int
    OBVIOUS
  <1> HIDE DEF O, Z
  <1>3. IsFiniteSet(O) /\ IsFiniteSet(Z)
    BY <1>1, FS_Subset
  <1>4. PICK lo \in Int, hi \in Int : lo = 1 /\ hi = 1
    OBVIOUS
  <1>5. /\ Cardinality(O) \in Nat
        /\ Cardinality(O) * lo <= Sum(f, O) /\ Sum(f, O) <= Cardinality(O) * hi
    <2>1. \A x \in O : f[x] \in Int /\ lo <= f[x] /\ f[x] <= hi
      BY <1>2, <1>4
    <2>2. QED
      BY ONLY <1>3, <1>4, <2>1, SumBetween
  <1>6. Sum(f, O) \in Int
    BY <1>2, <1>3, SumType
  <1>7. Sum(f, O) = Cardinality(O)
    BY <1>4, <1>5, <1>6
  <1>8. Sum(f, Z) = 0
    BY <1>2, <1>3, SumZero
  <1>9. Sum(f, O \cup Z) = Sum(f, O) + Sum(f, Z)
    BY <1>1, <1>2, <1>3, SumUnion
  <1>10. Sum(f, D) = Cardinality(O)
    BY <1>1, <1>6, <1>7, <1>8, <1>9
  <1>11. QED
    BY <1>10 DEF O

\* A sum grows with its summands.
LEMMA SumMonotone ==
  ASSUME NEW D, IsFiniteSet(D), NEW f, NEW h,
         \A x \in D : f[x] \in Int /\ h[x] \in Int /\ f[x] <= h[x]
  PROVE  Sum(f, D) <= Sum(h, D)
  <1> DEFINE d == [x \in D |-> h[x] - f[x]]
  <1>1. \A x \in D : d[x] \in Nat /\ d[x] \in Int /\ h[x] = f[x] + d[x]
    OBVIOUS
  <1> HIDE DEF d
  <1>2. Sum(h, D) = Sum(f, D) + Sum(d, D)
    <2>1. \A x \in D : f[x] \in Int /\ d[x] \in Int /\ h[x] = f[x] + d[x]
      BY <1>1
    <2>2. QED
      BY <2>1, SumAdd
  <1>3. Sum(d, D) \in Nat
    BY <1>1, SumPositive
  <1>4. Sum(f, D) \in Int
    BY SumType
  <1>5. QED
    BY <1>2, <1>3, <1>4

\* An image has no more elements than what it is the image of.
LEMMA ImageCount ==
  ASSUME NEW S, IsFiniteSet(S), NEW f
  PROVE  /\ IsFiniteSet({f[x] : x \in S})
         /\ Cardinality({f[x] : x \in S}) <= Cardinality(S)
  <1> DEFINE T == {f[x] : x \in S}
             h == [x \in S |-> f[x]]
  <1>1. h \in [S -> T] /\ \A t \in T : \E x \in S : h[x] = t
    OBVIOUS
  <1>2. IsFiniteSet(T)
    BY FiniteImage
  <1> HIDE DEF h, T
  <1>3. h \in Surjection(S, T)
    BY <1>1 DEF Surjection
  <1>4. Cardinality(T) <= Cardinality(S)
    BY <1>2, <1>3, FS_Surjection
  <1>5. QED
    BY <1>2, <1>4 DEF T

\* Process p adds f up over its nodes of B.
SharesOut(G, B, f, s) ==
  /\ \A n \in B : f[n] \in Int
  /\ \A p \in PE : s[p] = Sum(f, {n \in B : G.owner[n] = p})

\* The processes share the nodes out.
LEMMA ShareNodes ==
  ASSUME NEW G, IsGraph(G), NEW B \in SUBSET DOMAIN G.row, NEW f, NEW s, SharesOut(G, B, f, s)
  PROVE  Sum(s, PE) = Sum(f, B)
  <1> DEFINE part == [p \in PE |-> {n \in B : G.owner[n] = p}]
  <1>1. IsFiniteSet(B)
    BY GraphParts, FS_Subset DEF GraphIs
  <1>2. PICK N : N = PE /\ IsFiniteSet(N)
    BY IndexSets
  <1>3. \A n \in B : \E p \in N : n \in part[p]
    <2>1. \A n \in B : G.owner[n] \in PE
      BY GraphParts DEF GraphIs
    <2>2. QED
      BY <1>2, <2>1
  <1>4. /\ \A p \in N : part[p] \in SUBSET B /\ s[p] = Sum(f, part[p])
        /\ \A p, q \in N : p # q => part[p] \cap part[q] = {}
        /\ \A n \in B : f[n] \in Int
    BY <1>2 DEF SharesOut
  <1> HIDE DEF part
  <1>5. Sum(f, B) = Sum(s, N)
    BY ONLY <1>1, <1>2, <1>3, <1>4, SumParts
  <1>6. QED
    BY <1>2, <1>5

\* The blocks around a node, other than its own.
Around(G, n) == {G.part[m] : m \in Neighbors(G.row, n)} \ {G.part[n]}

\* Its process knows them, and there are few.
LEMMA AroundIs ==
  ASSUME NEW G, IsGraph(G), NEW n \in DOMAIN G.row
  PROVE  /\ \A p \in PE : n \in Local(G, p) => OtherBlocks(G, p, n) = Around(G, n)
         /\ IsFiniteSet(Around(G, n)) /\ Cardinality(Around(G, n)) \in Nat
         /\ Cardinality(Around(G, n)) > 0 <=> Around(G, n) # {}
         /\ Cardinality(Around(G, n)) <= K - 1
         /\ Cardinality(Around(G, n)) <= GraphMaxDegree(G)
         /\ GraphMaxDegree(G) \in Nat
         /\ \A B : B = {m \in DOMAIN G.row : G.part[m] = G.part[n]} =>
              LET out == {m \in (DOMAIN G.row) \ B : G.row[n][m] > 0}
              IN  IsFiniteSet(out) /\ Cardinality(Around(G, n)) <= Cardinality(out)
  <1> DEFINE V == DOMAIN G.row
             A == Around(G, n)
  <1>1. GraphIs(G, V)
    BY GraphParts
  <1>2. ASSUME NEW p \in PE, n \in Local(G, p) PROVE OtherBlocks(G, p, n) = A
    <2>1. \A m \in Neighbors(G.row, n) : NeighborBlock(G, p, m) = G.part[m]
      BY <1>2, HaloIsRight
    <2>2. QED
      BY <2>1 DEF OtherBlocks, Around
  <1>3. \A m : m \in Neighbors(G.row, n) <=> m \in V /\ m # n /\ G.row[n][m] > 0
    BY DEF Neighbors
  <1>4. \A m \in V : IsFiniteSet(Neighbors(G.row, m))
    <2> SUFFICES ASSUME NEW m \in V PROVE IsFiniteSet(Neighbors(G.row, m))
      OBVIOUS
    <2>1. Neighbors(G.row, m) \in SUBSET V
      BY <1>1 DEF Neighbors, GraphIs
    <2>2. QED
      BY <1>1, <2>1, FS_Subset DEF GraphIs
  <1>5. A \in SUBSET (BlockIds \ {G.part[n]}) /\ G.part[n] \in BlockIds
    BY <1>1, <1>3 DEF Around, GraphIs
  <1>6. IsFiniteSet(A) /\ Cardinality(A) \in Nat /\ (Cardinality(A) > 0 <=> A # {})
    <2>1. IsFiniteSet(BlockIds \ {G.part[n]})
      BY IndexSets, FS_Difference
    <2> HIDE DEF A
    <2>2. IsFiniteSet(A)
      BY <1>5, <2>1, FS_Subset
    <2>3. Cardinality(A) \in Nat /\ (Cardinality(A) = 0 <=> A = {})
      BY <2>2, FS_CardinalityType, FS_EmptySet
    <2>4. QED
      BY <2>2, <2>3
  <1>7. Cardinality(A) <= K - 1
    <2>1. PICK D : D = BlockIds \ {G.part[n]}
      OBVIOUS
    <2>2. IsFiniteSet(D) /\ Cardinality(D) = K - 1
      BY <1>5, <2>1, IndexSets, FS_RemoveElement
    <2> HIDE DEF A
    <2>3. QED
      BY <1>5, <2>1, <2>2, FS_Subset
  <1>8. \A T : IsFiniteSet(T) /\ (\A m \in Neighbors(G.row, n) : G.part[m] # G.part[n] => m \in T)
           => Cardinality(A) <= Cardinality(T)
    <2> SUFFICES ASSUME NEW T, IsFiniteSet(T),
                        \A m \in Neighbors(G.row, n) : G.part[m] # G.part[n] => m \in T
                 PROVE  Cardinality(A) <= Cardinality(T)
      OBVIOUS
    <2>1. PICK I : I = {G.part[m] : m \in T}
      OBVIOUS
    <2>2. A \in SUBSET I
      BY <2>1 DEF Around
    <2>3. IsFiniteSet(I) /\ Cardinality(I) <= Cardinality(T)
      BY <2>1, ImageCount
    <2> HIDE DEF A
    <2>4. Cardinality(A) <= Cardinality(I)
      BY <2>2, <2>3, FS_Subset
    <2>5. Cardinality(I) \in Nat /\ Cardinality(T) \in Nat
      BY <2>3, FS_CardinalityType
    <2>6. QED
      BY <1>6, <2>3, <2>4, <2>5
  <1>9. Cardinality(A) <= Cardinality(Neighbors(G.row, n))
    BY <1>4, <1>8
  <1>10. /\ GraphMaxDegree(G) \in Nat
         /\ Cardinality(Neighbors(G.row, n)) <= GraphMaxDegree(G)
    <2> DEFINE deg == [m \in V |-> Cardinality(Neighbors(G.row, m))]
    <2>1. \A m \in V : deg[m] \in Nat
      BY <1>4, FS_CardinalityType
    <2>2. GraphMaxDegree(G) = Max({deg[m] : m \in V})
      BY DEF GraphMaxDegree
    <2>3. IsFiniteSet(V) /\ V # {}
      BY <1>1 DEF GraphIs
    <2>4. deg[n] = Cardinality(Neighbors(G.row, n))
      OBVIOUS
    <2>5. PICK D : D = V
      OBVIOUS
    <2> HIDE DEF deg, V
    <2>6. \A m \in D : deg[m] \in Int
      BY <2>1, <2>5
    <2>7. /\ \E m \in D : Max({deg[y] : y \in D}) = deg[m]
          /\ \A m \in D : deg[m] <= Max({deg[y] : y \in D})
      <3>1. IsFiniteSet(D) /\ D # {}
        BY <2>3, <2>5
      <3>2. QED
        BY ONLY <2>6, <3>1, ExtremeValues
    <2>8. n \in D
      BY <2>5 DEF V
    <2>9. QED
      BY <2>1, <2>2, <2>4, <2>5, <2>7, <2>8
  <1>11. ASSUME NEW B, B = {m \in V : G.part[m] = G.part[n]},
                NEW out, out = {m \in V \ B : G.row[n][m] > 0}
         PROVE  IsFiniteSet(out) /\ Cardinality(A) <= Cardinality(out)
    <2>1. IsFiniteSet(out)
      <3>1. out \in SUBSET V /\ IsFiniteSet(V)
        BY <1>1, <1>11 DEF GraphIs
      <3>2. QED
        BY <3>1, FS_Subset
    <2>2. \A m \in Neighbors(G.row, n) : G.part[m] # G.part[n] => m \in out
      BY <1>3, <1>11
    <2>3. QED
      BY <1>8, <2>1, <2>2
  <1>12. Cardinality(A) <= GraphMaxDegree(G)
    <2>1. Cardinality(Neighbors(G.row, n)) \in Nat
      BY <1>4, FS_CardinalityType
    <2>2. QED
      BY <1>6, <1>9, <1>10, <2>1
  <1>13. QED
    BY <1>2, <1>6, <1>7, <1>10, <1>11, <1>12

\* The volume of every node, and which nodes lie on a border.
VolumeAt(G) == [n \in DOMAIN G.row |-> Cardinality(Around(G, n))]
OnBorder(G) == [n \in DOMAIN G.row |-> IF Around(G, n) # {} THEN 1 ELSE 0]
Inside(G)   == [n \in DOMAIN G.row |-> 1 - OnBorder(G)[n]]

NodesIn(G, b) == {n \in DOMAIN G.row : G.part[n] = b}

\* What one process counts of a block.
Counts(G, p, b, volume, border, inner) ==
  LET own == {n \in NodesIn(G, b) : G.owner[n] = p}
  IN  volume = Sum(VolumeAt(G), own) /\ border = Sum(OnBorder(G), own)
      /\ inner = Sum(Inside(G), own)

\* A process's nodes of a block, and those of its nodes that another block needs.
OwnNodes(G, p, b) == {n \in Local(G, p) : G.part[n] = b}
Needed(G, p) == {n \in Local(G, p) : VolumeOf(G, p, n) > 0}

\* Whichever way the nodes are counted.
LEMMA OwnCounts ==
  ASSUME NEW G, IsGraph(G), NEW p \in PE, NEW b \in BlockIds
  PROVE  /\ Counts(G, p, b, SumOf([n \in OwnNodes(G, p, b) |-> VolumeOf(G, p, n)]),
                   Cardinality({n \in OwnNodes(G, p, b) : OtherBlocks(G, p, n) # {}}),
                   Cardinality({n \in OwnNodes(G, p, b) : OtherBlocks(G, p, n) = {}}))
         /\ Counts(G, p, b,
                   SumOf([n \in {m \in Needed(G, p) : G.part[m] = b} |-> VolumeOf(G, p, n)]),
                   Cardinality({n \in OwnNodes(G, p, b) : n \in Needed(G, p)}),
                   Cardinality({n \in OwnNodes(G, p, b) : n \in Local(G, p) \ Needed(G, p)}))
  <1> DEFINE V == DOMAIN G.row
             vol == VolumeAt(G)
             bord == OnBorder(G)
             in == Inside(G)
             own == OwnNodes(G, p, b)
             on == Needed(G, p)
             far == {m \in on : G.part[m] = b}
  <1>1. GraphIs(G, V)
    BY GraphParts
  <1>2. own = {n \in NodesIn(G, b) : G.owner[n] = p} /\ own \in SUBSET V
    BY DEF NodesIn, Local, OwnNodes
  <1>3. IsFiniteSet(own)
    BY <1>1, <1>2, FS_Subset DEF GraphIs
  <1>4. \A n \in own : /\ OtherBlocks(G, p, n) = Around(G, n) /\ n \in Local(G, p)
                       /\ VolumeOf(G, p, n) = vol[n] /\ vol[n] \in Nat
                       /\ vol[n] > 0 <=> Around(G, n) # {}
    <2> SUFFICES ASSUME NEW n \in own
                 PROVE  /\ OtherBlocks(G, p, n) = Around(G, n) /\ n \in Local(G, p)
                        /\ VolumeOf(G, p, n) = vol[n] /\ vol[n] \in Nat
                        /\ vol[n] > 0 <=> Around(G, n) # {}
      OBVIOUS
    <2>1. n \in V /\ n \in Local(G, p)
      BY <1>2 DEF OwnNodes
    <2>2. OtherBlocks(G, p, n) = Around(G, n)
          /\ Cardinality(Around(G, n)) \in Nat
          /\ (Cardinality(Around(G, n)) > 0 <=> Around(G, n) # {})
      BY <2>1, AroundIs
    <2>3. vol[n] = Cardinality(Around(G, n))
      BY <2>1 DEF VolumeAt
    <2>4. QED
      BY <2>1, <2>2, <2>3 DEF VolumeOf
  <1>5. \A n \in own : /\ bord[n] = 1 <=> Around(G, n) # {}
                       /\ in[n] = 1 <=> Around(G, n) = {}
                       /\ bord[n] \in {0, 1} /\ in[n] \in {0, 1}
    <2> SUFFICES ASSUME NEW n \in own
                 PROVE  /\ bord[n] = 1 <=> Around(G, n) # {}
                        /\ in[n] = 1 <=> Around(G, n) = {}
                        /\ bord[n] \in {0, 1} /\ in[n] \in {0, 1}
      OBVIOUS
    <2>1. bord[n] = IF Around(G, n) # {} THEN 1 ELSE 0
      BY <1>2 DEF OnBorder
    <2>2. in[n] = 1 - bord[n]
      BY <1>2 DEF Inside
    <2> HIDE DEF bord, in
    <2>3. QED
      BY <2>1, <2>2
  <1> HIDE DEF vol, bord, in
  <1>6. SumOf([n \in own |-> VolumeOf(G, p, n)]) = Sum(vol, own)
    <2> DEFINE h == [n \in own |-> VolumeOf(G, p, n)]
    <2>1. DOMAIN h = own /\ \A n \in own : h[n] = vol[n]
      BY <1>4
    <2> HIDE DEF h
    <2>2. Sum(h, own) = Sum(vol, own)
      BY <1>3, <2>1, SumSame
    <2>3. SumOf(h) = Sum(vol, own)
      BY <2>1, <2>2, SumOfIsSum
    <2>4. QED
      BY <2>3 DEF h
  <1>7. Cardinality({n \in own : OtherBlocks(G, p, n) # {}}) = Sum(bord, own)
    <2>1. {n \in own : OtherBlocks(G, p, n) # {}} = {n \in own : bord[n] = 1}
      BY <1>4, <1>5
    <2>2. QED
      BY <1>3, <1>5, <2>1, SumCounts
  <1>8. Cardinality({n \in own : OtherBlocks(G, p, n) = {}}) = Sum(in, own)
    <2>1. {n \in own : OtherBlocks(G, p, n) = {}} = {n \in own : in[n] = 1}
      BY <1>4, <1>5
    <2>2. QED
      BY <1>3, <1>5, <2>1, SumCounts
  <1>9. far = {n \in own : vol[n] > 0} /\ \A n \in own : n \in on <=> vol[n] > 0
    BY <1>4 DEF OwnNodes, Needed
  <1>10. SumOf([n \in far |-> VolumeOf(G, p, n)]) = Sum(vol, own)
    <2> DEFINE h == [n \in far |-> VolumeOf(G, p, n)]
               Z == own \ far
    <2>1. far \in SUBSET own
      BY <1>9
    <2>2. DOMAIN h = far /\ \A n \in far : h[n] = vol[n]
      BY <1>4, <2>1
    <2>3. \A n \in own : vol[n] \in Int
      BY <1>4
    <2>4. \A n \in Z : vol[n] = 0
      BY <1>4, <1>9
    <2> HIDE DEF h, far
    <2>5. own = far \cup Z /\ far \cap Z = {} /\ IsFiniteSet(far) /\ IsFiniteSet(Z)
      BY <1>3, <2>1, FS_Subset, FS_Difference
    <2> HIDE DEF Z
    <2>6. Sum(vol, far \cup Z) = Sum(vol, far) + Sum(vol, Z)
      BY <2>3, <2>5, SumUnion
    <2>7. Sum(vol, Z) = 0
      BY <2>4, <2>5, SumZero
    <2>8. Sum(vol, far) \in Int
      BY <2>3, <2>5, SumType
    <2>9. Sum(h, far) = Sum(vol, far)
      BY <2>2, <2>5, SumSame
    <2>10. SumOf(h) = Sum(vol, own)
      BY <2>2, <2>5, <2>6, <2>7, <2>8, <2>9, SumOfIsSum
    <2>11. QED
      BY <2>10 DEF h
  <1>11. Cardinality({n \in own : n \in on}) = Sum(bord, own)
    <2>1. {n \in own : n \in on} = {n \in own : bord[n] = 1}
      BY <1>4, <1>5, <1>9
    <2>2. QED
      BY <1>3, <1>5, <2>1, SumCounts
  <1>12. Cardinality({n \in own : n \in Local(G, p) \ on}) = Sum(in, own)
    <2>1. {n \in own : n \in Local(G, p) \ on} = {n \in own : in[n] = 1}
      BY <1>4, <1>5, <1>9
    <2>2. QED
      BY <1>3, <1>5, <2>1, SumCounts
  <1>13. QED
    BY <1>2, <1>6, <1>7, <1>8, <1>10, <1>11, <1>12 DEF Counts, vol, bord, in

\* Over all processes.
LEMMA AllCounts ==
  ASSUME NEW G, IsGraph(G), NEW b \in BlockIds, NEW volume, NEW border, NEW inner,
         \A p \in PE : Counts(G, p, b, volume[p], border[p], inner[p])
  PROVE  /\ Sum(volume, PE) = Sum(VolumeAt(G), NodesIn(G, b))
         /\ Sum(border, PE) = Sum(OnBorder(G), NodesIn(G, b))
         /\ Sum(inner, PE) = Sum(Inside(G), NodesIn(G, b))
  <1>1. PICK B : B = NodesIn(G, b)
    OBVIOUS
  <1>2. B \in SUBSET DOMAIN G.row
    BY <1>1 DEF NodesIn
  <1>3. \A n \in B : VolumeAt(G)[n] \in Int /\ OnBorder(G)[n] \in Int /\ Inside(G)[n] \in Int
    <2> SUFFICES ASSUME NEW n \in B
                 PROVE  /\ VolumeAt(G)[n] \in Int /\ OnBorder(G)[n] \in Int
                        /\ Inside(G)[n] \in Int
      OBVIOUS
    <2>1. VolumeAt(G)[n] = Cardinality(Around(G, n))
      BY <1>2 DEF VolumeAt
    <2>2. Cardinality(Around(G, n)) \in Nat
      BY <1>2, AroundIs
    <2>3. OnBorder(G)[n] \in {0, 1}
      BY <1>2 DEF OnBorder
    <2>4. Inside(G)[n] = 1 - OnBorder(G)[n]
      BY <1>2 DEF Inside
    <2>5. QED
      BY <2>1, <2>2, <2>3, <2>4
  <1>4. \A p \in PE : /\ volume[p] = Sum(VolumeAt(G), {n \in B : G.owner[n] = p})
                      /\ border[p] = Sum(OnBorder(G), {n \in B : G.owner[n] = p})
                      /\ inner[p] = Sum(Inside(G), {n \in B : G.owner[n] = p})
    BY <1>1 DEF Counts
  <1>5. PICK f, h, q : f = VolumeAt(G) /\ h = OnBorder(G) /\ q = Inside(G)
    OBVIOUS
  <1>6. Sum(volume, PE) = Sum(f, B)
    <2>1. SharesOut(G, B, f, volume)
      BY <1>3, <1>4, <1>5 DEF SharesOut
    <2>2. QED
      BY <1>2, <2>1, ShareNodes
  <1>7. Sum(border, PE) = Sum(h, B)
    <2>1. SharesOut(G, B, h, border)
      BY <1>3, <1>4, <1>5 DEF SharesOut
    <2>2. QED
      BY <1>2, <2>1, ShareNodes
  <1>8. Sum(inner, PE) = Sum(q, B)
    <2>1. SharesOut(G, B, q, inner)
      BY <1>3, <1>4, <1>5 DEF SharesOut
    <2>2. QED
      BY <1>2, <2>1, ShareNodes
  <1>9. QED
    BY <1>1, <1>5, <1>6, <1>7, <1>8

\* The edges from B to C, and how many of them start at each node.
LeadOut(w, B, C, E, outs) ==
  /\ E = {e \in B \X C : w[e[1]][e[2]] > 0}
  /\ \A n \in B : outs[n] = Cardinality({m \in C : w[n][m] > 0})

\* They are counted node by node.
LEMMA CountOut ==
  ASSUME NEW V, IsFiniteSet(V), NEW w, NEW B \in SUBSET V, NEW C \in SUBSET V,
         NEW E, NEW outs, LeadOut(w, B, C, E, outs)
  PROVE  IsFiniteSet(E) /\ Sum(outs, B) = Cardinality(E)
  <1> DEFINE one == [e \in E |-> 1]
             part == [n \in B |-> {e \in E : e[1] = n}]
  <1>0. /\ E = {e \in B \X C : w[e[1]][e[2]] > 0}
        /\ \A n \in B : outs[n] = Cardinality({m \in C : w[n][m] > 0})
    BY DEF LeadOut
  <1>1. IsFiniteSet(B) /\ IsFiniteSet(C)
    BY FS_Subset
  <1>2. IsFiniteSet(E)
    <2>1. IsFiniteSet(B \X C) /\ E \in SUBSET (B \X C)
      BY <1>0, <1>1, FS_Product
    <2>2. QED
      BY <2>1, FS_Subset
  <1>3. ASSUME NEW n \in B PROVE outs[n] = Sum(one, part[n])
    <2>1. PICK M : M = {m \in C : w[n][m] > 0}
      OBVIOUS
    <2> DEFINE b == [m \in M |-> <<n, m>>]
    <2>2. IsFiniteSet(M)
      <3>1. M \in SUBSET C
        BY <2>1
      <3>2. QED
        BY <1>1, <3>1, FS_Subset
    <2>3. \A m \in M : b[m] = <<n, m>>
      OBVIOUS
    <2>4. \A x, y \in M : b[x] = b[y] => x = y
      OBVIOUS
    <2>5. part[n] = {e \in E : e[1] = n}
      OBVIOUS
    <2>6. \A e \in E : e[1] = n => e[2] \in M /\ e = <<n, e[2]>>
      BY <1>0, <2>1
    <2>7. \A m \in M : <<n, m>> \in E /\ <<n, m>>[1] = n
      BY <1>0, <2>1
    <2> HIDE DEF b, part
    <2>8. {b[m] : m \in M} = part[n]
      <3>1. \A m \in M : b[m] \in part[n]
        BY <2>3, <2>5, <2>7
      <3>2. \A e \in part[n] : \E m \in M : b[m] = e
        BY <2>3, <2>5, <2>6
      <3>3. QED
        BY <3>1, <3>2
    <2>9. Cardinality(part[n]) = Cardinality(M) /\ IsFiniteSet(part[n])
      BY <2>2, <2>4, <2>8, SameCount
    <2>10. \A e \in part[n] : one[e] = 1
      BY <2>5
    <2>11. PICK D : D = part[n]
      OBVIOUS
    <2> HIDE DEF one
    <2>12. Sum(one, D) = Cardinality({e \in D : one[e] = 1})
      BY <2>9, <2>10, <2>11, SumCounts
    <2>13. {e \in D : one[e] = 1} = D
      BY <2>10, <2>11
    <2>14. QED
      BY <1>0, <2>1, <2>9, <2>11, <2>12, <2>13
  <1>4. /\ \A n \in B : part[n] \in SUBSET E
        /\ \A e \in E : \E n \in B : e \in part[n]
        /\ \A n, m \in B : n # m => part[n] \cap part[m] = {}
        /\ \A e \in E : one[e] \in Int /\ one[e] = 1
    BY <1>0
  <1> HIDE DEF part, one
  <1>5. Sum(one, E) = Sum(outs, B)
    BY ONLY <1>1, <1>2, <1>3, <1>4, SumParts
  <1>6. Sum(one, E) = Cardinality(E)
    <2>1. Sum(one, E) = Cardinality({e \in E : one[e] = 1})
      BY <1>2, <1>4, SumCounts
    <2>2. {e \in E : one[e] = 1} = E
      BY <1>4
    <2>3. QED
      BY <2>1, <2>2
  <1>7. QED
    BY <1>2, <1>5, <1>6

\* What the measures say of a block.
LEMMA MeasuresOf ==
  ASSUME NEW G, IsGraph(G), NEW b \in BlockIds
  PROVE  /\ CommBndInner(G)[b].volume = Sum(VolumeAt(G), NodesIn(G, b))
         /\ CommBndInner(G)[b].border = Sum(OnBorder(G), NodesIn(G, b))
         /\ CommBndInner(G)[b].inner = Sum(Inside(G), NodesIn(G, b))
         /\ CommVolume(G)[b] = Sum(VolumeAt(G), NodesIn(G, b))
         /\ NumBorderInnerNodes(G)[b].border = Sum(OnBorder(G), NodesIn(G, b))
         /\ NumBorderInnerNodes(G)[b].inner = Sum(Inside(G), NodesIn(G, b))
  <1> DEFINE v1 == [p \in PE |->
                     SumOf([n \in {m \in Needed(G, p) : G.part[m] = b} |-> VolumeOf(G, p, n)])]
             b1 == [p \in PE |-> Cardinality({n \in OwnNodes(G, p, b) : n \in Needed(G, p)})]
             i1 == [p \in PE |->
                     Cardinality({n \in OwnNodes(G, p, b) : n \in Local(G, p) \ Needed(G, p)})]
             v2 == [p \in PE |-> SumOf([n \in OwnNodes(G, p, b) |-> VolumeOf(G, p, n)])]
             b2 == [p \in PE |-> Cardinality({n \in OwnNodes(G, p, b) : OtherBlocks(G, p, n) # {}})]
             i2 == [p \in PE |-> Cardinality({n \in OwnNodes(G, p, b) : OtherBlocks(G, p, n) = {}})]
  <1>1. /\ CommBndInner(G)[b].volume = SumOf(v1)
        /\ CommBndInner(G)[b].border = SumOf(b1)
        /\ CommBndInner(G)[b].inner = SumOf(i1)
    <2> DEFINE count(p, c, S) == Cardinality({n \in Local(G, p) : G.part[n] = c /\ n \in S})
    <2>1. CommBndInner(G)[b] =
            [volume |-> SumOverPE(LAMBDA p :
                         SumOf([n \in {m \in Needed(G, p) : G.part[m] = b} |-> VolumeOf(G, p, n)])),
             border |-> SumOverPE(LAMBDA p : count(p, b, Needed(G, p))),
             inner  |-> SumOverPE(LAMBDA p : count(p, b, Local(G, p) \ Needed(G, p)))]
      BY DEF CommBndInner, Needed
    <2>2. SumOverPE(LAMBDA p :
                SumOf([n \in {m \in Needed(G, p) : G.part[m] = b} |-> VolumeOf(G, p, n)]))
            = SumOf(v1)
      BY DEF SumOverPE
    <2>3. \A p, S : count(p, b, S) = Cardinality({n \in OwnNodes(G, p, b) : n \in S})
      <3>1. \A p, S : {n \in Local(G, p) : G.part[n] = b /\ n \in S}
                        = {n \in OwnNodes(G, p, b) : n \in S}
        BY DEF OwnNodes
      <3>2. QED
        BY <3>1
    <2>4. SumOverPE(LAMBDA p : count(p, b, Needed(G, p))) = SumOf(b1)
      <3>1. SumOverPE(LAMBDA p : count(p, b, Needed(G, p)))
              = SumOf([p \in PE |-> count(p, b, Needed(G, p))])
        BY DEF SumOverPE
      <3>2. [p \in PE |-> count(p, b, Needed(G, p))] = b1
        BY <2>3
      <3>3. QED
        BY <3>1, <3>2
    <2>5. SumOverPE(LAMBDA p : count(p, b, Local(G, p) \ Needed(G, p))) = SumOf(i1)
      <3>1. SumOverPE(LAMBDA p : count(p, b, Local(G, p) \ Needed(G, p)))
              = SumOf([p \in PE |-> count(p, b, Local(G, p) \ Needed(G, p))])
        BY DEF SumOverPE
      <3>2. [p \in PE |-> count(p, b, Local(G, p) \ Needed(G, p))] = i1
        BY <2>3
      <3>3. QED
        BY <3>1, <3>2
    <2>6. QED
      BY <2>1, <2>2, <2>4, <2>5
  <1>2. CommVolume(G)[b] = SumOf(v2)
    BY DEF CommVolume, SumOverPE, OwnNodes
  <1>3. /\ NumBorderInnerNodes(G)[b].border = SumOf(b2)
        /\ NumBorderInnerNodes(G)[b].inner = SumOf(i2)
    <2> DEFINE border(p) == {n \in Local(G, p) : G.part[n] = b /\ OtherBlocks(G, p, n) # {}}
               inner(p)  == {n \in Local(G, p) : G.part[n] = b /\ OtherBlocks(G, p, n) = {}}
    <2>1. NumBorderInnerNodes(G)[b] =
            [border |-> SumOverPE(LAMBDA p : Cardinality(border(p))),
             inner  |-> SumOverPE(LAMBDA p : Cardinality(inner(p)))]
      BY DEF NumBorderInnerNodes
    <2>2. \A p : /\ border(p) = {n \in OwnNodes(G, p, b) : OtherBlocks(G, p, n) # {}}
                 /\ inner(p) = {n \in OwnNodes(G, p, b) : OtherBlocks(G, p, n) = {}}
      BY DEF OwnNodes
    <2>3. SumOverPE(LAMBDA p : Cardinality(border(p))) = SumOf(b2)
      <3>1. SumOverPE(LAMBDA p : Cardinality(border(p)))
              = SumOf([p \in PE |-> Cardinality(border(p))])
        BY DEF SumOverPE
      <3>2. [p \in PE |-> Cardinality(border(p))] = b2
        BY <2>2
      <3>3. QED
        BY <3>1, <3>2
    <2>4. SumOverPE(LAMBDA p : Cardinality(inner(p))) = SumOf(i2)
      <3>1. SumOverPE(LAMBDA p : Cardinality(inner(p)))
              = SumOf([p \in PE |-> Cardinality(inner(p))])
        BY DEF SumOverPE
      <3>2. [p \in PE |-> Cardinality(inner(p))] = i2
        BY <2>2
      <3>3. QED
        BY <3>1, <3>2
    <2>5. QED
      BY <2>1, <2>3, <2>4
  <1>4. \A p \in PE : Counts(G, p, b, v1[p], b1[p], i1[p]) /\ Counts(G, p, b, v2[p], b2[p], i2[p])
    <2> SUFFICES ASSUME NEW p \in PE
                 PROVE  Counts(G, p, b, v1[p], b1[p], i1[p]) /\ Counts(G, p, b, v2[p], b2[p], i2[p])
      OBVIOUS
    <2>1. QED
      BY OwnCounts
  <1>5. DOMAIN v1 = PE /\ DOMAIN b1 = PE /\ DOMAIN i1 = PE
        /\ DOMAIN v2 = PE /\ DOMAIN b2 = PE /\ DOMAIN i2 = PE
    OBVIOUS
  <1> HIDE DEF v1, b1, i1, v2, b2, i2
  <1>6. /\ SumOf(v1) = Sum(v1, PE) /\ SumOf(b1) = Sum(b1, PE) /\ SumOf(i1) = Sum(i1, PE)
        /\ SumOf(v2) = Sum(v2, PE) /\ SumOf(b2) = Sum(b2, PE) /\ SumOf(i2) = Sum(i2, PE)
    BY <1>5, SumOfIsSum
  <1>7. /\ Sum(v1, PE) = Sum(VolumeAt(G), NodesIn(G, b))
        /\ Sum(b1, PE) = Sum(OnBorder(G), NodesIn(G, b))
        /\ Sum(i1, PE) = Sum(Inside(G), NodesIn(G, b))
    BY <1>4, AllCounts
  <1>8. /\ Sum(v2, PE) = Sum(VolumeAt(G), NodesIn(G, b))
        /\ Sum(b2, PE) = Sum(OnBorder(G), NodesIn(G, b))
        /\ Sum(i2, PE) = Sum(Inside(G), NodesIn(G, b))
    BY <1>4, AllCounts
  <1>9. QED
    BY <1>1, <1>2, <1>3, <1>6, <1>7, <1>8

\* Node by node: what the sums of the measures are made of.
LEMMA NodeMeasures ==
  ASSUME NEW G, IsGraph(G), NEW b \in BlockIds, NEW n \in NodesIn(G, b)
  PROVE  /\ VolumeAt(G)[n] \in Nat /\ OnBorder(G)[n] \in {0, 1} /\ Inside(G)[n] \in {0, 1}
         /\ OnBorder(G)[n] + Inside(G)[n] = 1
         /\ OnBorder(G)[n] <= VolumeAt(G)[n]
         /\ GetBorderNodes(G)[n] = OnBorder(G)[n]
         /\ VolumeAt(G)[n] <=
              Cardinality({m \in (DOMAIN G.row) \ NodesIn(G, b) : G.row[n][m] > 0})
         /\ Min({K - 1, GraphMaxDegree(G)}) \in Nat
         /\ VolumeAt(G)[n] <= Min({K - 1, GraphMaxDegree(G)}) * OnBorder(G)[n]
  <1> DEFINE V == DOMAIN G.row
             B == NodesIn(G, b)
             A == Around(G, n)
  <1>1. n \in V /\ G.part[n] = b /\ B = {m \in V : G.part[m] = G.part[n]}
    BY DEF NodesIn
  <1>2. n \in Local(G, G.owner[n]) /\ G.owner[n] \in PE
    BY <1>1, GraphParts DEF GraphIs, Local
  <1>3. /\ OtherBlocks(G, G.owner[n], n) = A
        /\ Cardinality(A) \in Nat
        /\ Cardinality(A) > 0 <=> A # {}
        /\ Cardinality(A) <= K - 1
        /\ Cardinality(A) <= GraphMaxDegree(G)
        /\ GraphMaxDegree(G) \in Nat
    BY <1>1, <1>2, AroundIs
  <1>4. Cardinality(A) <= Cardinality({m \in V \ B : G.row[n][m] > 0})
    <2>1. \A S : S = {m \in V : G.part[m] = G.part[n]} =>
            Cardinality(A) <= Cardinality({m \in V \ S : G.row[n][m] > 0})
      BY <1>1, AroundIs
    <2> HIDE DEF A, B, V
    <2>2. QED
      BY <1>1, <2>1
  <1>5. VolumeAt(G)[n] = Cardinality(A)
    BY <1>1 DEF VolumeAt
  <1>6. OnBorder(G)[n] = IF A # {} THEN 1 ELSE 0
    BY <1>1 DEF OnBorder
  <1>7. Inside(G)[n] = 1 - OnBorder(G)[n]
    BY <1>1 DEF Inside
  <1>8. GetBorderNodes(G)[n] = OnBorder(G)[n]
    <2>1. GetBorderNodes(G)[n] = IF OtherBlocks(G, G.owner[n], n) # {} THEN 1 ELSE 0
      BY <1>1 DEF GetBorderNodes
    <2> HIDE DEF A
    <2>2. QED
      BY <1>3, <1>6, <2>1
  <1> HIDE DEF A, B, V
  <1>9. OnBorder(G)[n] \in {0, 1} /\ Inside(G)[n] \in {0, 1} /\ OnBorder(G)[n] + Inside(G)[n] = 1
    BY <1>6, <1>7
  <1>10. OnBorder(G)[n] <= VolumeAt(G)[n]
    BY <1>3, <1>5, <1>6
  <1>11. PICK k \in Nat, d \in Nat : k = K - 1 /\ d = GraphMaxDegree(G)
    BY <1>3, SizesAssumption
  <1>12. Min({k, d}) \in {k, d}
    <2>1. IsFiniteSet({k, d})
      <3>1. {k, d} = {k} \cup {d}
        OBVIOUS
      <3>2. IsFiniteSet({k})
        BY FS_Singleton
      <3>3. QED
        BY <3>1, <3>2, FS_AddElement
    <2>2. PICK S : S = {k, d}
      OBVIOUS
    <2>3. S # {} /\ S \subseteq Int /\ IsFiniteSet(S)
      BY <2>1, <2>2
    <2>4. Min(S) \in S
      BY <2>3, Extremes
    <2>5. QED
      BY <2>2, <2>4
  <1>13. PICK x \in {k, d} : x = Min({K - 1, GraphMaxDegree(G)})
    BY <1>11, <1>12
  <1>14. Cardinality(A) <= x /\ x \in Nat
    BY <1>3, <1>11, <1>13
  <1>15. VolumeAt(G)[n] <= x * OnBorder(G)[n]
    <2>1. CASE A # {}
      BY <1>3, <1>5, <1>6, <1>14, <2>1
    <2>2. CASE A = {}
      BY <1>3, <1>5, <1>6, <1>14, <2>2
    <2>3. QED
      BY <2>1, <2>2
  <1>16. QED
    BY <1>3, <1>4, <1>5, <1>8, <1>9, <1>10, <1>13, <1>14, <1>15 DEF B, V

\* The measures of the communication fit each other.
LEMMA VolumesDo ==
  ASSUME NEW G, IsGraph(G)
  PROVE  VolumesAgree(G)
  <1> DEFINE V == DOMAIN G.row
             vol == VolumeAt(G)
             bord == OnBorder(G)
             in == Inside(G)
             out(b) == {e \in NodesIn(G, b) \X (V \ NodesIn(G, b)) : G.row[e[1]][e[2]] > 0}
             most == Min({K - 1, GraphMaxDegree(G)})
  <1>0. most \in Nat
    <2>1. PICK n \in V : G.part[n] \in BlockIds
      BY GraphParts DEF GraphIs
    <2>2. n \in NodesIn(G, G.part[n])
      BY DEF NodesIn
    <2>3. QED
      BY <2>1, <2>2, NodeMeasures
  <1>1. ASSUME NEW b \in BlockIds
        PROVE  LET B == NodesIn(G, b)
               IN  /\ Sum(bord, B) + Sum(in, B) = Cardinality(B)
                   /\ Sum(bord, B) = WeightOf(GetBorderNodes(G), B)
                   /\ Sum(bord, B) <= Sum(vol, B)
                   /\ Sum(vol, B) <= Cardinality(out(b))
                   /\ Sum(vol, B) <= most * Sum(bord, B)
    <2> DEFINE C == V \ NodesIn(G, b)
    <2>1. PICK B : B = NodesIn(G, b)
      OBVIOUS
    <2>2. B \in SUBSET V /\ IsFiniteSet(V) /\ C \in SUBSET V
      BY <2>1, GraphParts DEF GraphIs, NodesIn
    <2>3. IsFiniteSet(B)
      <3> HIDE DEF V
      <3>1. QED
        BY <2>2, FS_Subset
    <2>4. \A n \in B : /\ vol[n] \in Nat /\ bord[n] \in {0, 1} /\ in[n] \in {0, 1}
                       /\ bord[n] + in[n] = 1 /\ bord[n] <= vol[n]
                       /\ GetBorderNodes(G)[n] = bord[n]
      BY <2>1, NodeMeasures
    <2>4a. \A n \in B : vol[n] <= Cardinality({m \in C : G.row[n][m] > 0})
      <3> SUFFICES ASSUME NEW n \in NodesIn(G, b)
                   PROVE  VolumeAt(G)[n] <= Cardinality({m \in C : G.row[n][m] > 0})
        BY <2>1
      <3>1. QED
        BY NodeMeasures
    <2>4b. \A n \in B : vol[n] <= most * bord[n]
      BY <2>1, NodeMeasures
    <2> HIDE DEF vol, bord, in, most
    <2>5. \A n \in B : vol[n] \in Int /\ bord[n] \in Int /\ in[n] \in Int /\ bord[n] \in Nat
      BY <2>4
    <2>6. Sum(bord, B) + Sum(in, B) = Cardinality(B)
      <3> DEFINE one == [n \in B |-> 1]
      <3>1. \A n \in B : one[n] = bord[n] + in[n] /\ one[n] \in {0, 1} /\ one[n] = 1
        BY <2>4
      <3> HIDE DEF one
      <3>2. Sum(one, B) = Sum(bord, B) + Sum(in, B)
        BY <2>3, <2>5, <3>1, SumAdd
      <3>3. Sum(one, B) = Cardinality({n \in B : one[n] = 1})
        BY <2>3, <3>1, SumCounts
      <3>4. {n \in B : one[n] = 1} = B
        BY <3>1
      <3>5. QED
        BY <3>2, <3>3, <3>4
    <2>7. Sum(bord, B) = WeightOf(GetBorderNodes(G), B)
      <3>1. Sum(GetBorderNodes(G), B) = Sum(bord, B)
        BY <2>3, <2>4, SumSame
      <3>2. QED
        BY <3>1, WeightIsSum
    <2>8. Sum(bord, B) <= Sum(vol, B)
      BY <2>3, <2>4, <2>5, SumMonotone
    <2>9. Sum(vol, B) <= Cardinality(out(b))
      <3> DEFINE outs == [n \in B |-> Cardinality({m \in C : G.row[n][m] > 0})]
      <3>1. \A n \in B : outs[n] = Cardinality({m \in C : G.row[n][m] > 0})
        OBVIOUS
      <3>2. \A n \in B : vol[n] <= outs[n] /\ outs[n] \in Int
        <4> SUFFICES ASSUME NEW n \in B PROVE vol[n] <= outs[n] /\ outs[n] \in Int
          OBVIOUS
        <4>1. PICK M : M = {m \in C : G.row[n][m] > 0}
          OBVIOUS
        <4>2. M \in SUBSET V
          BY <2>2, <4>1
        <4> HIDE DEF outs, V, C
        <4>3. IsFiniteSet(M)
          BY <2>2, <4>2, FS_Subset
        <4>4. Cardinality(M) \in Nat
          BY <4>3, FS_CardinalityType
        <4>5. QED
          BY <2>4, <2>4a, <3>1, <4>1, <4>4
      <3> HIDE DEF outs
      <3>3. Sum(vol, B) <= Sum(outs, B)
        BY <2>3, <2>5, <3>2, SumMonotone
      <3>4. PICK w, E, U, D : w = G.row /\ E = out(b) /\ U = V /\ D = C
        OBVIOUS
      <3>5. /\ IsFiniteSet(U) /\ B \in SUBSET U /\ D \in SUBSET U
            /\ E = {e \in B \X D : w[e[1]][e[2]] > 0}
            /\ \A n \in B : outs[n] = Cardinality({m \in D : w[n][m] > 0})
        BY <2>1, <2>2, <3>1, <3>4
      <3>6. Sum(outs, B) = Cardinality(E)
        <4>1. LeadOut(w, B, D, E, outs)
          BY <3>5 DEF LeadOut
        <4>2. QED
          BY ONLY <3>5, <4>1, CountOut
      <3>7. QED
        BY <3>3, <3>4, <3>6
    <2>10. Sum(vol, B) <= most * Sum(bord, B)
      <3>1. CASE B = {}
        <4>1. Sum(vol, B) = 0 /\ Sum(bord, B) = 0
          BY <3>1, SumEmpty
        <4>2. QED
          BY <1>0, <4>1
      <3>2. CASE B # {}
        <4>1. PICK c \in Nat : c = most
          BY <1>0
        <4> DEFINE up == [n \in B |-> c * bord[n]]
        <4>2. \A n \in B : up[n] = c * bord[n] /\ up[n] \in Int /\ vol[n] <= up[n]
          <5> SUFFICES ASSUME NEW n \in B
                       PROVE  up[n] = c * bord[n] /\ up[n] \in Int /\ vol[n] <= up[n]
            OBVIOUS
          <5>1. PICK x \in {0, 1} : x = bord[n]
            BY <2>4
          <5>2. c * x \in Int
            BY <5>1
          <5>3. QED
            BY <2>4b, <4>1, <5>1, <5>2
        <4> HIDE DEF up
        <4>3. Sum(vol, B) <= Sum(up, B)
          BY <2>3, <2>5, <4>2, SumMonotone
        <4>4. Sum(up, B) = c * Sum(bord, B)
          BY <2>3, <2>5, <4>2, SumScale
        <4>5. QED
          BY <4>1, <4>3, <4>4
      <3>3. QED
        BY <3>1, <3>2
    <2>11. QED
      BY <2>1, <2>6, <2>7, <2>8, <2>9, <2>10
  <1>2. \A b \in BlockIds : NodesIn(G, b) = {n \in V : G.part[n] = b}
    BY DEF NodesIn
  <1> HIDE DEF vol, bord, in, most
  <1>3. ASSUME NEW b \in BlockIds
        PROVE  /\ CommBndInner(G)[b].volume = CommVolume(G)[b]
               /\ CommBndInner(G)[b].border = NumBorderInnerNodes(G)[b].border
               /\ CommBndInner(G)[b].inner = NumBorderInnerNodes(G)[b].inner
               /\ CommBndInner(G)[b].border + CommBndInner(G)[b].inner = Cardinality(NodesIn(G, b))
               /\ CommBndInner(G)[b].border = WeightOf(GetBorderNodes(G), NodesIn(G, b))
               /\ CommBndInner(G)[b].border <= CommBndInner(G)[b].volume
               /\ CommBndInner(G)[b].volume <= Cardinality(out(b))
               /\ CommBndInner(G)[b].volume <= most * CommBndInner(G)[b].border
    <2>1. /\ CommBndInner(G)[b].volume = Sum(vol, NodesIn(G, b))
          /\ CommBndInner(G)[b].border = Sum(bord, NodesIn(G, b))
          /\ CommBndInner(G)[b].inner = Sum(in, NodesIn(G, b))
          /\ CommVolume(G)[b] = Sum(vol, NodesIn(G, b))
          /\ NumBorderInnerNodes(G)[b].border = Sum(bord, NodesIn(G, b))
          /\ NumBorderInnerNodes(G)[b].inner = Sum(in, NodesIn(G, b))
      BY MeasuresOf DEF vol, bord, in
    <2>2. QED
      BY <1>1, <2>1
  <1>4. QED
    <2>1. \A b \in BlockIds :
            out(b) = {e \in {n \in V : G.part[n] = b} \X (V \ {n \in V : G.part[n] = b}) :
                               G.row[e[1]][e[2]] > 0}
      BY <1>2
    <2>2. QED
      BY <1>2, <1>3, <2>1 DEF VolumesAgree, most

\* The elements are counted part by part.
LEMMA CountParts ==
  ASSUME NEW D, IsFiniteSet(D), NEW Y, IsFiniteSet(Y), NEW part,
         \A q \in Y : part[q] \in SUBSET D,
         \A x \in D : \E q \in Y : x \in part[q],
         \A p, q \in Y : p # q => part[p] \cap part[q] = {},
         NEW h, \A q \in Y : h[q] = Cardinality(part[q])
  PROVE  Sum(h, Y) = Cardinality(D)
  <1> DEFINE one == [x \in D |-> 1]
  <1>1. \A x \in D : one[x] \in Int /\ one[x] = 1
    OBVIOUS
  <1> HIDE DEF one
  <1>2. \A S \in SUBSET D : Sum(one, S) = Cardinality(S)
    <2> SUFFICES ASSUME NEW S \in SUBSET D PROVE Sum(one, S) = Cardinality(S)
      OBVIOUS
    <2>1. IsFiniteSet(S)
      BY FS_Subset
    <2>2. \A x \in S : one[x] \in {0, 1}
      BY <1>1
    <2>3. Sum(one, S) = Cardinality({x \in S : one[x] = 1})
      BY <2>1, <2>2, SumCounts
    <2>4. {x \in S : one[x] = 1} = S
      BY <1>1
    <2>5. QED
      BY <2>3, <2>4
  <1>3. \A q \in Y : h[q] = Sum(one, part[q])
    BY <1>2
  <1>4. Sum(one, D) = Sum(h, Y)
    <2>1. PICK k : k = h
      OBVIOUS
    <2>2. \A q \in Y : k[q] = Sum(one, part[q])
      BY <1>3, <2>1
    <2>3. Sum(one, D) = Sum(k, Y)
      BY <1>1, <2>2, SumParts
    <2>4. QED
      BY <2>1, <2>3
  <1>5. QED
    BY <1>2, <1>4

\* Edges of process p that lead to another process.
LeadsOff(G, p) == {e \in Local(G, p) \X NonLocalNeighbors(G, p) : G.row[e[1]][e[2]] > 0}

\* The edges between two processes.
EdgesBetween(G, p, q) == {e \in Local(G, p) \X Local(G, q) : G.row[e[1]][e[2]] > 0}

\* What a process finds around its nodes.
LEMMA AroundProcess ==
  ASSUME NEW G, IsGraph(G), NEW p \in PE
  PROVE  /\ \A m : m \in NonLocalNeighbors(G, p) <=>
              /\ m \in DOMAIN G.row /\ G.owner[m] # p
              /\ \E n \in Local(G, p) : G.row[n][m] > 0
         /\ \A e : e \in LeadsOff(G, p) <=>
              /\ e \in (DOMAIN G.row) \X (DOMAIN G.row) /\ G.row[e[1]][e[2]] > 0
              /\ G.owner[e[1]] = p /\ G.owner[e[2]] # p
         /\ IsFiniteSet(LeadsOff(G, p)) /\ IsFiniteSet(NonLocalNeighbors(G, p))
  <1> DEFINE V == DOMAIN G.row
             L == Local(G, p)
             N == NonLocalNeighbors(G, p)
             E == LeadsOff(G, p)
  <1>1. \A n : n \in L <=> n \in V /\ G.owner[n] = p
    BY DEF Local
  <1>2. \A n, m : m \in Neighbors(G.row, n) <=> m \in V /\ m # n /\ G.row[n][m] > 0
    BY DEF Neighbors
  <1>3. \A m : m \in N <=> (\E n \in L : m \in Neighbors(G.row, n)) /\ m \notin L
    BY DEF NonLocalNeighbors, NeighborsOf
  <1> HIDE DEF L, N
  <1>4. \A m : m \in N <=> m \in V /\ G.owner[m] # p /\ \E n \in L : G.row[n][m] > 0
    BY <1>1, <1>2, <1>3
  <1>5. \A e : e \in E <=> e \in L \X N /\ G.row[e[1]][e[2]] > 0
    BY DEF LeadsOff, L, N
  <1> HIDE DEF E
  <1>6. \A e : e \in E <=> e \in V \X V /\ G.row[e[1]][e[2]] > 0
                           /\ G.owner[e[1]] = p /\ G.owner[e[2]] # p
    BY <1>1, <1>4, <1>5
  <1>7. IsFiniteSet(V)
    BY GraphParts DEF GraphIs
  <1>8. IsFiniteSet(E) /\ IsFiniteSet(N)
    <2>1. E \in SUBSET (V \X V) /\ N \in SUBSET V
      BY <1>4, <1>6
    <2> HIDE DEF V
    <2>2. IsFiniteSet(V \X V)
      BY <1>7, FS_Product
    <2>3. QED
      BY <1>7, <2>1, <2>2, FS_Subset
  <1>9. QED
    BY <1>4, <1>6, <1>8 DEF V, L, N, E

\* The process graph: its neighbours and how many edges lead to each.
LEMMA PEGraphIs ==
  ASSUME NEW G, IsGraph(G), NEW p \in PE
  PROVE  /\ \A q : q \in DOMAIN GetPEGraph(G)[p] <=>
              q \in PE /\ q # p /\ EdgesBetween(G, p, q) # {}
         /\ \A q \in DOMAIN GetPEGraph(G)[p] :
              GetPEGraph(G)[p][q] = Cardinality(EdgesBetween(G, p, q))
         /\ IsFiniteSet(DOMAIN GetPEGraph(G)[p])
  <1> DEFINE V == DOMAIN G.row
             N == NonLocalNeighbors(G, p)
             Y == {G.owner[n] : n \in N}
  <1>1. GetPEGraph(G)[p] = [q \in Y |-> Cardinality(EdgesBetween(G, p, q))]
    BY DEF GetPEGraph, EdgesBetween
  <1>2. \A m : m \in N <=> m \in V /\ G.owner[m] # p /\ \E n \in Local(G, p) : G.row[n][m] > 0
    BY AroundProcess
  <1>3. IsFiniteSet(Y)
    <2>1. IsFiniteSet(N)
      BY AroundProcess
    <2> HIDE DEF N
    <2>2. QED
      BY <2>1, FiniteImage
  <1>4. \A q : q \in Y <=> q \in PE /\ q # p /\ EdgesBetween(G, p, q) # {}
    <2>1. ASSUME NEW q \in Y PROVE q \in PE /\ q # p /\ EdgesBetween(G, p, q) # {}
      <3>1. PICK m \in N : q = G.owner[m]
        OBVIOUS
      <3>2. PICK n \in Local(G, p) : G.row[n][m] > 0
        BY <1>2, <3>1
      <3>3. m \in Local(G, q) /\ q # p
        BY <1>2, <3>1 DEF Local
      <3>4. q \in PE
        BY <1>2, <3>1, GraphParts DEF GraphIs
      <3>5. <<n, m>> \in EdgesBetween(G, p, q)
        BY <3>2, <3>3 DEF EdgesBetween
      <3>6. QED
        BY <3>3, <3>4, <3>5
    <2>2. ASSUME NEW q \in PE, q # p, EdgesBetween(G, p, q) # {} PROVE q \in Y
      <3>1. PICK n \in Local(G, p), m \in Local(G, q) : G.row[n][m] > 0
        BY <2>2 DEF EdgesBetween
      <3>2. m \in V /\ G.owner[m] = q
        BY <3>1 DEF Local
      <3>3. m \in N
        BY <1>2, <2>2, <3>1, <3>2
      <3>4. QED
        BY <3>2, <3>3
    <2>3. QED
      BY <2>1, <2>2
  <1>5. QED
    BY <1>1, <1>3, <1>4

\* It is symmetric.
LEMMA PEGraphSymmetric ==
  ASSUME NEW G, IsGraph(G), NEW p \in PE, NEW q \in PE, q \in DOMAIN GetPEGraph(G)[p]
  PROVE  p \in DOMAIN GetPEGraph(G)[q] /\ GetPEGraph(G)[p][q] = GetPEGraph(G)[q][p]
  <1> DEFINE E == EdgesBetween(G, p, q)
             F == EdgesBetween(G, q, p)
             b == [e \in E |-> <<e[2], e[1]>>]
  <1>1. q # p /\ E # {} /\ GetPEGraph(G)[p][q] = Cardinality(E)
    BY PEGraphIs
  <1>2. \A r, s : \A e : e \in EdgesBetween(G, r, s) <=>
          e \in Local(G, r) \X Local(G, s) /\ G.row[e[1]][e[2]] > 0
    BY DEF EdgesBetween
  <1>3. \A n, m \in DOMAIN G.row : G.row[n][m] = G.row[m][n]
    BY GraphParts DEF GraphIs
  <1>4. Local(G, p) \in SUBSET DOMAIN G.row /\ Local(G, q) \in SUBSET DOMAIN G.row
    BY DEF Local
  <1>5. \A n \in Local(G, p), m \in Local(G, q) : <<n, m>> \in E <=> <<m, n>> \in F
    BY <1>2, <1>3, <1>4
  <1>6. /\ \A e \in E : \E n \in Local(G, p), m \in Local(G, q) : e = <<n, m>>
        /\ \A e \in F : \E n \in Local(G, q), m \in Local(G, p) : e = <<n, m>>
    BY <1>2
  <1>7. IsFiniteSet(E)
    <2>1. IsFiniteSet(DOMAIN G.row)
      BY GraphParts DEF GraphIs
    <2>2. IsFiniteSet(Local(G, p)) /\ IsFiniteSet(Local(G, q))
      BY <1>4, <2>1, FS_Subset
    <2>3. IsFiniteSet(Local(G, p) \X Local(G, q))
      BY <2>2, FS_Product
    <2>4. E \in SUBSET (Local(G, p) \X Local(G, q))
      BY <1>2
    <2>5. QED
      BY <2>3, <2>4, FS_Subset
  <1> HIDE DEF E, F
  <1>8. \A x, y \in E : b[x] = b[y] => x = y
    <2> SUFFICES ASSUME NEW x \in E, NEW y \in E, b[x] = b[y] PROVE x = y
      OBVIOUS
    <2>1. PICK n, m : x = <<n, m>>
      BY <1>6
    <2>2. PICK k, l : y = <<k, l>>
      BY <1>6
    <2>3. b[x] = <<m, n>> /\ b[y] = <<l, k>>
      BY <2>1, <2>2
    <2>4. QED
      BY <2>1, <2>2, <2>3
  <1>9. {b[e] : e \in E} = F
    <2>1. \A e \in E : b[e] \in F
      <3> SUFFICES ASSUME NEW e \in E PROVE b[e] \in F
        OBVIOUS
      <3>1. PICK n \in Local(G, p), m \in Local(G, q) : e = <<n, m>>
        BY <1>6
      <3>2. b[e] = <<m, n>>
        BY <3>1
      <3>3. QED
        BY <1>5, <3>1, <3>2
    <2>2. \A f \in F : \E e \in E : b[e] = f
      <3> SUFFICES ASSUME NEW f \in F PROVE \E e \in E : b[e] = f
        OBVIOUS
      <3>1. PICK n \in Local(G, q), m \in Local(G, p) : f = <<n, m>>
        BY <1>6
      <3>2. <<m, n>> \in E
        BY <1>5, <3>1
      <3>3. b[<<m, n>>] = <<n, m>>
        BY <3>2
      <3>4. QED
        BY <3>1, <3>2, <3>3
    <2> HIDE DEF b
    <2>3. QED
      BY <2>1, <2>2
  <1> HIDE DEF b
  <1>10. Cardinality(F) = Cardinality(E)
    BY <1>7, <1>8, <1>9, SameCount
  <1>11. F # {}
    BY <1>1, <1>9
  <1>12. p \in DOMAIN GetPEGraph(G)[q] /\ GetPEGraph(G)[q][p] = Cardinality(F)
    <2>1. p \in DOMAIN GetPEGraph(G)[q]
      BY <1>1, <1>11, PEGraphIs DEF F
    <2>2. QED
      BY <2>1, PEGraphIs DEF F
  <1>13. QED
    BY <1>1, <1>10, <1>12

\* A process's outgoing edges are those to its neighbours in the process graph.
LEMMA OutgoingShared ==
  ASSUME NEW G, IsGraph(G), NEW p \in PE
  PROVE  LocalSumOutgoingEdges(G, p, FALSE) = SumOf(GetPEGraph(G)[p])
  <1> DEFINE h == GetPEGraph(G)[p]
             Y == DOMAIN h
             D == LeadsOff(G, p)
             part == [q \in Y |-> EdgesBetween(G, p, q)]
  <1>1. LocalSumOutgoingEdges(G, p, FALSE) = Cardinality(D)
    BY DEF LocalSumOutgoingEdges, LeadsOff
  <1>2. /\ \A q : q \in Y <=> q \in PE /\ q # p /\ EdgesBetween(G, p, q) # {}
        /\ \A q \in Y : h[q] = Cardinality(EdgesBetween(G, p, q))
        /\ IsFiniteSet(Y)
    BY PEGraphIs
  <1>3. /\ \A e : e \in D <=> e \in (DOMAIN G.row) \X (DOMAIN G.row) /\ G.row[e[1]][e[2]] > 0
                              /\ G.owner[e[1]] = p /\ G.owner[e[2]] # p
        /\ IsFiniteSet(D)
    BY AroundProcess
  <1>4. \A q, e : e \in EdgesBetween(G, p, q) <=>
          e \in (DOMAIN G.row) \X (DOMAIN G.row) /\ G.row[e[1]][e[2]] > 0
          /\ G.owner[e[1]] = p /\ G.owner[e[2]] = q
    <2>1. \A r, n : n \in Local(G, r) <=> n \in DOMAIN G.row /\ G.owner[n] = r
      BY DEF Local
    <2>2. \A q, e : e \in EdgesBetween(G, p, q) <=>
            e \in Local(G, p) \X Local(G, q) /\ G.row[e[1]][e[2]] > 0
      BY DEF EdgesBetween
    <2>3. QED
      BY <2>1, <2>2
  <1>5. \A n \in DOMAIN G.row : G.owner[n] \in PE
    BY GraphParts DEF GraphIs
  <1>6. \A q \in Y : part[q] = EdgesBetween(G, p, q)
    OBVIOUS
  <1> HIDE DEF h, Y, D, part
  <1>7. \A q \in Y : part[q] \in SUBSET D
    BY <1>2, <1>3, <1>4, <1>6
  <1>8. \A e \in D : \E q \in Y : e \in part[q]
    <2> SUFFICES ASSUME NEW e \in D PROVE \E q \in Y : e \in part[q]
      OBVIOUS
    <2>1. PICK q \in PE : q = G.owner[e[2]]
      BY <1>3, <1>5
    <2>2. e \in EdgesBetween(G, p, q)
      BY <1>3, <1>4, <2>1
    <2>3. q \in Y
      BY <1>2, <1>3, <2>1, <2>2
    <2>4. QED
      BY <1>6, <2>2, <2>3
  <1>9. \A q, r \in Y : q # r => part[q] \cap part[r] = {}
    BY <1>4, <1>6
  <1>10. \A q \in Y : h[q] = Cardinality(part[q])
    BY <1>2, <1>6
  <1>11. Sum(h, Y) = Cardinality(D)
    BY <1>2, <1>3, <1>7, <1>8, <1>9, <1>10, CountParts
  <1>12. SumOf(h) = Sum(h, DOMAIN h)
    BY SumOfIsSum
  <1>13. QED
    BY <1>1, <1>11, <1>12 DEF Y, h

\* With a block for every process, the outgoing edges are the cut ones.
LEMMA OutgoingIsCut ==
  ASSUME NEW G, IsGraph(G), G.owner = G.part
  PROVE  2 * ComputeCut(G, TRUE) = SumOf([p \in PE |-> LocalSumOutgoingEdges(G, p, TRUE)])
  <1> DEFINE A == CutAll(G)
             s == [p \in PE |-> LocalSumOutgoingEdges(G, p, TRUE)]
  <1>1. \A p \in PE : s[p] = EntryWeights(G, {e \in A : G.owner[e[1]] = p})
    <2> SUFFICES ASSUME NEW p \in PE PROVE s[p] = EntryWeights(G, {e \in A : G.owner[e[1]] = p})
      OBVIOUS
    <2>1. s[p] = EntryWeights(G, LeadsOff(G, p))
      BY DEF LocalSumOutgoingEdges, LeadsOff
    <2>2. \A e : e \in LeadsOff(G, p) <=>
            e \in (DOMAIN G.row) \X (DOMAIN G.row) /\ G.row[e[1]][e[2]] > 0
            /\ G.owner[e[1]] = p /\ G.owner[e[2]] # p
      BY AroundProcess
    <2>3. \A e : e \in A <=> e \in (DOMAIN G.row) \X (DOMAIN G.row) /\ G.row[e[1]][e[2]] > 0
                             /\ G.owner[e[1]] # G.owner[e[2]]
      BY DEF CutAll
    <2> HIDE DEF A
    <2>4. LeadsOff(G, p) = {e \in A : G.owner[e[1]] = p}
      BY <2>2, <2>3
    <2>5. QED
      BY <2>1, <2>4
  <1>2. DOMAIN s = PE
    OBVIOUS
  <1> HIDE DEF s
  <1>3. Sum(s, PE) = EntryWeights(G, A)
    BY <1>1, ShareEntries
  <1>4. 2 * ComputeCut(G, TRUE) = SumOf(s)
    BY <1>2, <1>3, SumOfIsSum, TotalIsCut
  <1>5. QED
    BY <1>4 DEF s

\* What the processes see of each other is what the partition says.
LEMMA ProcessesDo ==
  ASSUME NEW G, IsGraph(G)
  PROVE  ProcessesSeeBlocks(G)
  <1> SUFFICES ASSUME G.owner = G.part
               PROVE  /\ \A p, q \in PE : q \in DOMAIN GetPEGraph(G)[p] =>
                           /\ p \in DOMAIN GetPEGraph(G)[q]
                           /\ GetPEGraph(G)[p][q] = GetPEGraph(G)[q][p]
                      /\ \A p \in PE : LocalSumOutgoingEdges(G, p, FALSE) = SumOf(GetPEGraph(G)[p])
                      /\ 2 * ComputeCut(G, TRUE)
                           = SumOverPE(LAMBDA p : LocalSumOutgoingEdges(G, p, TRUE))
                      /\ \A p \in PE : NodesWithNonLocalNeighbors(G, p, DOMAIN G.row)
                                         = {n \in Local(G, p) : GetBorderNodes(G)[n] = 1}
    BY DEF ProcessesSeeBlocks
  <1>1. ASSUME NEW p \in PE
        PROVE  NodesWithNonLocalNeighbors(G, p, DOMAIN G.row)
                 = {n \in Local(G, p) : GetBorderNodes(G)[n] = 1}
    <2>1. \A n \in Local(G, p) : HasNonLocalNeighbors(G, p, n) <=> GetBorderNodes(G)[n] = 1
      <3> SUFFICES ASSUME NEW n \in Local(G, p)
                   PROVE  HasNonLocalNeighbors(G, p, n) <=> GetBorderNodes(G)[n] = 1
        OBVIOUS
      <3>1. n \in DOMAIN G.row /\ G.owner[n] = p
        BY DEF Local
      <3>2. OtherBlocks(G, p, n) = Around(G, n)
        BY <3>1, AroundIs
      <3>3. GetBorderNodes(G)[n] = 1 <=> Around(G, n) # {}
        BY <3>1, <3>2 DEF GetBorderNodes
      <3>4. Neighbors(G.row, n) \in SUBSET DOMAIN G.row
        BY DEF Neighbors
      <3>5. HasNonLocalNeighbors(G, p, n) <=>
              \E m \in Neighbors(G.row, n) : G.owner[m] # p
        BY <3>4 DEF HasNonLocalNeighbors, Local
      <3>6. Around(G, n) # {} <=> \E m \in Neighbors(G.row, n) : G.part[m] # G.part[n]
        BY DEF Around
      <3>7. QED
        BY <3>1, <3>3, <3>5, <3>6
    <2>2. Local(G, p) \in SUBSET DOMAIN G.row
      BY DEF Local
    <2>3. QED
      BY <2>1, <2>2 DEF NodesWithNonLocalNeighbors
  <1>2. \A p, q \in PE : q \in DOMAIN GetPEGraph(G)[p] =>
          p \in DOMAIN GetPEGraph(G)[q] /\ GetPEGraph(G)[p][q] = GetPEGraph(G)[q][p]
    BY PEGraphSymmetric
  <1>3. \A p \in PE : LocalSumOutgoingEdges(G, p, FALSE) = SumOf(GetPEGraph(G)[p])
    BY OutgoingShared
  <1>4. 2 * ComputeCut(G, TRUE) = SumOverPE(LAMBDA p : LocalSumOutgoingEdges(G, p, TRUE))
    BY OutgoingIsCut DEF SumOverPE
  <1>5. QED
    BY <1>1, <1>2, <1>3, <1>4, Zenon

\* What stands where after an insertion.
LEMMA Inserted ==
  ASSUME NEW S, NEW s \in Seq(S), NEW x \in S, NEW at \in 1 .. (Len(s) + 1)
  PROVE  /\ DOMAIN InsertAt(s, at, x) = 1 .. (Len(s) + 1)
         /\ \A j \in 1 .. (Len(s) + 1) :
              InsertAt(s, at, x)[j] = IF j < at THEN s[j] ELSE IF j = at THEN x ELSE s[j - 1]
  <1> DEFINE a == SubSeq(s, 1, at - 1)
             c == SubSeq(s, at, Len(s))
             b == a \o <<x>>
             n == Len(s)
  <1>1. n \in Nat /\ \A i \in 1 .. n : s[i] \in S
    OBVIOUS
  <1>2. /\ a \in Seq(S) /\ Len(a) = at - 1
        /\ \A i \in 1 .. (at - 1) : a[i] = s[i]
    <2>1. PICK m \in Int, l \in Int : m = 1 /\ l = at - 1
      BY <1>1
    <2>2. \A i \in m .. l : s[i] \in S
      BY <1>1, <2>1
    <2>3. /\ SubSeq(s, m, l) \in Seq(S)
          /\ Len(SubSeq(s, m, l)) = IF m <= l THEN l - m + 1 ELSE 0
          /\ \A i \in 1 .. l - m + 1 : SubSeq(s, m, l)[i] = s[m + i - 1]
      BY ONLY <2>2, SubSeqProperties
    <2>4. a = SubSeq(s, m, l)
      BY <2>1
    <2> HIDE DEF a
    <2>5. QED
      BY <1>1, <2>1, <2>3, <2>4
  <1>3. /\ c \in Seq(S) /\ Len(c) = n - at + 1
        /\ \A i \in 1 .. (n - at + 1) : c[i] = s[at + i - 1]
    <2>1. PICK m \in Int, l \in Int : m = at /\ l = n
      BY <1>1
    <2>2. \A i \in m .. l : s[i] \in S
      BY <1>1, <2>1
    <2>3. /\ SubSeq(s, m, l) \in Seq(S)
          /\ Len(SubSeq(s, m, l)) = IF m <= l THEN l - m + 1 ELSE 0
          /\ \A i \in 1 .. l - m + 1 : SubSeq(s, m, l)[i] = s[m + i - 1]
      BY ONLY <2>2, SubSeqProperties
    <2>4. c = SubSeq(s, m, l)
      BY <2>1
    <2> HIDE DEF c
    <2>5. QED
      BY <1>1, <2>1, <2>3, <2>4
  <1> HIDE DEF a, c
  <1>4. /\ b \in Seq(S) /\ Len(b) = at
        /\ \A i \in 1 .. at : b[i] = IF i < at THEN s[i] ELSE x
    <2>1. <<x>> \in Seq(S) /\ Len(<<x>>) = 1 /\ <<x>>[1] = x
      OBVIOUS
    <2>2. PICK d : d = <<x>>
      OBVIOUS
    <2>3. /\ a \o d \in Seq(S) /\ Len(a \o d) = Len(a) + Len(d)
          /\ \A i \in 1 .. Len(a) + Len(d) :
               (a \o d)[i] = IF i <= Len(a) THEN a[i] ELSE d[i - Len(a)]
      BY <1>2, <2>1, <2>2, ConcatProperties
    <2>4. b = a \o d
      BY <2>2
    <2> HIDE DEF b
    <2>5. QED
      BY <1>1, <1>2, <2>1, <2>2, <2>3, <2>4
  <1> HIDE DEF b
  <1>5. /\ b \o c \in Seq(S) /\ Len(b \o c) = Len(b) + Len(c)
        /\ \A i \in 1 .. Len(b) + Len(c) :
             (b \o c)[i] = IF i <= Len(b) THEN b[i] ELSE c[i - Len(b)]
    BY <1>3, <1>4, ConcatProperties
  <1>6. InsertAt(s, at, x) = b \o c
    BY DEF InsertAt, a, b, c
  <1>7. DOMAIN (b \o c) = 1 .. (n + 1)
    <2>1. Len(b) + Len(c) = n + 1
      BY <1>1, <1>3, <1>4
    <2>2. QED
      BY <1>5, <2>1
  <1>8. ASSUME NEW j \in 1 .. (n + 1)
        PROVE  (b \o c)[j] = IF j < at THEN s[j] ELSE IF j = at THEN x ELSE s[j - 1]
    <2>1. Len(b) + Len(c) = n + 1 /\ at \in Nat /\ j \in Nat
      BY <1>1, <1>3, <1>4
    <2>2. CASE j <= at
      <3>1. (b \o c)[j] = b[j] /\ j \in 1 .. at
        BY <1>4, <1>5, <2>1, <2>2
      <3>2. b[j] = IF j < at THEN s[j] ELSE x
        BY <1>4, <3>1
      <3>3. QED
        BY <2>1, <2>2, <3>1, <3>2
    <2>3. CASE j > at
      <3>1. (b \o c)[j] = c[j - at]
        BY <1>4, <1>5, <2>1, <2>3
      <3>2. j - at \in 1 .. (n - at + 1) /\ at + (j - at) - 1 = j - 1
        BY <1>1, <2>1, <2>3
      <3>3. c[j - at] = s[j - 1]
        BY <1>3, <3>2
      <3>4. QED
        BY <2>1, <2>3, <3>1, <3>3
    <2>4. QED
      BY <2>1, <2>2, <2>3
  <1>9. QED
    BY <1>6, <1>7, <1>8

\* A row of the Laplacian: the neighbours in order, with the diagonal in its place.
RowIs(r, N, n, cols, at, entry, degree) ==
  /\ DOMAIN r = 1 .. (Cardinality(N) + 1) /\ at \in DOMAIN r
  /\ \A j \in DOMAIN r :
       r[j] = IF j < at THEN <<cols[j], - entry[cols[j]]>>
              ELSE IF j = at THEN <<n, degree>>
              ELSE <<cols[j - 1], - entry[cols[j - 1]]>>
  /\ DOMAIN cols = 1 .. Cardinality(N) /\ Cardinality(N) \in Nat
  /\ \A i \in DOMAIN cols : cols[i] \in N /\ (cols[i] < n <=> i < at)
  /\ \A i, j \in DOMAIN cols : cols[i] < cols[j] <=> i < j
  /\ \A m \in N : \E i \in DOMAIN cols : cols[i] = m

\* The pairs of a row: what the places of the columns and the diagonal hold.
LEMMA RowOf ==
  ASSUME NEW G, IsGraph(G), NEW n \in DOMAIN G.row
  PROVE  \E cols, at : RowIs(LaplacianRow(G.row, n), Neighbors(G.row, n), n, cols, at,
                             G.row[n], WeightOf(G.row[n], Neighbors(G.row, n)))
  <1> DEFINE V == DOMAIN G.row
             N == Neighbors(G.row, n)
             cols == Sorted(N, <)
             T == {m \in N : m < n}
             at == DiagonalPlace(G.row, n) + 1
             degree == WeightOf(G.row[n], N)
             s == [j \in DOMAIN cols |-> <<cols[j], - G.row[n][cols[j]]>>]
             r == LaplacianRow(G.row, n)
  <1>1. GraphIs(G, V)
    BY GraphParts
  <1>2. N \in SUBSET V /\ n \notin N /\ n \in Int
    BY <1>1 DEF Neighbors, GraphIs
  <1>3. IsFiniteSet(N) /\ N \subseteq Int /\ \A m \in N : G.row[n][m] \in Nat /\ m \in Int
    <2>1. IsFiniteSet(N)
      BY <1>1, <1>2, FS_Subset DEF GraphIs
    <2>2. QED
      BY <1>1, <1>2, <2>1 DEF GraphIs
  <1>4. InOrder(Ascending, N, cols) /\ Lists(Ascending, N, cols)
    <2> HIDE DEF N
    <2>1. QED
      BY <1>3, SortedAscends
  <1>5. PICK c \in Nat : c = Cardinality(N)
    BY <1>3, FS_CardinalityType
  <1>6. DOMAIN cols = 1 .. c /\ \A i \in DOMAIN cols : cols[i] \in N
    BY <1>4, <1>5 DEF InOrder
  <1>7. degree \in Int
    <2>1. \A m \in N : G.row[n][m] \in Int
      BY <1>3
    <2> HIDE DEF N
    <2>2. QED
      BY <1>3, <2>1, WeightType
  <1>8. /\ T \in SUBSET N /\ IsFiniteSet(T)
        /\ Cardinality(T) \in 0 .. c /\ at = Cardinality(T) + 1
    <2>1. T \in SUBSET N
      OBVIOUS
    <2>2. at = Cardinality(T) + 1
      BY DEF DiagonalPlace
    <2> HIDE DEF T, N, at
    <2>3. IsFiniteSet(T) /\ Cardinality(T) <= Cardinality(N) /\ Cardinality(T) \in Nat
      BY <1>3, <2>1, FS_Subset, FS_CardinalityType
    <2>4. QED
      BY <1>5, <2>1, <2>2, <2>3
  <1>9. \A i, j \in DOMAIN cols : cols[i] < cols[j] <=> i < j
    <2>1. \A i, j \in DOMAIN cols : <<cols[i], cols[j]>> \in Ascending <=> i < j
      BY <1>4 DEF Lists
    <2> HIDE DEF cols
    <2>2. \A i, j \in DOMAIN cols : cols[i] \in Int /\ cols[j] \in Int
      BY <1>3, <1>6
    <2>3. QED
      BY <2>1, <2>2 DEF Ascending
  <1>10. \A m \in N : \E i \in DOMAIN cols : cols[i] = m
    BY <1>4 DEF Lists
  <1>11. \A i \in DOMAIN cols : cols[i] < n <=> i < at
    <2>1. \A x \in T, y \in N : <<y, x>> \in Ascending => y \in T
      <3> SUFFICES ASSUME NEW x \in T, NEW y \in N, <<y, x>> \in Ascending PROVE y \in T
        OBVIOUS
      <3>1. x < n /\ x \in Int /\ y \in Int
        BY <1>3
      <3>2. y < x
        BY <3>1 DEF Ascending
      <3>3. y < n
        BY <1>2, <3>1, <3>2
      <3>4. QED
        BY <3>3
    <2>2. \A i \in DOMAIN cols : cols[i] \in T <=> i <= Cardinality(T)
      <3> HIDE DEF T, cols, N
      <3>1. QED
        BY <1>4, <1>8, <2>1 DEF Lists
    <2>3. \A i \in DOMAIN cols : cols[i] \in T <=> cols[i] < n
      BY <1>6
    <2> HIDE DEF T, cols, N, at
    <2>4. QED
      BY <1>6, <1>8, <2>2, <2>3
  <1>12. /\ s \in Seq(Int \X Int) /\ Len(s) = c
         /\ \A j \in 1 .. c : s[j] = <<cols[j], - G.row[n][cols[j]]>>
    <2> HIDE DEF cols, N
    <2>1. \A j \in 1 .. c : cols[j] \in Int /\ G.row[n][cols[j]] \in Int
      <3> SUFFICES ASSUME NEW j \in 1 .. c PROVE cols[j] \in Int /\ G.row[n][cols[j]] \in Int
        OBVIOUS
      <3>1. PICK m \in N : m = cols[j]
        BY <1>6
      <3>2. m \in Int /\ G.row[n][m] \in Nat
        BY <1>3
      <3>3. QED
        BY <3>1, <3>2
    <2>2. s \in [1 .. c -> Int \X Int]
      BY <1>6, <2>1
    <2>3. QED
      BY <1>6, <2>2
  <1>13. r = InsertAt(s, at, <<n, degree>>)
    BY DEF LaplacianRow
  <1> HIDE DEF s, r, at, degree, cols, N
  <1>14. PICK S, x : S = Int \X Int /\ x = <<n, degree>>
    OBVIOUS
  <1>15. s \in Seq(S) /\ x \in S /\ at \in 1 .. (Len(s) + 1)
    BY <1>2, <1>7, <1>8, <1>12, <1>14
  <1>16. /\ DOMAIN InsertAt(s, at, x) = 1 .. (Len(s) + 1)
         /\ \A j \in 1 .. (Len(s) + 1) :
              InsertAt(s, at, x)[j] = IF j < at THEN s[j] ELSE IF j = at THEN x ELSE s[j - 1]
    BY <1>15, Inserted
  <1>17. DOMAIN r = 1 .. (c + 1) /\ at \in 1 .. (c + 1)
    BY <1>12, <1>13, <1>14, <1>15, <1>16
  <1>18. ASSUME NEW j \in 1 .. (c + 1)
         PROVE  r[j] = IF j < at THEN <<cols[j], - G.row[n][cols[j]]>>
                       ELSE IF j = at THEN <<n, degree>>
                       ELSE <<cols[j - 1], - G.row[n][cols[j - 1]]>>
    <2>1. r[j] = IF j < at THEN s[j] ELSE IF j = at THEN x ELSE s[j - 1]
      BY <1>12, <1>13, <1>14, <1>16
    <2>2. CASE j < at
      <3>1. j \in 1 .. c
        BY <1>17, <2>2
      <3>2. QED
        BY <1>12, <2>1, <2>2, <3>1
    <2>3. CASE j = at
      BY <1>14, <2>1, <2>3
    <2>4. CASE j > at
      <3>1. j - 1 \in 1 .. c /\ ~ (j < at) /\ j # at
        BY <1>17, <2>4
      <3>2. QED
        BY <1>12, <2>1, <3>1
    <2>5. QED
      BY <1>17, <2>2, <2>3, <2>4
  <1>19. RowIs(r, N, n, cols, at, G.row[n], degree)
    BY <1>5, <1>6, <1>9, <1>10, <1>11, <1>17, <1>18 DEF RowIs
  <1>20. QED
    BY <1>19 DEF r, N, degree

\* Such a row is sorted.
LEMMA RowSorted ==
  ASSUME NEW r, NEW N, N \subseteq Int, NEW n \in Int, n \notin N, NEW cols, NEW at,
         NEW entry, NEW degree, RowIs(r, N, n, cols, at, entry, degree)
  PROVE  \A i, j \in DOMAIN r : i < j => r[i][1] < r[j][1]
  <1>1. PICK c \in Nat : c = Cardinality(N)
    BY DEF RowIs
  <1>2. /\ DOMAIN r = 1 .. (c + 1) /\ at \in 1 .. (c + 1)
        /\ \A j \in DOMAIN r :
             r[j] = IF j < at THEN <<cols[j], - entry[cols[j]]>>
                    ELSE IF j = at THEN <<n, degree>>
                    ELSE <<cols[j - 1], - entry[cols[j - 1]]>>
        /\ DOMAIN cols = 1 .. c
        /\ \A i \in DOMAIN cols : cols[i] \in N /\ (cols[i] < n <=> i < at)
        /\ \A i, j \in DOMAIN cols : cols[i] < cols[j] <=> i < j
    BY <1>1 DEF RowIs
  <1>3. \A i \in 1 .. c : cols[i] \in Int /\ cols[i] # n
    BY <1>2
  <1> SUFFICES ASSUME NEW i \in DOMAIN r, NEW j \in DOMAIN r, i < j PROVE r[i][1] < r[j][1]
    OBVIOUS
  <1>4. i \in Int /\ j \in Int /\ at \in Int
    BY <1>2
  <1>5. CASE i < at
    <2>1. r[i][1] = cols[i] /\ i \in 1 .. c /\ cols[i] < n
      BY <1>2, <1>4, <1>5
    <2>2. CASE j < at
      <3>1. r[j][1] = cols[j] /\ j \in 1 .. c
        BY <1>2, <1>4, <2>2
      <3>2. QED
        BY <1>2, <2>1, <3>1
    <2>3. CASE j = at
      BY <1>2, <2>1, <2>3
    <2>4. CASE j > at
      <3>1. r[j][1] = cols[j - 1] /\ j - 1 \in 1 .. c /\ ~ (j - 1 < at)
        BY <1>2, <1>4, <2>4
      <3>2. cols[j - 1] > n
        BY <1>2, <1>3, <3>1
      <3>3. QED
        BY <1>3, <2>1, <3>1, <3>2
    <2>5. QED
      BY <1>4, <2>2, <2>3, <2>4
  <1>6. CASE i = at
    <2>1. r[i][1] = n
      BY <1>2, <1>6
    <2>2. r[j][1] = cols[j - 1] /\ j - 1 \in 1 .. c /\ ~ (j - 1 < at)
      BY <1>2, <1>4, <1>6
    <2>3. cols[j - 1] > n
      BY <1>2, <1>3, <2>2
    <2>4. QED
      BY <2>1, <2>2, <2>3
  <1>7. CASE i > at
    <2>1. r[i][1] = cols[i - 1] /\ i - 1 \in 1 .. c
      BY <1>2, <1>4, <1>7
    <2>2. r[j][1] = cols[j - 1] /\ j - 1 \in 1 .. c
      BY <1>2, <1>4, <1>7
    <2>3. i - 1 < j - 1
      BY <1>4
    <2>4. QED
      BY <1>2, <2>1, <2>2, <2>3
  <1>8. QED
    BY <1>4, <1>5, <1>6, <1>7

\* Its entries cancel.
LEMMA RowCancels ==
  ASSUME NEW r, NEW N, IsFiniteSet(N), NEW n, NEW cols, NEW at,
         NEW entry, \A m \in N : entry[m] \in Int,
         RowIs(r, N, n, cols, at, entry, WeightOf(entry, N))
  PROVE  SumOf([j \in DOMAIN r |-> r[j][2]]) = 0
  <1> DEFINE v == [j \in DOMAIN r |-> r[j][2]]
             D == DOMAIN r
             degree == WeightOf(entry, N)
             neg == [m \in N |-> - entry[m]]
             f == [j \in DOMAIN cols |-> - entry[cols[j]]]
             b == [j \in DOMAIN cols |-> IF j < at THEN j ELSE j + 1]
  <1>1. PICK c \in Nat : c = Cardinality(N)
    BY DEF RowIs
  <1>2. /\ D = 1 .. (c + 1) /\ at \in 1 .. (c + 1)
        /\ \A j \in D :
             r[j] = IF j < at THEN <<cols[j], - entry[cols[j]]>>
                    ELSE IF j = at THEN <<n, degree>>
                    ELSE <<cols[j - 1], - entry[cols[j - 1]]>>
        /\ DOMAIN cols = 1 .. c
        /\ \A i \in DOMAIN cols : cols[i] \in N
        /\ \A i, j \in DOMAIN cols : cols[i] < cols[j] <=> i < j
        /\ \A m \in N : \E i \in DOMAIN cols : cols[i] = m
    BY <1>1 DEF RowIs
  <1>3. degree = Sum(entry, N) /\ degree \in Int
    BY WeightIsSum, WeightType
  <1>4. Sum(neg, N) = - degree
    <2>1. PICK m1 \in Int : m1 = - 1
      OBVIOUS
    <2>2. \A m \in N : entry[m] \in Int /\ neg[m] = m1 * entry[m]
      BY <2>1
    <2> HIDE DEF neg, degree
    <2>3. Sum(neg, N) = m1 * Sum(entry, N)
      BY <2>2, SumScale
    <2>4. QED
      BY <1>3, <2>1, <2>3
  <1>5. Sum(f, 1 .. c) = Sum(neg, N)
    <2>1. PICK I : I = 1 .. c
      OBVIOUS
    <2>2. IsFiniteSet(I)
      BY <2>1, FS_Interval
    <2>3. \A i, j \in I : cols[i] = cols[j] => i = j
      <3> SUFFICES ASSUME NEW i \in I, NEW j \in I, cols[i] = cols[j] PROVE i = j
        OBVIOUS
      <3>1. (cols[i] < cols[j] <=> i < j) /\ (cols[j] < cols[i] <=> j < i)
            /\ (cols[i] < cols[i] <=> i < i) /\ i \in Int /\ j \in Int
        BY <1>2, <2>1
      <3>2. QED
        BY <3>1
    <2>4. \A j \in I : f[j] = neg[cols[j]] /\ f[j] \in Int
      BY <1>2, <2>1
    <2>5. {cols[j] : j \in I} = N
      BY <1>2, <2>1
    <2> HIDE DEF f, neg
    <2>6. Sum(f, I) = Sum(neg, {cols[j] : j \in I})
      BY ONLY <2>2, <2>3, <2>4, SumRename
    <2>7. QED
      BY <2>1, <2>5, <2>6
  <1>6. \A j \in D : v[j] \in Int
    <2> SUFFICES ASSUME NEW j \in D PROVE v[j] \in Int
      OBVIOUS
    <2>1. v[j] = r[j][2]
      OBVIOUS
    <2>2. CASE j < at
      <3>1. j \in DOMAIN cols
        BY <1>2, <2>2
      <3>2. v[j] = - entry[cols[j]] /\ entry[cols[j]] \in Int
        BY <1>2, <2>1, <2>2, <3>1
      <3>3. QED
        BY <3>2
    <2>3. CASE j = at
      BY <1>2, <1>3, <2>1, <2>3
    <2>4. CASE j > at
      <3>1. j - 1 \in DOMAIN cols /\ ~ (j < at) /\ j # at
        BY <1>2, <2>4
      <3>2. v[j] = - entry[cols[j - 1]] /\ entry[cols[j - 1]] \in Int
        BY <1>2, <2>1, <3>1
      <3>3. QED
        BY <3>2
    <2>5. QED
      BY <1>2, <2>2, <2>3, <2>4
  <1>7. v[at] = degree
    BY <1>2
  <1>8. Sum(f, 1 .. c) = Sum(v, D \ {at})
    <2>1. PICK I, E : I = 1 .. c /\ E = D \ {at}
      OBVIOUS
    <2>2. IsFiniteSet(I)
      BY <2>1, FS_Interval
    <2>3. \A j \in I : /\ b[j] \in E /\ f[j] = v[b[j]] /\ f[j] \in Int
                       /\ b[j] = IF j < at THEN j ELSE j + 1
      <3> SUFFICES ASSUME NEW j \in I
                   PROVE  /\ b[j] \in E /\ f[j] = v[b[j]] /\ f[j] \in Int
                          /\ b[j] = IF j < at THEN j ELSE j + 1
        OBVIOUS
      <3>1. j \in 1 .. c /\ j \in DOMAIN cols /\ cols[j] \in N
        BY <1>2, <2>1
      <3>2. f[j] = - entry[cols[j]] /\ f[j] \in Int
        BY <3>1
      <3>3. b[j] = IF j < at THEN j ELSE j + 1
        BY <3>1
      <3>4. CASE j < at
        <4>1. b[j] = j /\ j \in D /\ j # at
          BY <1>2, <3>1, <3>3, <3>4
        <4>2. v[j] = - entry[cols[j]]
          BY <1>2, <3>4, <4>1
        <4>3. QED
          BY <2>1, <3>2, <3>3, <4>1, <4>2
      <3>5. CASE ~ (j < at)
        <4>1. b[j] = j + 1 /\ j + 1 \in D /\ j + 1 # at /\ ~ (j + 1 < at) /\ (j + 1) - 1 = j
          BY <1>2, <3>1, <3>3, <3>5
        <4>2. v[j + 1] = - entry[cols[j]]
          BY <1>2, <4>1
        <4>3. QED
          BY <2>1, <3>2, <3>3, <4>1, <4>2
      <3>6. QED
        BY <3>4, <3>5
    <2>4. \A i, j \in I : b[i] = b[j] => i = j
      <3> SUFFICES ASSUME NEW i \in I, NEW j \in I, b[i] = b[j] PROVE i = j
        OBVIOUS
      <3>1. i \in Int /\ j \in Int /\ at \in Int
        BY <1>2, <2>1
      <3>2. /\ b[i] = IF i < at THEN i ELSE i + 1
            /\ b[j] = IF j < at THEN j ELSE j + 1
        BY <2>3
      <3>3. \A x, y, z \in Int :
              (IF x < z THEN x ELSE x + 1) = (IF y < z THEN y ELSE y + 1) => x = y
        OBVIOUS
      <3>4. (IF i < at THEN i ELSE i + 1) = (IF j < at THEN j ELSE j + 1)
        BY <3>2
      <3>5. QED
        BY ONLY <3>1, <3>3, <3>4
    <2>5. \A d \in E : \E j \in I : b[j] = d
      <3> SUFFICES ASSUME NEW d \in E PROVE \E j \in I : b[j] = d
        OBVIOUS
      <3>1. d \in 1 .. (c + 1) /\ d # at
        BY <1>2, <2>1
      <3>2. CASE d < at
        <4>1. d \in I
          BY <1>2, <2>1, <3>1, <3>2
        <4>2. QED
          BY <2>3, <3>2, <4>1
      <3>3. CASE d > at
        <4>1. d - 1 \in I /\ ~ (d - 1 < at) /\ (d - 1) + 1 = d
          BY <1>2, <2>1, <3>1, <3>3
        <4>2. PICK j \in I : j = d - 1
          BY <4>1
        <4>3. b[j] = IF j < at THEN j ELSE j + 1
          BY <2>3
        <4> HIDE DEF b
        <4>4. b[j] = d
          BY <4>1, <4>2, <4>3
        <4>5. QED
          BY <4>4
      <3>4. d < at \/ d > at
        BY <1>2, <3>1
      <3>5. QED
        BY <3>2, <3>3, <3>4
    <2> HIDE DEF f, b, v, D
    <2>6. {b[j] : j \in I} = E
      BY <2>3, <2>5
    <2>7. Sum(f, I) = Sum(v, {b[j] : j \in I})
      BY ONLY <2>2, <2>3, <2>4, SumRename
    <2>8. QED
      BY <2>1, <2>6, <2>7
  <1> HIDE DEF v, D, degree, neg, f, b
  <1>9. Sum(v, D) = v[at] + Sum(v, D \ {at})
    <2>1. IsFiniteSet(D)
      <3>1. PICK k \in Int, l \in Int : k = 1 /\ l = c + 1
        OBVIOUS
      <3>2. IsFiniteSet(k .. l)
        BY FS_Interval
      <3>3. QED
        BY <1>2, <3>1, <3>2
    <2>2. QED
      BY <1>2, <1>6, <2>1, SumRemove
  <1>10. Sum(v, D) = 0
    BY <1>3, <1>4, <1>5, <1>7, <1>8, <1>9
  <1>11. SumOf(v) = Sum(v, DOMAIN v) /\ DOMAIN v = D
    BY SumOfIsSum DEF v, D
  <1>12. QED
    BY <1>10, <1>11 DEF v

\* The rows of the Laplacian stay sorted and add up to zero.
LEMMA LaplacianDoes ==
  ASSUME NEW G, IsGraph(G)
  PROVE  LaplacianIsOne(G)
  <1> SUFFICES ASSUME NEW n \in DOMAIN G.row
               PROVE  LET r == LaplacianRow(G.row, n)
                      IN  /\ SumOf([j \in DOMAIN r |-> r[j][2]]) = 0
                          /\ \A i, j \in DOMAIN r : i < j => r[i][1] < r[j][1]
    BY DEF LaplacianIsOne
  <1>1. PICK r, N, entry : r = LaplacianRow(G.row, n) /\ N = Neighbors(G.row, n) /\ entry = G.row[n]
    OBVIOUS
  <1>2. PICK cols, at : RowIs(r, N, n, cols, at, entry, WeightOf(entry, N))
    BY <1>1, RowOf
  <1>3. N \in SUBSET DOMAIN G.row /\ n \notin N /\ DOMAIN G.row \subseteq Nat
        /\ IsFiniteSet(DOMAIN G.row)
    BY <1>1, GraphParts DEF Neighbors, GraphIs
  <1>4. IsFiniteSet(N) /\ N \subseteq Int /\ n \in Int
    BY <1>3, FS_Subset
  <1>5. \A m \in N : entry[m] \in Int
    BY <1>1, <1>3, GraphParts DEF GraphIs
  <1>6. SumOf([j \in DOMAIN r |-> r[j][2]]) = 0
    BY <1>2, <1>4, <1>5, RowCancels
  <1>7. \A i, j \in DOMAIN r : i < j => r[i][1] < r[j][1]
    BY <1>2, <1>3, <1>4, RowSorted
  <1>8. QED
    BY <1>1, <1>6, <1>7

-----------------------------------------------------------------------------
(***************************************************************************)
(* The mapping.                                                            *)
(***************************************************************************)

\* A function from a finite set into itself that identifies nothing misses nothing.
LEMMA OneToOneIsOnto ==
  ASSUME NEW S, IsFiniteSet(S), NEW f \in [S -> S], \A x, y \in S : f[x] = f[y] => x = y
  PROVE  {f[x] : x \in S} = S
  <1> DEFINE T == {f[x] : x \in S}
  <1>1. T \in SUBSET S
    OBVIOUS
  <1>2. f \in [S -> T]
    OBVIOUS
  <1>3. SUFFICES ASSUME T # S PROVE FALSE
    OBVIOUS
  <1>4. IsFiniteSet(T) /\ Cardinality(T) < Cardinality(S)
    <2> HIDE DEF T
    <2>1. IsFiniteSet(T) /\ Cardinality(T) <= Cardinality(S) /\ Cardinality(T) # Cardinality(S)
      BY <1>1, <1>3, FS_Subset
    <2>2. Cardinality(T) \in Nat /\ Cardinality(S) \in Nat
      BY <2>1, FS_CardinalityType
    <2>3. QED
      BY <2>1, <2>2
  <1> HIDE DEF T
  <1>5. \E x, y \in S : x # y /\ f[x] = f[y]
    BY ONLY IsFiniteSet(S), <1>2, <1>4, FS_PigeonHole
  <1>6. QED
    BY <1>5

\* The sum of the first natural numbers.
LEMMA SumOfFirst ==
  ASSUME NEW id, \A i \in Nat : id[i] = i, NEW k \in Nat
  PROVE  2 * Sum(id, 0 .. (k - 1)) = k * (k - 1) /\ Sum(id, 0 .. (k - 1)) \in Int
  <1> DEFINE Right(j) == 2 * Sum(id, 0 .. (j - 1)) = j * (j - 1)
             T == {j \in Nat : ~ Right(j)}
  <1>1. \A j \in Nat : IsFiniteSet(0 .. (j - 1)) /\ \A i \in 0 .. (j - 1) : id[i] \in Int
    <2> SUFFICES ASSUME NEW j \in Nat
                 PROVE  IsFiniteSet(0 .. (j - 1)) /\ \A i \in 0 .. (j - 1) : id[i] \in Int
      OBVIOUS
    <2>1. \A i \in 0 .. (j - 1) : i \in Nat /\ i \in Int
      OBVIOUS
    <2>2. QED
      BY <2>1, FS_Interval
  <1>2. \A j \in Nat : Sum(id, 0 .. (j - 1)) \in Int
    BY <1>1, SumType
  <1>3. T = {}
    <2>1. SUFFICES ASSUME T # {} PROVE FALSE
      OBVIOUS
    <2>2. PICK j \in T : \A i \in T : j <= i
      <3>1. T \in SUBSET Nat
        OBVIOUS
      <3> HIDE DEF T
      <3>2. QED
        BY <2>1, <3>1, LeastNatural
    <2>3. j \in Nat /\ ~ Right(j)
      OBVIOUS
    <2>4. j # 0
      <3>1. 0 .. (0 - 1) = {}
        OBVIOUS
      <3>2. Right(0)
        BY <3>1, SumEmpty
      <3>3. QED
        BY <2>3, <3>2
    <2>5. PICK i \in Nat : j = i + 1 /\ ~ (j <= i)
      <3>1. \A x \in Nat : x # 0 => x - 1 \in Nat /\ x = (x - 1) + 1 /\ ~ (x <= x - 1)
        OBVIOUS
      <3>2. QED
        BY <2>3, <2>4, <3>1
    <2>6. Right(i)
      BY <2>2, <2>5
    <2> HIDE DEF T
    <2>7. Sum(id, 0 .. (j - 1)) = Sum(id, 0 .. (i - 1)) + i
      <3>1. 0 .. (j - 1) = (0 .. (i - 1)) \cup {i} /\ i \notin 0 .. (i - 1)
        BY <2>5
      <3>2. WeightOf(id, (0 .. (i - 1)) \cup {i}) = WeightOf(id, 0 .. (i - 1)) + id[i]
        <4>1. \A x \in (0 .. (i - 1)) \cup {i} : id[x] \in Int
          BY <1>1
        <4>2. QED
          BY <1>1, <3>1, <4>1, WeightAdd
      <3>3. QED
        BY <3>1, <3>2, WeightIsSum
    <2>8. PICK s \in Int : s = Sum(id, 0 .. (i - 1)) /\ 2 * s = i * (i - 1)
                           /\ Sum(id, 0 .. (j - 1)) = s + i
      BY <1>2, <2>6, <2>7
    <2>9. 2 * (s + i) = j * (j - 1)
      <3>1. (i + 1) * i = i * (i - 1) + 2 * i /\ i * (i - 1) \in Int
        OBVIOUS
      <3>2. QED
        BY <2>5, <2>8, <3>1
    <2>10. QED
      BY <2>3, <2>8, <2>9
  <1>4. QED
    BY <1>2, <1>3

\* The checksum of a permutation.
LEMMA ChecksumOfPermutation ==
  ASSUME NEW f \in [BlockIds -> BlockIds], \A b, c \in BlockIds : f[b] = f[c] => b = c
  PROVE  SumOf(f) = (K * (K - 1)) \div 2
  <1>1. PICK k \in Nat : k = K /\ BlockIds = 0 .. (k - 1)
    BY SizesAssumption DEF BlockIds
  <1>2. PICK D : D = BlockIds /\ IsFiniteSet(D) /\ D \subseteq Nat
    BY IndexSets
  <1>3. PICK id : id = [i \in Nat |-> i]
    OBVIOUS
  <1>4. \A x \in D : f[x] = id[f[x]] /\ f[x] \in Int
    <2> SUFFICES ASSUME NEW x \in D PROVE f[x] = id[f[x]] /\ f[x] \in Int
      OBVIOUS
    <2>1. PICK y \in Nat : y = f[x]
      BY <1>2
    <2>2. id[y] = y
      BY <1>3
    <2>3. QED
      BY <2>1, <2>2
  <1>5. \A x, y \in D : f[x] = f[y] => x = y
    BY <1>2
  <1>6. {f[x] : x \in D} = D
    <2>1. f \in [D -> D]
      BY <1>2
    <2>2. QED
      BY ONLY <1>2, <1>5, <2>1, OneToOneIsOnto
  <1>7. Sum(f, D) = Sum(id, {f[x] : x \in D})
    <2>1. PICK h : h = f
      OBVIOUS
    <2>2. /\ \A x, y \in D : h[x] = h[y] => x = y
          /\ \A x \in D : f[x] = id[h[x]] /\ f[x] \in Int
      BY <1>4, <1>5, <2>1
    <2>3. IsFiniteSet(D)
      BY <1>2
    <2>4. Sum(f, D) = Sum(id, {h[x] : x \in D})
      BY ONLY <2>2, <2>3, SumRename
    <2>5. QED
      BY <2>1, <2>4
  <1>8. \A i \in Nat : id[i] = i
    BY <1>3
  <1>9. 2 * Sum(id, 0 .. (k - 1)) = k * (k - 1) /\ Sum(id, 0 .. (k - 1)) \in Int
    BY ONLY <1>1, <1>8, SumOfFirst
  <1>10. SumOf(f) = Sum(f, D)
    BY <1>2, SumOfIsSum
  <1>11. PICK s \in Int : s = SumOf(f) /\ 2 * s = k * (k - 1)
    BY <1>1, <1>2, <1>6, <1>7, <1>9, <1>10
  <1>12. PICK q : q = k * (k - 1) /\ 2 * s = q
    BY <1>11
  <1>13. q \div 2 = s
    BY <1>12
  <1>14. QED
    BY <1>1, <1>11, <1>12, <1>13

\* Nothing that is computed from the graph changes afterwards.
Fixed ==
  /\ IsGraph(g) /\ IsNetwork(network) /\ IsConnected(network)
  /\ phase \in {"renumber", "blocks", "counted", "map", "search", "done"}
  /\ phase \notin {"renumber", "blocks"} =>
       counts = CountsOf(g) /\ lists = [p \in PE |-> LocalBlockEdges(g, p)]
  /\ phase \in {"map", "search", "done"} => csr = GetBlockGraph(CountsOf(g), K)

\* A renumbering gives every block a number.
LEMMA NewNumbers ==
  ASSUME NEW R \in SfcOrders
  PROVE  Renumbered(R) \in [BlockIds -> BlockIds]
  <1>1. R \in [BlockIds -> BlockIds] /\ \A b, c \in BlockIds : R[b] = R[c] => b = c
    BY DEF SfcOrders
  <1>2. {R[b] : b \in BlockIds} = BlockIds
    <2>1. PICK D : D = BlockIds
      OBVIOUS
    <2>2. IsFiniteSet(D) /\ R \in [D -> D] /\ \A b, c \in D : R[b] = R[c] => b = c
      BY <1>1, <2>1, IndexSets
    <2>3. {R[b] : b \in D} = D
      BY ONLY <2>2, OneToOneIsOnto
    <2>4. QED
      BY <2>1, <2>3
  <1>3. \A b \in BlockIds : (CHOOSE i \in BlockIds : R[i] = b) \in BlockIds
    <2> SUFFICES ASSUME NEW b \in BlockIds PROVE (CHOOSE i \in BlockIds : R[i] = b) \in BlockIds
      OBVIOUS
    <2>1. \E i \in BlockIds : R[i] = b
      BY <1>2
    <2>2. QED
      BY <2>1
  <1>4. QED
    BY <1>3 DEF Renumbered

\* The first state has a graph and a network as assumed.
LEMMA FixedInit == Init => Fixed
  <1> SUFFICES ASSUME Init PROVE Fixed
    OBVIOUS
  <1>1. PICK c \in Cases : g = c.graph /\ network = c.network
    BY DEF Init
  <1>2. phase = "renumber"
    BY DEF Init
  <1>3. IsGraph(g) /\ IsNetwork(network) /\ IsConnected(network)
    BY <1>1, CasesAssumption
  <1>4. QED
    BY <1>2, <1>3 DEF Fixed

\* No step touches what has been computed.
LEMMA FixedNext ==
  ASSUME Fixed, [Next]_vars
  PROVE  Fixed'
  <1>1. CASE ApplySfcRenumber
    <2>1. PICK R \in SfcOrders :
            g' = [g EXCEPT !.part = [n \in DOMAIN g.part |-> Renumbered(R)[g.part[n]]]]
      BY <1>1 DEF ApplySfcRenumber
    <2>2. PICK V : V = DOMAIN g.row
      OBVIOUS
    <2>3. /\ IsFiniteSet(V) /\ V \subseteq Nat /\ V # {}
          /\ g \in [row : [V -> [V -> Nat]], owner : [V -> PE], part : [V -> BlockIds]]
          /\ \A n, m \in V : g.row[n][m] = g.row[m][n]
      BY <2>2 DEF Fixed, IsGraph
    <2>4. PICK new \in [BlockIds -> BlockIds] : new = Renumbered(R)
      BY NewNumbers
    <2>5. g' = [g EXCEPT !.part = [n \in V |-> new[g.part[n]]]]
      BY <2>1, <2>3, <2>4
    <2>6. [n \in V |-> new[g.part[n]]] \in [V -> BlockIds]
      BY <2>3
    <2>7. /\ g' \in [row : [V -> [V -> Nat]], owner : [V -> PE], part : [V -> BlockIds]]
          /\ g'.row = g.row
      BY <2>3, <2>5, <2>6
    <2>8. IsGraph(g')
      BY <2>2, <2>3, <2>7 DEF IsGraph
    <2>9. phase' = "blocks" /\ network' = network
      BY <1>1 DEF ApplySfcRenumber
    <2>10. QED
      BY <2>8, <2>9 DEF Fixed
  <1>2. CASE KeepNumbers
    BY <1>2 DEF KeepNumbers, graphVars, Fixed
  <1>3. CASE CountBlockEdges
    <2>1. counts' = CountsOf(g) /\ lists' = [p \in PE |-> LocalBlockEdges(g, p)]
      BY <1>3 DEF CountBlockEdges, CountsOf
    <2>2. g' = g /\ network' = network /\ phase' = "counted"
      BY <1>3 DEF CountBlockEdges
    <2>3. QED
      BY <2>1, <2>2 DEF Fixed, CountsOf
  <1>4. CASE BuildBlockGraph
    <2>1. counts = CountsOf(g) /\ lists = [p \in PE |-> LocalBlockEdges(g, p)]
      BY <1>4 DEF BuildBlockGraph, Fixed
    <2>2. csr' = GetBlockGraph(CountsOf(g), K) /\ counts' = counts /\ lists' = lists
          /\ g' = g /\ network' = network /\ phase' = "map"
      BY <1>4, <2>1 DEF BuildBlockGraph
    <2>3. QED
      BY <2>1, <2>2 DEF Fixed
  <1>5. CASE UNCHANGED graphVars /\ phase' \in {phase, "search", "done"}
             /\ (phase' # phase => phase \in {"map", "search"})
    <2>1. g' = g /\ network' = network /\ counts' = counts /\ lists' = lists /\ csr' = csr
      BY <1>5 DEF graphVars
    <2>2. QED
      BY <1>5, <2>1 DEF Fixed
  <1>6. CASE PickHeaviest
    BY <1>5, <1>6 DEF PickHeaviest
  <1>7. CASE MapNeighbor
    BY <1>5, <1>7 DEF MapNeighbor
  <1>8. CASE IdentityMapping
    BY <1>5, <1>8 DEF IdentityMapping
  <1>9. CASE SearchFrom
    BY <1>5, <1>9 DEF SearchFrom
  <1>10. CASE SearchPaths
    BY <1>5, <1>10 DEF SearchPaths
  <1>11. CASE AddUp
    BY <1>5, <1>11 DEF AddUp
  <1>12. CASE UNCHANGED vars
    BY <1>5, <1>12 DEF vars
  <1>13. QED
    BY <1>1, <1>2, <1>3, <1>4, <1>6, <1>7, <1>8, <1>9, <1>10, <1>11, <1>12 DEF Next

\* The entries of the block graph are numbers.
LEMMA BlockWeightType ==
  ASSUME Fixed, phase \in {"map", "search", "done"}
  PROVE  \A b, c \in BlockIds :
           /\ BlockWeight(b, c) \in Nat
           /\ BlockWeight(b, c) =
                IF b = c THEN 0
                ELSE CutBetween(g.row, {n \in DOMAIN g.row : g.part[n] = b},
                                       {n \in DOMAIN g.row : g.part[n] = c})
  <1> SUFFICES ASSUME NEW b \in BlockIds, NEW c \in BlockIds
               PROVE  /\ BlockWeight(b, c) \in Nat
                      /\ BlockWeight(b, c) =
                           IF b = c THEN 0
                           ELSE CutBetween(g.row, {n \in DOMAIN g.row : g.part[n] = b},
                                                  {n \in DOMAIN g.row : g.part[n] = c})
    OBVIOUS
  <1>1. PICK h : h = g
    OBVIOUS
  <1>2. IsGraph(h) /\ csr = GetBlockGraph(CountsOf(h), K)
    BY <1>1 DEF Fixed
  <1> DEFINE V == DOMAIN h.row
             A(x) == {n \in V : h.part[n] = x}
  <1>3. BlockWeight(b, c) = IF b = c THEN 0 ELSE CutBetween(h.row, A(b), A(c))
    <2>1. IsGraph(h)
      BY <1>2
    <2>2. \A x, y \in BlockIds :
            CSREntry(GetBlockGraph(CountsOf(h), K), x, y) =
              IF x = y THEN 0
              ELSE CutBetween(h.row, {n \in DOMAIN h.row : h.part[n] = x},
                                     {n \in DOMAIN h.row : h.part[n] = y})
      BY ONLY <2>1, BlockGraphRight
    <2>3. CSREntry(GetBlockGraph(CountsOf(h), K), b, c) =
            IF b = c THEN 0 ELSE CutBetween(h.row, A(b), A(c))
      BY <2>2
    <2>4. QED
      BY <1>2, <2>3 DEF BlockWeight
  <1>4. CutBetween(h.row, A(b), A(c)) \in Nat
    <2>1. GraphIs(h, V)
      BY <1>2, GraphParts
    <2>2. A(b) \in SUBSET V /\ A(c) \in SUBSET V
      OBVIOUS
    <2>3. \A n \in A(b), m \in A(c) : h.row[n][m] \in Nat
      BY <2>1, <2>2 DEF GraphIs
    <2>4. IsFiniteSet(A(b)) /\ IsFiniteSet(A(c))
      BY <2>1, <2>2, FS_Subset DEF GraphIs
    <2> HIDE DEF A
    <2>5. QED
      BY <2>3, <2>4, CutPositive
  <1>5. QED
    BY <1>1, <1>3, <1>4

\* Blocks and processes are given away in pairs.
MapInv ==
  /\ mapping \in [BlockIds -> BlockIds] /\ peNode \in BlockIds
  /\ mapped \subseteq discovered /\ discovered \subseteq BlockIds
  /\ mapped = {} => discovered = {}
  /\ \A b, c \in mapped : mapping[b] = mapping[c] => b = c
  /\ usedPEs = {mapping[b] : b \in mapped}
  /\ {x[2] : x \in Q} = discovered \ mapped
  /\ \A x, y \in Q : x[2] = y[2] => x = y
  /\ phase \in {"renumber", "blocks", "counted"} => discovered = {}
  /\ phase \in {"search", "done"} => mapped = BlockIds

\* The heaviest block is one of those left.
LEMMA HeaviestLeft ==
  ASSUME Fixed, phase = "map", mapped \subseteq BlockIds, mapped # BlockIds
  PROVE  Heaviest \in BlockIds \ mapped
  <1> DEFINE left == BlockIds \ mapped
             f == [b \in left |-> Degree(b)]
             S == {b \in left : \A c \in left : Degree(c) <= Degree(b)}
  <1>1. IsFiniteSet(left) /\ left # {} /\ left \subseteq Nat
    <2>1. left \in SUBSET BlockIds
      OBVIOUS
    <2>2. IsFiniteSet(left)
      BY <2>1, IndexSets, FS_Subset
    <2>3. QED
      BY <2>2, IndexSets
  <1>2. \A b \in BlockIds : Degree(b) \in Int
    <2> SUFFICES ASSUME NEW b \in BlockIds PROVE Degree(b) \in Int
      OBVIOUS
    <2>1. PICK w : w = [c \in BlockIds |-> BlockWeight(b, c)]
      OBVIOUS
    <2>2. \A c \in BlockIds : w[c] \in Int
      <3>1. \A c \in BlockIds : BlockWeight(b, c) \in Nat
        BY BlockWeightType
      <3>2. QED
        BY <2>1, <3>1
    <2>3. Degree(b) = Sum(w, BlockIds)
      <3>1. DOMAIN w = BlockIds /\ Degree(b) = SumOf(w)
        BY <2>1 DEF Degree
      <3>2. QED
        BY <3>1, SumOfIsSum
    <2>4. QED
      BY <2>2, <2>3, IndexSets, SumType
  <1>3. PICK b \in left : \A c \in left : f[c] <= f[b]
    <2>1. \A c \in left : f[c] \in Int
      BY <1>2
    <2> HIDE DEF left, f
    <2>2. QED
      BY <1>1, <2>1, FiniteMax
  <1>4. b \in S
    BY <1>3
  <1>5. S \in SUBSET left
    OBVIOUS
  <1>6. Heaviest = Min(S)
    BY Zenon DEF Heaviest
  <1> HIDE DEF S, left
  <1>7. IsFiniteSet(S) /\ S # {} /\ S \subseteq Int
    <2>1. \A x \in S : x \in Nat
      BY <1>1, <1>5
    <2>2. IsFiniteSet(S)
      BY <1>1, <1>5, FS_Subset
    <2>3. S \subseteq Int
      BY ONLY <2>1
    <2>4. QED
      BY <1>4, <2>2, <2>3
  <1>8. Min(S) \in S
    BY <1>7, Extremes
  <1>9. QED
    BY <1>5, <1>6, <1>8 DEF left

\* While a block is left there is a free process.
LEMMA ProcessLeft ==
  ASSUME MapInv, mapped # BlockIds
  PROVE  FreePEs # {} /\ IsFiniteSet(FreePEs) /\ FreePEs \subseteq BlockIds
  <1>1. mapped \in SUBSET BlockIds /\ mapping \in [BlockIds -> BlockIds]
        /\ usedPEs = {mapping[b] : b \in mapped}
    BY DEF MapInv
  <1>2. FreePEs \in SUBSET BlockIds
    BY DEF FreePEs
  <1>3. IsFiniteSet(mapped) /\ Cardinality(mapped) < Cardinality(BlockIds)
    <2>1. /\ IsFiniteSet(mapped) /\ Cardinality(mapped) <= Cardinality(BlockIds)
          /\ Cardinality(mapped) # Cardinality(BlockIds)
      BY <1>1, IndexSets, FS_Subset
    <2>2. Cardinality(mapped) \in Nat /\ Cardinality(BlockIds) \in Nat
      BY <2>1, IndexSets, FS_CardinalityType
    <2>3. QED
      BY <2>1, <2>2
  <1>4. usedPEs # BlockIds
    <2>1. SUFFICES ASSUME usedPEs = BlockIds PROVE FALSE
      OBVIOUS
    <2>2. PICK first : first = [p \in BlockIds |-> CHOOSE b \in mapped : mapping[b] = p]
      OBVIOUS
    <2>3. \A p \in BlockIds : first[p] \in mapped /\ mapping[first[p]] = p
      <3> SUFFICES ASSUME NEW p \in BlockIds PROVE first[p] \in mapped /\ mapping[first[p]] = p
        OBVIOUS
      <3>1. \E b \in mapped : mapping[b] = p
        BY <1>1, <2>1
      <3>2. QED
        BY <2>2, <3>1
    <2>4. first \in [BlockIds -> mapped]
      BY <2>2, <2>3
    <2>5. PICK D, M : D = BlockIds /\ M = mapped
      OBVIOUS
    <2>6. IsFiniteSet(D) /\ IsFiniteSet(M) /\ Cardinality(M) < Cardinality(D) /\ first \in [D -> M]
      BY <1>3, <2>4, <2>5, IndexSets
    <2>7. PICK p, q \in D : p # q /\ first[p] = first[q]
      BY ONLY <2>6, FS_PigeonHole
    <2>8. QED
      BY <2>3, <2>5, <2>7
  <1>5. FreePEs # {}
    BY <1>1, <1>4 DEF FreePEs
  <1>6. QED
    BY <1>2, <1>5, IndexSets, FS_Subset

\* The process that is chosen is one of them.
LEMMA ClosestFree ==
  ASSUME Fixed, MapInv, mapped # BlockIds,
         NEW hops, hops = LocalBFS(network, peNode)
  PROVE  Min({p \in FreePEs : \A q \in FreePEs : hops[p] <= hops[q]}) \in FreePEs
  <1> DEFINE S == {p \in FreePEs : \A q \in FreePEs : hops[p] <= hops[q]}
  <1>1. FreePEs # {} /\ IsFiniteSet(FreePEs) /\ FreePEs \subseteq BlockIds
    BY ProcessLeft
  <1>2. \A p \in BlockIds : hops[p] \in Nat
    <2>1. PICK w, u : w = network /\ u = peNode
      OBVIOUS
    <2>2. DOMAIN w = BlockIds /\ IsFiniteSet(DOMAIN w) /\ u \in DOMAIN w /\ Far \in Nat
          /\ Cardinality(DOMAIN w) < Far
      BY <2>1, NodesFinite DEF Fixed, IsNetwork, MapInv
    <2>3. IsHops(w, u, LocalBFS(w, u))
      BY <2>2, Hops
    <2>4. QED
      BY <2>1, <2>2, <2>3 DEF IsHops
  <1>3. PICK p \in FreePEs : \A q \in FreePEs : hops[p] <= hops[q]
    <2>1. PICK F, f : F = FreePEs /\ f = [p \in F |-> 0 - hops[p]]
      OBVIOUS
    <2>2. \A p \in F : f[p] = 0 - hops[p] /\ hops[p] \in Nat
      BY <1>1, <1>2, <2>1
    <2>3. \A p \in F : f[p] \in Int
      BY <2>2
    <2>4. IsFiniteSet(F) /\ F # {}
      BY <1>1, <2>1
    <2>5. PICK p \in F : \A q \in F : f[q] <= f[p]
      BY ONLY <2>3, <2>4, FiniteMax
    <2>6. \A q \in F : hops[p] <= hops[q]
      BY <2>2, <2>5
    <2>7. QED
      BY <2>1, <2>6
  <1>4. S # {} /\ S \in SUBSET FreePEs
    BY <1>3
  <1> HIDE DEF S
  <1>5. IsFiniteSet(S) /\ S \subseteq Int
    <2>1. \A x \in S : x \in Nat
      BY <1>1, <1>4, IndexSets
    <2>2. IsFiniteSet(S)
      BY <1>1, <1>4, FS_Subset
    <2>3. S \subseteq Int
      BY ONLY <2>1
    <2>4. QED
      BY <2>2, <2>3
  <1>6. Min(S) \in S
    BY <1>4, <1>5, Extremes
  <1>7. QED
    BY <1>4, <1>6 DEF S

\* At first nothing is mapped.
LEMMA MapInit == Init => MapInv
  <1> SUFFICES ASSUME Init PROVE MapInv
    OBVIOUS
  <1>1. /\ mapping = [b \in BlockIds |-> 0] /\ peNode = 0 /\ phase = "renumber"
        /\ mapped = {} /\ discovered = {} /\ usedPEs = {} /\ Q = {}
    BY DEF Init
  <1>2. mapping \in [BlockIds -> BlockIds] /\ peNode \in BlockIds
    BY <1>1, IndexSets
  <1>3. QED
    BY <1>1, <1>2 DEF MapInv

\* One more block gets a process of its own.
Gives(b, p) ==
  /\ b \in BlockIds \ mapped /\ p \in BlockIds \ usedPEs
  /\ mapping' = [mapping EXCEPT ![b] = p]
  /\ mapped' = mapped \cup {b} /\ usedPEs' = usedPEs \cup {p}

\* A free process for a block without one keeps the pairs apart.
LEMMA GiveKeeps ==
  ASSUME MapInv, NEW b, NEW p, Gives(b, p)
  PROVE  /\ mapping' \in [BlockIds -> BlockIds] /\ mapped' \subseteq BlockIds
         /\ \A c, d \in mapped' : mapping'[c] = mapping'[d] => c = d
         /\ usedPEs' = {mapping'[c] : c \in mapped'}
  <1>1. /\ mapping \in [BlockIds -> BlockIds] /\ mapped \subseteq BlockIds
        /\ \A c, d \in mapped : mapping[c] = mapping[d] => c = d
        /\ usedPEs = {mapping[c] : c \in mapped}
    BY DEF MapInv
  <1>2. /\ b \in BlockIds /\ b \notin mapped /\ p \in BlockIds /\ p \notin usedPEs
        /\ mapping' = [mapping EXCEPT ![b] = p]
        /\ mapped' = mapped \cup {b} /\ usedPEs' = usedPEs \cup {p}
    BY DEF Gives
  <1>3. mapping' \in [BlockIds -> BlockIds] /\ mapped' \subseteq BlockIds
    BY <1>1, <1>2
  <1>4. mapping'[b] = p /\ \A c \in mapped : mapping'[c] = mapping[c] /\ mapping[c] # p
    BY <1>1, <1>2
  <1>5. \A c, d \in mapped' : mapping'[c] = mapping'[d] => c = d
    BY <1>1, <1>2, <1>4
  <1>6. \A x : x \in usedPEs' <=> \E c \in mapped' : x = mapping'[c]
    BY <1>1, <1>2, <1>4
  <1>7. QED
    BY <1>3, <1>5, <1>6

\* The heaviest block left is mapped to a free process.
LEMMA PickKeeps ==
  ASSUME Fixed, MapInv, PickHeaviest
  PROVE  MapInv'
  <1> DEFINE b == Heaviest
             new == {c \in BlockIds \ (discovered \cup {b}) : BlockWeight(b, c) > 0}
  <1>1. /\ phase = "map" /\ Q = {} /\ mapped # BlockIds /\ phase' = phase
        /\ peNode' \in IF peNode \in usedPEs THEN BlockIds \ usedPEs ELSE {peNode}
        /\ mapping' = [mapping EXCEPT ![b] = peNode']
        /\ mapped' = mapped \cup {b} /\ usedPEs' = usedPEs \cup {peNode'}
        /\ discovered' = discovered \cup {b} \cup new
        /\ Q' = {<<BlockWeight(b, c), c>> : c \in new}
    BY DEF PickHeaviest
  <1>2. b \in BlockIds \ mapped
    BY <1>1, HeaviestLeft DEF MapInv
  <1>3. peNode' \in BlockIds \ usedPEs
    BY <1>1 DEF MapInv
  <1>4. new \subseteq BlockIds /\ \A c \in new : c \notin discovered /\ c # b
    OBVIOUS
  <1>5. /\ \A x : x \in {y[2] : y \in Q'} <=> x \in new
        /\ \A x, y \in Q' : x[2] = y[2] => x = y
    <2> HIDE DEF new, b
    <2>1. \A y \in Q' : \E c \in new : y = <<BlockWeight(b, c), c>> /\ y[2] = c
      BY <1>1
    <2>2. \A c \in new : \E y \in Q' : y[2] = c
      <3> SUFFICES ASSUME NEW c \in new PROVE \E y \in Q' : y[2] = c
        OBVIOUS
      <3>1. PICK y : y = <<BlockWeight(b, c), c>>
        OBVIOUS
      <3>2. y \in Q' /\ y[2] = c
        BY <1>1, <3>1
      <3>3. QED
        BY <3>2
    <2>3. QED
      BY <2>1, <2>2
  <1> HIDE DEF b, new
  <1>6. Gives(b, peNode')
    BY <1>1, <1>2, <1>3 DEF Gives
  <1>7. /\ mapping' \in [BlockIds -> BlockIds] /\ mapped' \subseteq BlockIds
        /\ \A c, d \in mapped' : mapping'[c] = mapping'[d] => c = d
        /\ usedPEs' = {mapping'[c] : c \in mapped'}
    BY <1>6, GiveKeeps
  <1>8. discovered = mapped
    BY <1>1 DEF MapInv
  <1>9. {x[2] : x \in Q'} = discovered' \ mapped'
    BY <1>1, <1>4, <1>5, <1>8
  <1>10. mapped' \subseteq discovered' /\ discovered' \subseteq BlockIds /\ mapped' # {}
    <2>1. mapped \subseteq BlockIds
      BY <1>8 DEF MapInv
    <2>2. QED
      BY <1>1, <1>2, <1>4, <1>8, <2>1
  <1>11. QED
    BY <1>1, <1>3, <1>5, <1>7, <1>9, <1>10 DEF MapInv

\* A neighbour from the queue is mapped to a free process.
LEMMA NeighborKeeps ==
  ASSUME Fixed, MapInv, MapNeighbor
  PROVE  MapInv'
  <1> DEFINE hops == LocalBFS(network, peNode)
             closest == Min({q \in FreePEs : \A r \in FreePEs : hops[q] <= hops[r]})
  <1>0. PICK top \in Q :
          /\ phase = "map" /\ phase' = phase /\ peNode' = peNode
          /\ Q' = Q \ {top} /\ mapping' = [mapping EXCEPT ![top[2]] = closest]
          /\ mapped' = mapped \cup {top[2]} /\ discovered' = discovered \cup {top[2]}
          /\ usedPEs' = usedPEs \cup {closest}
    BY DEF MapNeighbor
  <1>1. PICK p : p = closest
    OBVIOUS
  <1>d. /\ Q' = Q \ {top} /\ mapping' = [mapping EXCEPT ![top[2]] = p]
        /\ mapped' = mapped \cup {top[2]} /\ usedPEs' = usedPEs \cup {p}
    BY <1>0, <1>1
  <1>2. PICK b : b = top[2]
    OBVIOUS
  <1>3. b \in discovered \ mapped /\ b \in BlockIds
    BY <1>2 DEF MapInv
  <1>4. mapped # BlockIds
    BY <1>3
  <1>5. p \in BlockIds \ usedPEs
    <2>1. closest \in FreePEs
      BY <1>4, ClosestFree
    <2>2. QED
      BY <1>1, <2>1 DEF FreePEs
  <1> HIDE DEF closest, hops
  <1>6. Gives(b, p)
    BY <1>2, <1>3, <1>5, <1>d DEF Gives
  <1>7. /\ mapping' \in [BlockIds -> BlockIds] /\ mapped' \subseteq BlockIds
        /\ \A c, d \in mapped' : mapping'[c] = mapping'[d] => c = d
        /\ usedPEs' = {mapping'[c] : c \in mapped'}
    BY <1>6, GiveKeeps
  <1>8. {x[2] : x \in Q'} = discovered' \ mapped'
    <2>1. /\ {x[2] : x \in Q} = discovered \ mapped
          /\ \A x, y \in Q : x[2] = y[2] => x = y
      BY DEF MapInv
    <2>2. \A c : c \in {x[2] : x \in Q'} <=> c \in {x[2] : x \in Q} /\ c # b
      BY <1>0, <1>2, <2>1
    <2>3. \A c : c \in discovered' \ mapped' <=> c \in discovered \ mapped /\ c # b
      BY <1>0, <1>2, <1>3
    <2>4. QED
      BY <2>1, <2>2, <2>3
  <1>9. mapped' \subseteq discovered' /\ discovered' \subseteq BlockIds /\ mapped' # {}
    BY <1>0, <1>2, <1>3 DEF MapInv
  <1>10. \A x, y \in Q' : x[2] = y[2] => x = y
    BY <1>0 DEF MapInv
  <1>11. QED
    BY <1>0, <1>7, <1>8, <1>9, <1>10 DEF MapInv

\* No step gives a block or a process away twice.
LEMMA MapNext ==
  ASSUME Fixed, MapInv, [Next]_vars
  PROVE  MapInv'
  <1>1. CASE PickHeaviest
    BY <1>1, PickKeeps
  <1>2. CASE MapNeighbor
    BY <1>2, NeighborKeeps
  <1>3. CASE IdentityMapping
    <2>1. /\ phase = "map" /\ mapped = {} /\ mapping' = [b \in BlockIds |-> b]
          /\ mapped' = BlockIds /\ usedPEs' = BlockIds /\ discovered' = BlockIds
          /\ phase' = phase /\ peNode' = peNode /\ Q' = Q
      BY <1>3 DEF IdentityMapping
    <2>2. {x[2] : x \in Q} = {} /\ Q = {}
      BY <2>1 DEF MapInv
    <2>3. /\ mapping' \in [BlockIds -> BlockIds] /\ \A b \in BlockIds : mapping'[b] = b
          /\ BlockIds = {mapping'[c] : c \in BlockIds}
      BY <2>1
    <2>4. BlockIds # {}
      BY IndexSets
    <2>5. QED
      BY <2>1, <2>2, <2>3, <2>4 DEF MapInv
  <1>4. CASE BuildBlockGraph
    <2>1. /\ phase = "counted" /\ phase' = "map" /\ peNode' \in BlockIds
          /\ mapped' = mapped /\ discovered' = discovered /\ usedPEs' = usedPEs
          /\ mapping' = mapping /\ Q' = Q
      BY <1>4 DEF BuildBlockGraph
    <2>2. QED
      BY <2>1 DEF MapInv
  <1>5. CASE UNCHANGED mapVars /\ (phase' \in {"blocks", "counted"} =>
                                     phase \in {"renumber", "blocks", "counted"})
             /\ (phase' = "renumber" => phase = "renumber")
             /\ (phase' \in {"search", "done"} => mapped = BlockIds)
    <2>1. /\ mapped' = mapped /\ discovered' = discovered /\ usedPEs' = usedPEs
          /\ mapping' = mapping /\ Q' = Q /\ peNode' = peNode
      BY <1>5 DEF mapVars
    <2>2. QED
      BY <1>5, <2>1 DEF MapInv
  <1>6. CASE ApplySfcRenumber
    BY <1>5, <1>6 DEF ApplySfcRenumber
  <1>7. CASE KeepNumbers
    BY <1>5, <1>7 DEF KeepNumbers
  <1>8. CASE CountBlockEdges
    BY <1>5, <1>8 DEF CountBlockEdges
  <1>9. CASE SearchFrom
    BY <1>5, <1>9 DEF SearchFrom, MapInv
  <1>10. CASE SearchPaths
    BY <1>5, <1>10 DEF SearchPaths, MapInv
  <1>11. CASE AddUp
    BY <1>5, <1>11 DEF AddUp, MapInv
  <1>12. CASE UNCHANGED vars
    <2>1. UNCHANGED mapVars /\ phase' = phase
      BY <1>12 DEF vars
    <2>2. QED
      BY <1>5, <2>1 DEF MapInv
  <1>13. QED
    BY <1>1, <1>2, <1>3, <1>4, <1>6, <1>7, <1>8, <1>9, <1>10, <1>11, <1>12 DEF Next

\* So every process gets one block.
LEMMA MapInvImplies == MapInv => OneProcessEach
  <1> SUFFICES ASSUME MapInv PROVE OneProcessEach
    OBVIOUS
  <1>1. mapped = BlockIds => ChecksumHolds
    <2> SUFFICES ASSUME mapped = BlockIds PROVE SumOf(mapping) = (K * (K - 1)) \div 2
      BY DEF ChecksumHolds
    <2>1. PICK f : f = mapping
      OBVIOUS
    <2>2. f \in [BlockIds -> BlockIds] /\ \A b, c \in BlockIds : f[b] = f[c] => b = c
      BY <2>1 DEF MapInv
    <2>3. QED
      BY <2>1, <2>2, ChecksumOfPermutation
  <1>2. QED
    BY <1>1 DEF MapInv, OneProcessEach

-----------------------------------------------------------------------------
(***************************************************************************)
(* The searches.                                                           *)
(***************************************************************************)
Path == [dist : [Nodes -> Nat], pred : [Nodes -> Nodes \cup {-1}]]

\* What is kept of a search from s: every node has a distance, and its predecessor is a
\* neighbour that is nearer by the edge; with equal weights no edge is a shortcut.
LeadsTo(s, path) ==
  /\ path \in Path /\ s \in Nodes /\ path.dist[s] = 0
  /\ \A n \in Nodes \ {s} :
       /\ path.pred[n] \in Neighbors(network, n)
       /\ path.dist[n] = path.dist[path.pred[n]] + network[path.pred[n]][n]
  /\ SameWeights(network) =>
       \A n \in Nodes : \A m \in Neighbors(network, n) :
         path.dist[m] <= path.dist[n] + network[n][m]

PathsFrom(ps) == ps \in Seq(Path) /\ \A i \in 1 .. Len(ps) : LeadsTo(i - 1, ps[i])

SearchPart ==
  /\ phase \in {"search", "done"} => SearchInv
  /\ phase \notin {"search", "done"} => visited = {}
  /\ phase = "search" => PathsFrom(paths) /\ Len(paths) = source /\ source < K
  /\ phase = "done" => PathsFrom(paths) /\ Len(paths) = K

\* In a connected network every node is reached from every other.
LEMMA ConnectedFromAll ==
  ASSUME IsNetwork(network), IsConnected(network)
  PROVE  \A u, v \in Nodes : LocalBFS(network, u)[v] # Far
  <1>1. PICK w, d : w = network /\ d = [u \in Nodes |-> LocalBFS(w, u)]
    OBVIOUS
  <1>2. /\ DOMAIN w = Nodes /\ IsFiniteSet(DOMAIN w) /\ Far \in Nat /\ 1 < Far
        /\ Cardinality(DOMAIN w) < Far /\ 0 \in Nodes
        /\ \A n, m \in Nodes : w[n][m] = w[m][n]
    <2>1. 0 \in Nodes
      BY NodesFinite, IndexSets
    <2>2. QED
      BY <1>1, <2>1, NodesFinite DEF IsNetwork
  <1>3. Undirected(w)
    BY <1>2 DEF Undirected, Neighbors
  <1>4. \A u \in Nodes : d[u] = LocalBFS(w, u)
    BY <1>1
  <1>5. AllHops(w, d)
    <2> SUFFICES ASSUME NEW u \in DOMAIN w PROVE IsHops(w, u, d[u])
      BY DEF AllHops
    <2>1. IsHops(w, u, LocalBFS(w, u))
      BY <1>2, Hops
    <2>2. QED
      BY <1>2, <1>4, <2>1
  <1>6. \A v \in Nodes : d[0][v] # Far
    BY <1>1, <1>2, <1>4 DEF IsConnected
  <1>7. \A u, v \in DOMAIN w : d[u][v] = d[v][u]
    BY <1>2, <1>3, <1>5, HopsSymmetric
  <1>8. ASSUME NEW u \in Nodes, NEW v \in Nodes PROVE d[u][v] # Far
    <2>1. PICK z \in DOMAIN w : z = 0
      BY <1>2
    <2>2. d[u][z] # Far /\ d[z][v] # Far /\ u \in DOMAIN w /\ v \in DOMAIN w
      BY <1>2, <1>6, <1>7, <2>1
    <2>3. QED
      BY <1>2, <1>5, <2>1, <2>2, HopsTriangle
  <1>9. QED
    BY <1>1, <1>4, <1>8

\* A search that is over leaves such a path.
LEMMA SearchLeads ==
  ASSUME IsNetwork(network), IsConnected(network), SearchInv, Idle
  PROVE  LeadsTo(source, [dist |-> dist, pred |-> predecessor])
  <1>1. PICK path : path = [dist |-> dist, pred |-> predecessor]
    OBVIOUS
  <1>2. path.dist = dist /\ path.pred = predecessor
    BY <1>1
  <1>3. path \in Path /\ source \in Nodes /\ dist[source] = 0
    BY <1>1 DEF SearchInv, SearchTypeOK, Path
  <1>4. \A n \in Nodes : dist[n] # Far
    <2>1. source \in Nodes
      BY <1>3
    <2>2. \A n \in Nodes : LocalBFS(network, source)[n] # Far
      BY <2>1, ConnectedFromAll
    <2>3. QED
      BY <2>2, ReachedIsConnected
  <1>5. \A n \in Nodes \ {source} :
          /\ predecessor[n] \in Neighbors(network, n)
          /\ dist[n] = dist[predecessor[n]] + network[predecessor[n]][n]
    BY <1>4 DEF SearchInv, Tree
  <1>6. SameWeights(network) =>
          \A n \in Nodes : \A m \in Neighbors(network, n) : dist[m] <= dist[n] + network[n][m]
    <2> SUFFICES ASSUME SameWeights(network), NEW n \in Nodes, NEW m \in Neighbors(network, n)
                 PROVE  dist[m] <= dist[n] + network[n][m]
      OBVIOUS
    <2>1. dist[n] # Far
      BY <1>4
    <2>2. QED
      BY <2>1, EqualNoShortcut
  <1>7. LeadsTo(source, path)
    BY <1>2, <1>3, <1>5, <1>6 DEF LeadsTo
  <1>8. QED
    BY <1>1, <1>7

\* Nothing of this depends on what else happens.
LEMMA SearchUnchanged ==
  ASSUME SearchInv, UNCHANGED <<network, searchVars>>
  PROVE  SearchInv'
  <1>1. /\ network' = network /\ source' = source /\ queue' = queue /\ alternate' = alternate
        /\ visited' = visited /\ dist' = dist /\ predecessor' = predecessor
    BY DEF searchVars
  <1>2. \A n : Waits(n)' <=> Waits(n)
    BY <1>1 DEF Waits
  <1>3. \A n : Settled(n)' <=> Settled(n)
    BY <1>1 DEF Settled
  <1>4. SearchTypeOK' /\ Tree' /\ Short' /\ Connects'
    BY <1>1 DEF SearchInv, SearchTypeOK, Tree, Short, Connects
  <1>5. AllSettled'
    BY <1>1, <1>2, <1>3 DEF SearchInv, AllSettled
  <1>6. Layered'
    <2> SUFFICES ASSUME NEW c \in Nat \ {0}, EqualWeights(c)'
                 PROVE  \E D \in Nat : LayerAt(c, D)'
      BY DEF Layered
    <2>1. EqualWeights(c)
      BY <1>1 DEF EqualWeights
    <2>2. PICK D \in Nat : LayerAt(c, D)
      BY <2>1 DEF SearchInv, Layered
    <2>3. LayerAt(c, D)'
      BY <1>1, <1>2, <2>2 DEF LayerAt
    <2>4. QED
      BY <2>3
  <1>7. QED
    BY <1>4, <1>5, <1>6 DEF SearchInv

\* One more search is kept.
LEMMA PathAdded ==
  ASSUME PathsFrom(paths), LeadsTo(Len(paths), [dist |-> dist, pred |-> predecessor])
  PROVE  /\ PathsFrom(Append(paths, [dist |-> dist, pred |-> predecessor]))
         /\ Len(Append(paths, [dist |-> dist, pred |-> predecessor])) = Len(paths) + 1
  <1>1. PICK path, ps, N, k : path = [dist |-> dist, pred |-> predecessor] /\ ps = paths
                              /\ N = Path /\ k = Len(ps)
    OBVIOUS
  <1>2. /\ ps \in Seq(N) /\ path \in N /\ k \in Nat /\ k = Len(ps)
        /\ LeadsTo(k, path) /\ \A i \in 1 .. k : LeadsTo(i - 1, ps[i])
    BY <1>1 DEF PathsFrom, LeadsTo
  <1>3. PICK qs : qs = Append(ps, path)
    OBVIOUS
  <1>4. /\ qs \in Seq(N) /\ Len(qs) = k + 1 /\ qs[k + 1] = path
        /\ \A i \in 1 .. k : qs[i] = ps[i]
    BY <1>2, <1>3
  <1>5. \A i \in 1 .. (k + 1) : LeadsTo(i - 1, qs[i])
    <2> SUFFICES ASSUME NEW i \in 1 .. (k + 1) PROVE LeadsTo(i - 1, qs[i])
      OBVIOUS
    <2>1. CASE i = k + 1
      <3>1. i - 1 = k
        BY <1>2, <2>1
      <3>2. QED
        BY <1>2, <1>4, <2>1, <3>1
    <2>2. CASE i # k + 1
      <3>1. i \in 1 .. k
        BY <1>2, <2>2
      <3>2. QED
        BY <1>2, <1>4, <3>1
    <2>3. QED
      BY <2>1, <2>2
  <1>6. PathsFrom(qs)
    BY <1>1, <1>4, <1>5 DEF PathsFrom
  <1>7. QED
    BY <1>1, <1>3, <1>4, <1>6

\* At first nothing has been searched.
LEMMA SearchPartInit == Init => SearchPart
  BY DEF Init, SearchPart

\* A search that starts satisfies the invariant.
LEMMA SearchPartStarts ==
  ASSUME Fixed, SearchPart, [Next]_vars, SearchFrom
  PROVE  SearchPart'
  <1>1. phase' = "search" /\ network' = network /\ IsNetwork(network) /\ IsConnected(network)
    BY DEF SearchFrom, graphVars, Fixed
  <1>2. 0 \in Nodes /\ K \in Nat \ {0} /\ Nodes = 0 .. (K - 1)
    BY NodesFinite, IndexSets DEF BlockIds
  <1>3. CASE phase = "map"
    <2>1. StartSearch(0) /\ paths' = << >>
      BY <1>3 DEF SearchFrom
    <2>2. SearchInv' /\ source' = 0
      BY <1>1, <1>2, <2>1, SearchStart DEF StartSearch
    <2>3. PathsFrom(paths)' /\ Len(paths') = 0
      BY <2>1 DEF PathsFrom
    <2>4. QED
      BY <1>1, <1>2, <2>2, <2>3 DEF SearchPart
  <1>4. CASE phase = "search"
    <2>1. /\ Idle /\ Len(paths) < K - 1 /\ StartSearch(source + 1)
          /\ paths' = Append(paths, [dist |-> dist, pred |-> predecessor])
      BY <1>4 DEF SearchFrom
    <2>2. SearchInv /\ PathsFrom(paths) /\ Len(paths) = source
      BY <1>4 DEF SearchPart
    <2>3. source \in Nat /\ source < K - 1
      BY <2>1, <2>2 DEF PathsFrom
    <2>4. source + 1 \in Nodes
      BY <1>2, <2>3
    <2>5. SearchInv' /\ source' = source + 1
      BY <1>1, <2>1, <2>4, SearchStart DEF StartSearch
    <2>6. LeadsTo(Len(paths), [dist |-> dist, pred |-> predecessor])
      BY <1>1, <2>1, <2>2, SearchLeads
    <2>7. PathsFrom(Append(paths, [dist |-> dist, pred |-> predecessor]))
          /\ Len(paths') = Len(paths) + 1
      BY <2>1, <2>2, <2>6, PathAdded
    <2>8. PathsFrom(paths)'
      BY <1>1, <2>1, <2>7 DEF PathsFrom, LeadsTo
    <2>9. QED
      BY <1>1, <1>2, <2>2, <2>3, <2>5, <2>7, <2>8 DEF SearchPart
  <1>5. QED
    BY <1>3, <1>4 DEF SearchFrom

\* Every step keeps the searches made so far and the one under way.
LEMMA SearchPartNext ==
  ASSUME Fixed, SearchPart, [Next]_vars
  PROVE  SearchPart'
  <1>1. CASE UNCHANGED <<network, searchVars, paths>>
             /\ (phase' = phase
                  \/ (phase \notin {"search", "done"} /\ phase' \notin {"search", "done"}))
    <2>1. /\ network' = network /\ paths' = paths /\ source' = source /\ visited' = visited
      BY <1>1 DEF searchVars
    <2>2. SearchInv => SearchInv'
      BY <1>1, SearchUnchanged
    <2>3. PathsFrom(paths) => PathsFrom(paths)'
      BY <2>1 DEF PathsFrom, LeadsTo
    <2>4. QED
      BY <1>1, <2>1, <2>2, <2>3 DEF SearchPart
  <1>2. CASE ApplySfcRenumber
    BY <1>1, <1>2 DEF ApplySfcRenumber
  <1>3. CASE KeepNumbers
    BY <1>1, <1>3 DEF KeepNumbers, graphVars
  <1>4. CASE CountBlockEdges
    BY <1>1, <1>4 DEF CountBlockEdges
  <1>5. CASE BuildBlockGraph
    BY <1>1, <1>5 DEF BuildBlockGraph
  <1>6. CASE PickHeaviest
    BY <1>1, <1>6 DEF PickHeaviest, graphVars
  <1>7. CASE MapNeighbor
    BY <1>1, <1>7 DEF MapNeighbor, graphVars
  <1>8. CASE IdentityMapping
    BY <1>1, <1>8 DEF IdentityMapping, graphVars
  <1>9. CASE SearchFrom
    BY <1>9, SearchPartStarts
  <1>10. CASE SearchPaths
    <2>1. /\ phase = "search" /\ phase' = "search" /\ SearchStep /\ network' = network
          /\ paths' = paths /\ IsNetwork(network)
      BY <1>10 DEF SearchPaths, graphVars, Fixed
    <2>2. SearchInv'
      BY <2>1, SearchKeeps DEF SearchPart
    <2>3. source' = source
      BY <2>1 DEF SearchStep, Visit, NextRound
    <2>4. PathsFrom(paths)'
      BY <2>1 DEF SearchPart, PathsFrom, LeadsTo
    <2>5. QED
      BY <2>1, <2>2, <2>3, <2>4 DEF SearchPart
  <1>11. CASE AddUp
    <2>1. /\ phase = "search" /\ Idle /\ Len(paths) = K - 1 /\ phase' = "done"
          /\ paths' = Append(paths, [dist |-> dist, pred |-> predecessor])
          /\ network' = network /\ UNCHANGED searchVars
          /\ IsNetwork(network) /\ IsConnected(network)
      BY <1>11 DEF AddUp, graphVars, Fixed
    <2>2. SearchInv /\ PathsFrom(paths) /\ Len(paths) = source
      BY <2>1 DEF SearchPart
    <2>3. SearchInv'
      BY <2>1, <2>2, SearchUnchanged
    <2>4. LeadsTo(Len(paths), [dist |-> dist, pred |-> predecessor])
      BY <2>1, <2>2, SearchLeads
    <2>5. PathsFrom(Append(paths, [dist |-> dist, pred |-> predecessor]))
          /\ Len(paths') = Len(paths) + 1
      BY <2>1, <2>2, <2>4, PathAdded
    <2>6. PathsFrom(paths)' /\ Len(paths') = K
      <3>1. K \in Nat
        BY NodesFinite
      <3>2. QED
        BY <3>1, <2>1, <2>5 DEF PathsFrom, LeadsTo
    <2>7. QED
      BY <2>1, <2>3, <2>6 DEF SearchPart
  <1>12. CASE UNCHANGED vars
    <2>1. graphVars' = graphVars /\ phase' = phase /\ searchVars' = searchVars /\ paths' = paths
      BY <1>12 DEF vars
    <2>2. network' = network
      BY <2>1 DEF graphVars
    <2>3. UNCHANGED <<network, searchVars, paths>>
          /\ (phase' = phase
               \/ (phase \notin {"search", "done"} /\ phase' \notin {"search", "done"}))
      BY <2>1, <2>2
    <2>4. QED
      BY <1>1, <2>3
  <1>13. QED
    BY <1>2, <1>3, <1>4, <1>5, <1>6, <1>7, <1>8, <1>9, <1>10, <1>11, <1>12 DEF Next

\* What holds in every reachable state.
MappingInv == Fixed /\ MapInv /\ SearchPart

\* The inductive invariant.
LEMMA MappingInvariant == Spec => []MappingInv
  <1>1. Init => MappingInv
    BY FixedInit, MapInit, SearchPartInit DEF MappingInv
  <1>2. MappingInv /\ [Next]_vars => MappingInv'
    BY FixedNext, MapNext, SearchPartNext DEF MappingInv
  <1>3. QED
    BY <1>1, <1>2, PTL DEF Spec

\* No two blocks are put on one process, and the mapping that leaves is a
\* permutation, for every graph, connected network and outcome of rand
\* (torstenMapping_local, Mapping::isValid).
THEOREM MappingIsOneToOne == Spec => []OneProcessEach
  <1>1. MappingInv => OneProcessEach
    BY MapInvImplies DEF MappingInv
  <1>2. QED
    BY <1>1, MappingInvariant, PTL

\* localDijkstra reaches exactly the connected nodes; its predecessors lead back to
\* the source along the distances, which are the shortest if the weights are equal
\* (GraphUtils.cpp:170).
THEOREM DijkstraLeadsBack == Spec => []WalksLeadBack
  <1>1. MappingInv => WalksLeadBack
    <2>1. ASSUME MappingInv, phase \in {"search", "done"} PROVE WalksLeadBack
      BY <2>1, SearchLeadsBack DEF MappingInv, Fixed, SearchPart
    <2>2. ASSUME MappingInv, phase \notin {"search", "done"} PROVE WalksLeadBack
      BY <2>2 DEF MappingInv, SearchPart, WalksLeadBack, Idle
    <2>3. QED
      BY <2>1, <2>2
  <1>2. QED
    BY <1>1, MappingInvariant, PTL

\* The block diameter of getLocalBlockDiameter is that of the two farthest nodes,
\* from whichever node the descent begins (GraphUtils.cpp:244).
THEOREM DiameterIsExact == Spec => []DiameterExact
  <1>1. MappingInv => DiameterExact
    <2>1. ASSUME MappingInv, phase \in {"search", "done"} PROVE DiameterExact
      BY <2>1, SearchDiameter DEF MappingInv, Fixed, SearchPart
    <2>2. ASSUME MappingInv, phase \notin {"search", "done"} PROVE DiameterExact
      BY <2>2 DEF MappingInv, SearchPart, DiameterExact, Idle
    <2>3. QED
      BY <2>1, <2>2
  <1>2. QED
    BY <1>1, MappingInvariant, PTL

\* However a graph is distributed over the processes, its measures agree with each
\* other: the cut, the block graph built in both ways, the volumes and border nodes,
\* the graph of the processes and the Laplacian (GraphUtils.cpp:301-1389).
THEOREM MeasuresFit == Spec => []MeasuresAgree
  <1>1. MappingInv => MeasuresAgree
    <2> SUFFICES ASSUME MappingInv, phase = "map"
                 PROVE  /\ BlockGraphsAgree(g, csr, lists) /\ VolumesAgree(g)
                        /\ ProcessesSeeBlocks(g) /\ LaplacianIsOne(g)
      BY DEF MeasuresAgree
    <2>1. IsGraph(g) /\ csr = GetBlockGraph(CountsOf(g), K)
          /\ lists = [p \in PE |-> LocalBlockEdges(g, p)]
      BY DEF MappingInv, Fixed
    <2>2. lists = ListsOf(g)
      BY <2>1 DEF ListsOf
    <2>3. PICK h : h = g
      OBVIOUS
    <2>4. /\ BlockGraphsAgree(h, GetBlockGraph(CountsOf(h), K), ListsOf(h)) /\ VolumesAgree(h)
          /\ ProcessesSeeBlocks(h) /\ LaplacianIsOne(h)
      BY <2>1, <2>3, BlockGraphsDo, VolumesDo, ProcessesDo, LaplacianDoes
    <2>5. QED
      BY <2>1, <2>2, <2>3, <2>4
  <1>2. QED
    BY <1>1, MappingInvariant, PTL

-----------------------------------------------------------------------------
(***************************************************************************)
(* Dilation and congestion.                                                *)
(***************************************************************************)

\* at[0], at[1], ... are the nodes that a way back passes.
Goes(at, path, s, t) ==
  at = [i \in Nat |-> IF i = 0 THEN t
                      ELSE LET v == at[i - 1] IN IF v = s THEN v ELSE path.pred[v]]

Back(path, s, t) == CHOOSE at : Goes(at, path, s, t)

\* The edges between the nodes at[0], at[1], ... before s.
WayEdges(at, s) == {<<at[i], at[i - 1]>> : i \in {j \in 1 .. K : at[j - 1] # s}}

\* The way back in these terms.
LEMMA WayBackIs ==
  ASSUME NEW path, NEW s, NEW t
  PROVE  WayBack(path, s, t) = WayEdges(Back(path, s, t), s)
  BY Zenon DEF WayBack, WayEdges, Back, Goes

\* A walk over the nodes at[0], at[1], ... along edges of w that ends in s, while the
\* distances d fall by the edges.
Walks(at, d, w, s) ==
  /\ at \in [Nat -> Nodes] /\ d \in [Nodes -> Nat] /\ w \in [Nodes -> [Nodes -> Nat]]
  /\ \A n, m \in Nodes : w[n][m] = w[m][n]
  /\ s \in Nodes /\ d[s] = 0
  /\ \A i \in Nat : at[i] = s => at[i + 1] = s
  /\ \A i \in Nat : at[i] # s => /\ w[at[i + 1]][at[i]] > 0
                                 /\ d[at[i]] = d[at[i + 1]] + w[at[i + 1]][at[i]]

\* The way back is such a walk.
LEMMA BackWalks ==
  ASSUME IsNetwork(network), NEW s, NEW path, LeadsTo(s, path), NEW t \in Nodes
  PROVE  Walks(Back(path, s, t), path.dist, network, s) /\ Back(path, s, t)[0] = t
  <1> DEFINE G == [v \in Nodes |-> IF v = s THEN v ELSE path.pred[v]]
  <1>1. /\ s \in Nodes /\ path.dist \in [Nodes -> Nat] /\ path.dist[s] = 0
        /\ network \in [Nodes -> [Nodes -> Nat]]
        /\ \A n, m \in Nodes : network[n][m] = network[m][n]
    BY DEF LeadsTo, Path, IsNetwork
  <1>2. \A n \in Nodes \ {s} : /\ path.pred[n] \in Nodes /\ network[n][path.pred[n]] > 0
                               /\ path.dist[n] = path.dist[path.pred[n]] + network[path.pred[n]][n]
    BY <1>1 DEF LeadsTo, Neighbors
  <1>3. G \in [Nodes -> Nodes]
    BY <1>2
  <1>4. \A v \in Nodes : G[v] = IF v = s THEN v ELSE path.pred[v]
    OBVIOUS
  <1> HIDE DEF G
  <1>5. PICK f \in [Nat -> Nodes] : f[0] = t /\ \A k \in Nat : f[k + 1] = G[f[k]]
    <2>1. PICK T, F : T = Nodes /\ F = G
      OBVIOUS
    <2>2. t \in T /\ F \in [T -> T]
      BY <1>3, <2>1
    <2>3. PICK f : Repeats(f, T, t, F)
      BY ONLY <2>2, IterationExists
    <2>4. QED
      BY <2>1, <2>3 DEF Repeats
  <1>6. \A r \in Nat : r # 0 => f[r] = IF f[r - 1] = s THEN f[r - 1] ELSE path.pred[f[r - 1]]
    <2> SUFFICES ASSUME NEW r \in Nat, r # 0
                 PROVE  f[r] = IF f[r - 1] = s THEN f[r - 1] ELSE path.pred[f[r - 1]]
      OBVIOUS
    <2>1. r - 1 \in Nat /\ (r - 1) + 1 = r
      OBVIOUS
    <2>2. f[r] = G[f[r - 1]] /\ f[r - 1] \in Nodes
      BY <1>5, <2>1
    <2>3. QED
      BY <1>4, <2>2
  <1>7. Goes(f, path, s, t)
    BY <1>5, <1>6 DEF Goes
  <1>8. PICK at : at = Back(path, s, t)
    OBVIOUS
  <1>9. Goes(at, path, s, t)
    BY <1>7, <1>8 DEF Back
  <1>10. /\ DOMAIN at = Nat /\ at = [r \in Nat |-> at[r]] /\ at[0] = t
         /\ \A r \in Nat : r # 0 =>
              at[r] = IF at[r - 1] = s THEN at[r - 1] ELSE path.pred[at[r - 1]]
    BY <1>9 DEF Goes
  <1>11. \A r \in Nat : at[r + 1] = IF at[r] = s THEN at[r] ELSE path.pred[at[r]]
    <2> SUFFICES ASSUME NEW r \in Nat
                 PROVE  at[r + 1] = IF at[r] = s THEN at[r] ELSE path.pred[at[r]]
      OBVIOUS
    <2>1. r + 1 \in Nat /\ r + 1 # 0 /\ (r + 1) - 1 = r
      OBVIOUS
    <2>2. QED
      BY <1>10, <2>1
  <1>12. ASSUME NEW r \in Nat PROVE at[r] \in Nodes
    <2> DEFINE T == {k \in Nat : at[k] \notin Nodes}
    <2>1. SUFFICES ASSUME T # {} PROVE FALSE
      OBVIOUS
    <2>2. PICK k \in T : \A j \in T : k <= j
      <3>1. T \in SUBSET Nat
        OBVIOUS
      <3> HIDE DEF T
      <3>2. QED
        BY <2>1, <3>1, LeastNatural
    <2>3. k # 0 /\ k \in Nat
      BY <1>10
    <2>4. k - 1 \in Nat /\ (k - 1) + 1 = k /\ ~ (k <= k - 1)
      BY <2>3
    <2>5. at[k - 1] \in Nodes
      BY <2>2, <2>4
    <2>6. at[k] \in Nodes
      BY <1>2, <1>10, <2>3, <2>5
    <2>7. QED
      BY <2>2, <2>6
  <1>13. at \in [Nat -> Nodes]
    BY <1>10, <1>12
  <1>14. \A i \in Nat : at[i] = s => at[i + 1] = s
    BY <1>11
  <1>15. \A i \in Nat : at[i] # s =>
           /\ network[at[i + 1]][at[i]] > 0
           /\ path.dist[at[i]] = path.dist[at[i + 1]] + network[at[i + 1]][at[i]]
    <2> SUFFICES ASSUME NEW i \in Nat, at[i] # s
                 PROVE  /\ network[at[i + 1]][at[i]] > 0
                        /\ path.dist[at[i]] = path.dist[at[i + 1]] + network[at[i + 1]][at[i]]
      OBVIOUS
    <2>1. at[i + 1] = path.pred[at[i]] /\ at[i] \in Nodes \ {s}
      BY <1>11, <1>12
    <2>2. network[at[i]][path.pred[at[i]]] = network[path.pred[at[i]]][at[i]]
      BY <1>1, <1>2, <2>1
    <2>3. QED
      BY <1>2, <2>1, <2>2
  <1>16. QED
    BY <1>1, <1>8, <1>10, <1>13, <1>14, <1>15 DEF Walks

\* Before s the distance falls with every step, and nothing leads away from s.
LEMMA WalkFalls ==
  ASSUME NEW at, NEW d, NEW w, NEW s, Walks(at, d, w, s)
  PROVE  \A i, j \in Nat : i < j =>
           /\ at[i] = s => at[j] = s
           /\ at[i] # s => d[at[j]] < d[at[i]]
  <1> SUFFICES ASSUME NEW i \in Nat
               PROVE  \A j \in Nat : i < j => /\ at[i] = s => at[j] = s
                                              /\ at[i] # s => d[at[j]] < d[at[i]]
    OBVIOUS
  <1> DEFINE Right(j) == (at[i] = s => at[j] = s) /\ (at[i] # s => d[at[j]] < d[at[i]])
             T == {j \in Nat : i < j /\ ~ Right(j)}
  <1>1. SUFFICES ASSUME T # {} PROVE FALSE
    OBVIOUS
  <1>2. PICK j \in T : \A k \in T : j <= k
    <2>1. T \in SUBSET Nat
      OBVIOUS
    <2> HIDE DEF T
    <2>2. QED
      BY <1>1, <2>1, LeastNatural
  <1>3. PICK k \in Nat : j = k + 1
    <2>1. j \in Nat /\ i < j
      BY <1>2
    <2>2. j - 1 \in Nat /\ j = (j - 1) + 1
      BY <2>1
    <2>3. QED
      BY <2>2
  <1>4. i <= k /\ k \in Nat /\ j \in Nat
    BY <1>2, <1>3
  <1>5. i < k => Right(k)
    BY <1>2, <1>3, <1>4
  <1>6. /\ at[k] \in Nodes /\ at[j] \in Nodes /\ at[i] \in Nodes
        /\ d[at[k]] \in Nat /\ d[at[j]] \in Nat /\ d[at[i]] \in Nat
    BY <1>4 DEF Walks
  <1>7. at[k] = s => at[j] = s
    BY <1>3, <1>4 DEF Walks
  <1>8. at[k] # s => d[at[j]] < d[at[k]]
    <2> SUFFICES ASSUME at[k] # s PROVE d[at[j]] < d[at[k]]
      OBVIOUS
    <2>1. w[at[j]][at[k]] > 0 /\ d[at[k]] = d[at[j]] + w[at[j]][at[k]]
          /\ w[at[j]][at[k]] \in Nat
      BY <1>3, <1>4, <1>6 DEF Walks
    <2>2. QED
      BY <1>6, <2>1
  <1>9. d[s] = 0
    BY DEF Walks
  <1>10. Right(j)
    <2>1. CASE i = k
      BY <1>7, <1>8, <2>1
    <2>2. CASE i < k
      <3>1. Right(k)
        BY <1>5, <2>2
      <3>2. CASE at[i] = s
        BY <1>7, <3>1, <3>2
      <3>3. CASE at[i] # s
        BY <1>6, <1>7, <1>8, <3>1, <3>3
      <3>4. QED
        BY <3>2, <3>3
    <2>3. QED
      BY <1>4, <2>1, <2>2
  <1>11. QED
    BY <1>2, <1>10

\* There are not more nodes than steps, so the walk arrives.
LEMMA WalkArrives ==
  ASSUME NEW at, NEW d, NEW w, NEW s, Walks(at, d, w, s)
  PROVE  at[K] = s
  <1> DEFINE I == 0 .. K
             S == {at[i] : i \in I}
  <1>1. SUFFICES ASSUME at[K] # s PROVE FALSE
    OBVIOUS
  <1>2. K \in Nat /\ IsFiniteSet(Nodes) /\ Cardinality(Nodes) = K
    BY NodesFinite
  <1>3. IsFiniteSet(I) /\ Cardinality(I) = K + 1
    <2>1. PICK n \in Nat : n = K
      BY <1>2
    <2>2. IsFiniteSet(0 .. n) /\ Cardinality(0 .. n) = n + 1
      <3>1. 0 \in Int /\ n \in Int /\ 0 <= n
        OBVIOUS
      <3>2. IsFiniteSet(0 .. n) /\ Cardinality(0 .. n) = IF 0 > n THEN 0 ELSE n - 0 + 1
        BY ONLY <3>1, FS_Interval
      <3>3. QED
        BY <3>1, <3>2
    <2>3. QED
      BY <2>1, <2>2
  <1>4. \A i \in I : i \in Nat /\ at[i] \in Nodes /\ d[at[i]] \in Nat
    BY <1>2 DEF Walks
  <1>5. \A i \in I : at[i] # s
    <2> SUFFICES ASSUME NEW i \in I, at[i] = s PROVE FALSE
      OBVIOUS
    <2>1. i \in Nat /\ (i < K \/ i = K)
      BY <1>2
    <2>2. QED
      BY <1>1, <1>2, <2>1, WalkFalls
  <1>6. \A i, j \in I : at[i] = at[j] => i = j
    <2> SUFFICES ASSUME NEW i \in I, NEW j \in I, i < j, at[i] = at[j] PROVE FALSE
      <3>1. \A i, j \in I : i < j \/ i = j \/ j < i
        BY <1>4
      <3>2. QED
        BY <3>1
    <2>1. d[at[j]] < d[at[i]]
      BY <1>4, <1>5, WalkFalls
    <2>2. QED
      BY <1>4, <2>1
  <1> HIDE DEF I
  <1>7. Cardinality(S) = K + 1
    <2>1. PICK D, f : D = I /\ f = at
      OBVIOUS
    <2>2. IsFiniteSet(D) /\ \A x, y \in D : f[x] = f[y] => x = y
      BY <1>3, <1>6, <2>1
    <2>3. Cardinality({f[x] : x \in D}) = Cardinality(D)
      BY ONLY <2>2, SameCount
    <2>4. QED
      BY <1>3, <2>1, <2>3
  <1>8. S \subseteq Nodes
    BY <1>4
  <1> HIDE DEF S
  <1>9. Cardinality(S) <= Cardinality(Nodes) /\ Cardinality(S) \in Nat
    BY <1>2, <1>8, FS_Subset, FS_CardinalityType
  <1>10. QED
    BY <1>2, <1>7, <1>9

\* The steps add up to the distance.
LEMMA WalkAddsUp ==
  ASSUME NEW at, NEW d, NEW w, NEW s, Walks(at, d, w, s),
         NEW step, \A i \in 1 .. K : step[i] = d[at[i - 1]] - d[at[i]]
  PROVE  Sum(step, 1 .. K) = d[at[0]]
  <1>1. K \in Nat /\ at[K] = s /\ d[s] = 0
    <2>1. at[K] = s
      BY WalkArrives
    <2>2. QED
      BY <2>1, NodesFinite DEF Walks
  <1>2. \A i \in Nat : at[i] \in Nodes /\ d[at[i]] \in Nat
    BY DEF Walks
  <1>3. \A i \in 1 .. K : step[i] \in Int
    <2> SUFFICES ASSUME NEW i \in 1 .. K PROVE step[i] \in Int
      OBVIOUS
    <2>1. i \in Nat /\ i - 1 \in Nat
      BY <1>1
    <2>2. QED
      BY <1>2, <2>1
  <1> DEFINE Right(k) == Sum(step, 1 .. k) = d[at[0]] - d[at[k]]
             T == {k \in 0 .. K : ~ Right(k)}
  <1>4. SUFFICES ASSUME T # {} PROVE FALSE
    <2>1. Right(K)
      BY <1>1
    <2>2. QED
      BY <1>1, <1>2, <2>1
  <1>5. PICK k \in T : \A j \in T : k <= j
    <2>1. T \in SUBSET Nat
      BY <1>1
    <2> HIDE DEF T
    <2>2. QED
      BY <1>4, <2>1, LeastNatural
  <1>6. k \in Nat /\ k <= K
    BY <1>1, <1>5
  <1>7. k # 0
    <2> SUFFICES ASSUME k = 0 PROVE FALSE
      OBVIOUS
    <2>1. 1 .. k = {}
      OBVIOUS
    <2>2. Sum(step, 1 .. k) = 0
      BY <2>1, SumEmpty
    <2>3. Right(k)
      BY <1>2, <2>2
    <2>4. QED
      BY <1>5, <2>3
  <1>8. k - 1 \in 0 .. K /\ ~ (k <= k - 1) /\ k - 1 \in Nat
    BY <1>1, <1>6, <1>7
  <1>9. Right(k - 1)
    BY <1>5, <1>8
  <1>10. Sum(step, 1 .. k) = step[k] + Sum(step, 1 .. (k - 1))
    <2>1. PICK D : D = 1 .. k
      OBVIOUS
    <2>2. IsFiniteSet(D)
      <3>1. 1 \in Int /\ k \in Int
        BY <1>6
      <3>2. IsFiniteSet(1 .. k)
        BY ONLY <3>1, FS_Interval
      <3>3. QED
        BY <2>1, <3>2
    <2>3. k \in D /\ D \ {k} = 1 .. (k - 1)
      BY <1>6, <1>7, <2>1
    <2>4. \A x \in D : step[x] \in Int
      BY <1>1, <1>3, <1>6, <2>1
    <2>5. Sum(step, D) = step[k] + Sum(step, D \ {k})
      BY ONLY <2>2, <2>3, <2>4, SumRemove
    <2>6. QED
      BY <2>1, <2>3, <2>5
  <1>11. step[k] = d[at[k - 1]] - d[at[k]]
    BY <1>1, <1>6, <1>7
  <1>12. Right(k)
    <2>1. d[at[0]] \in Nat /\ d[at[k]] \in Nat /\ d[at[k - 1]] \in Nat
      BY <1>2, <1>6, <1>8
    <2>2. QED
      BY <1>9, <1>10, <1>11, <2>1
  <1>13. QED
    BY <1>5, <1>12

\* What a way with the edges W is to those who count them: no edge is passed twice, in
\* whichever direction, and their weights add up to l.
IsWay(W, w, l) ==
  /\ IsFiniteSet(W) /\ W \subseteq Nodes \X Nodes
  /\ \A x \in W : x[1] # x[2]
  /\ \A x, y \in W : Slot(x) = Slot(y) => x = y
  /\ \A f : (\A x \in W : f[x] = w[x[1]][x[2]]) => Sum(f, W) = l

\* The edges of a walk are such a way.
LEMMA WalkIsWay ==
  ASSUME NEW at, NEW d, NEW w, NEW s, Walks(at, d, w, s)
  PROVE  IsWay(WayEdges(at, s), w, d[at[0]])
  <1> DEFINE J == {j \in 1 .. K : at[j - 1] # s}
             I == 1 .. K
             edge == [i \in J |-> <<at[i], at[i - 1]>>]
             step == [i \in I |-> d[at[i - 1]] - d[at[i]]]
             W == {edge[i] : i \in J}
  <1>1. K \in Nat
    BY NodesFinite
  <1>2. WayEdges(at, s) = W
    BY DEF WayEdges
  <1>3. IsFiniteSet(I) /\ IsFiniteSet(J)
    <2>1. 1 \in Int /\ K \in Int
      BY <1>1
    <2>2. IsFiniteSet(1 .. K)
      BY ONLY <2>1, FS_Interval
    <2>3. J \subseteq I
      OBVIOUS
    <2> HIDE DEF J
    <2>4. QED
      BY <2>2, <2>3, FS_Subset
  <1>4. \A i \in I : /\ i \in Nat /\ i - 1 \in Nat /\ (i - 1) + 1 = i
                     /\ at[i] \in Nodes /\ at[i - 1] \in Nodes
                     /\ d[at[i]] \in Nat /\ d[at[i - 1]] \in Nat
    <2> SUFFICES ASSUME NEW i \in I
                 PROVE  /\ i \in Nat /\ i - 1 \in Nat /\ (i - 1) + 1 = i
                        /\ at[i] \in Nodes /\ at[i - 1] \in Nodes
                        /\ d[at[i]] \in Nat /\ d[at[i - 1]] \in Nat
      OBVIOUS
    <2>1. i \in Nat /\ i - 1 \in Nat /\ (i - 1) + 1 = i
      BY <1>1
    <2>2. QED
      BY <2>1 DEF Walks
  <1>5. \A i \in J : /\ edge[i] = <<at[i], at[i - 1]>> /\ i \in I /\ at[i - 1] # s
                     /\ w[at[i]][at[i - 1]] \in Nat /\ w[at[i]][at[i - 1]] > 0
                     /\ step[i] = w[at[i]][at[i - 1]]
                     /\ d[at[i]] < d[at[i - 1]]
    <2> SUFFICES ASSUME NEW i \in J
                 PROVE  /\ w[at[i]][at[i - 1]] \in Nat /\ w[at[i]][at[i - 1]] > 0
                        /\ step[i] = w[at[i]][at[i - 1]]
                        /\ d[at[i]] < d[at[i - 1]]
      OBVIOUS
    <2>1. i \in I /\ at[i - 1] # s
      OBVIOUS
    <2>2. PICK k \in Nat : k = i - 1 /\ k + 1 = i
      BY <1>4, <2>1
    <2>3. w[at[k + 1]][at[k]] > 0 /\ d[at[k]] = d[at[k + 1]] + w[at[k + 1]][at[k]]
      BY <2>1, <2>2 DEF Walks
    <2>4. w[at[i]][at[i - 1]] \in Nat
      BY <1>4, <2>1 DEF Walks
    <2>5. step[i] = d[at[i - 1]] - d[at[i]]
      OBVIOUS
    <2>6. d[at[i - 1]] = d[at[i]] + w[at[i]][at[i - 1]] /\ w[at[i]][at[i - 1]] > 0
      BY <2>2, <2>3
    <2> HIDE DEF step
    <2>7. QED
      BY <1>4, <2>1, <2>4, <2>5, <2>6
  <1>6. \A i \in I \ J : step[i] = 0
    <2> SUFFICES ASSUME NEW i \in I \ J PROVE step[i] = 0
      OBVIOUS
    <2>1. at[i - 1] = s
      OBVIOUS
    <2>2. at[i] = s
      <3>1. PICK k \in Nat : k = i - 1 /\ k + 1 = i
        BY <1>4
      <3>2. at[k + 1] = s
        BY <2>1, <3>1 DEF Walks
      <3>3. QED
        BY <3>1, <3>2
    <2>3. QED
      BY <1>4, <2>1, <2>2
  <1>7. \A i, j \in J : edge[i] = edge[j] => i = j
    <2> SUFFICES ASSUME NEW i \in J, NEW j \in J, at[i] = at[j], i < j PROVE FALSE
      <3>1. \A i, j \in J : edge[i] = edge[j] => at[i] = at[j]
        BY <1>5
      <3>2. \A i, j \in J : i < j \/ i = j \/ j < i
        BY <1>4, <1>5
      <3> HIDE DEF J, edge
      <3>3. QED
        BY <3>1, <3>2
    <2>1. PICK k \in Nat : k = j - 1 /\ k + 1 = j
      BY <1>4, <1>5
    <2>2. i \in Nat /\ j \in Nat /\ d[at[i]] \in Nat /\ d[at[j]] \in Nat
      BY <1>4, <1>5
    <2>3. at[i] # s
      <3> SUFFICES ASSUME at[i] = s PROVE FALSE
        OBVIOUS
      <3>1. i = k \/ i < k
        BY <2>1, <2>2
      <3>2. at[k] = s
        BY <2>2, <3>1, WalkFalls
      <3>3. QED
        BY <1>5, <2>1, <3>2
    <2>4. d[at[j]] < d[at[i]]
      BY <2>2, <2>3, WalkFalls
    <2>5. QED
      BY <2>2, <2>4
  <1>8. IsFiniteSet(W)
    <2>1. PICK D, b : D = J /\ b = edge
      OBVIOUS
    <2>2. IsFiniteSet(D)
      BY <1>3, <2>1
    <2>3. IsFiniteSet({b[x] : x \in D})
      BY ONLY <2>2, FiniteImage
    <2>4. QED
      BY <2>1, <2>3
  <1>9. \A x \in W : /\ x \in Nodes \X Nodes /\ d[x[1]] \in Nat /\ d[x[2]] \in Nat
                     /\ d[x[1]] < d[x[2]]
    <2> SUFFICES ASSUME NEW i \in J
                 PROVE  /\ edge[i] \in Nodes \X Nodes
                        /\ d[edge[i][1]] \in Nat /\ d[edge[i][2]] \in Nat
                        /\ d[edge[i][1]] < d[edge[i][2]]
      OBVIOUS
    <2>1. edge[i] = <<at[i], at[i - 1]>> /\ i \in I /\ d[at[i]] < d[at[i - 1]]
      BY <1>5
    <2> HIDE DEF edge, J, I
    <2>2. QED
      BY <1>4, <2>1
  <1>10. \A x, y \in W : Slot(x) = Slot(y) => x = y
    <2> SUFFICES ASSUME NEW x \in W, NEW y \in W, Slot(x) = Slot(y) PROVE x = y
      OBVIOUS
    <2>1. x = <<x[1], x[2]>> /\ y = <<y[1], y[2]>>
      <3>1. x \in Nodes \X Nodes /\ y \in Nodes \X Nodes
        BY <1>9
      <3>2. QED
        BY <3>1
    <2>2. /\ d[x[1]] \in Nat /\ d[x[2]] \in Nat /\ d[x[1]] < d[x[2]]
          /\ d[y[1]] \in Nat /\ d[y[2]] \in Nat /\ d[y[1]] < d[y[2]]
      BY <1>9
    <2>3. (x[1] = y[1] /\ x[2] = y[2]) \/ (x[1] = y[2] /\ x[2] = y[1])
      BY <2>1 DEF Slot
    <2>4. CASE x[1] = y[2] /\ x[2] = y[1]
      BY <2>2, <2>4
    <2>5. QED
      BY <2>1, <2>3, <2>4
  <1>11. ASSUME NEW f, \A x \in W : f[x] = w[x[1]][x[2]]
         PROVE  Sum(f, W) = d[at[0]]
    <2>1. \A i \in J : step[i] = f[edge[i]] /\ step[i] \in Int
      <3> SUFFICES ASSUME NEW i \in J PROVE step[i] = f[edge[i]] /\ step[i] \in Int
        OBVIOUS
      <3>1. edge[i] \in W
        OBVIOUS
      <3>2. f[edge[i]] = w[edge[i][1]][edge[i][2]]
        BY <1>11, <3>1
      <3>3. edge[i] = <<at[i], at[i - 1]>> /\ step[i] = w[at[i]][at[i - 1]]
            /\ w[at[i]][at[i - 1]] \in Nat
        BY <1>5
      <3> HIDE DEF edge, step
      <3>4. QED
        BY <3>2, <3>3
    <2>2. \A i \in I : step[i] = d[at[i - 1]] - d[at[i]] /\ step[i] \in Int
      <3>1. \A i \in I : step[i] = d[at[i - 1]] - d[at[i]]
        OBVIOUS
      <3> HIDE DEF step
      <3>2. QED
        BY <1>4, <3>1
    <2>3. PICK D, b, h, A : D = J /\ b = edge /\ h = step /\ A = I
      OBVIOUS
    <2>4. Sum(h, A) = d[at[0]]
      <3>1. \A i \in 1 .. K : h[i] = d[at[i - 1]] - d[at[i]]
        BY <2>2, <2>3
      <3>2. Sum(h, 1 .. K) = d[at[0]]
        BY <3>1, WalkAddsUp
      <3>3. QED
        BY <2>3, <3>2
    <2>5. Sum(h, D) = Sum(f, {b[x] : x \in D})
      <3>1. /\ IsFiniteSet(D) /\ \A x, y \in D : b[x] = b[y] => x = y
            /\ \A x \in D : h[x] = f[b[x]] /\ h[x] \in Int
        BY <1>3, <1>7, <2>1, <2>3
      <3>2. QED
        BY ONLY <3>1, SumRename
    <2>6. D \subseteq A
      BY <2>3
    <2>7. Sum(h, A) = Sum(h, D) + Sum(h, A \ D)
      <3>1. PICK Z : Z = A \ D
        OBVIOUS
      <3>2. IsFiniteSet(A) /\ IsFiniteSet(D) /\ IsFiniteSet(Z)
        BY <1>3, <2>3, <3>1, FS_Difference
      <3>3. D \cap Z = {} /\ D \cup Z = A
        BY <2>6, <3>1
      <3>4. \A x \in D \cup Z : h[x] \in Int
        BY <2>2, <2>3, <3>3
      <3>5. Sum(h, D \cup Z) = Sum(h, D) + Sum(h, Z)
        BY ONLY <3>2, <3>3, <3>4, SumUnion
      <3>6. QED
        BY <3>1, <3>3, <3>5
    <2>8. Sum(h, A \ D) = 0
      <3>1. IsFiniteSet(A \ D)
        BY <1>3, <2>3, FS_Difference
      <3>2. \A x \in A \ D : h[x] = 0
        BY <1>6, <2>3
      <3>3. QED
        BY <3>1, <3>2, SumZero
    <2>9. Sum(h, D) \in Int
      <3>1. IsFiniteSet(D) /\ \A x \in D : h[x] \in Int
        BY <1>3, <2>1, <2>3
      <3>2. QED
        BY ONLY <3>1, SumType
    <2>10. {b[x] : x \in D} = W
      BY <2>3
    <2> HIDE DEF W
    <2>11. QED
      BY <2>4, <2>5, <2>7, <2>8, <2>9, <2>10
  <1> HIDE DEF W
  <1>12. QED
    <2>1. \A x \in W : x[1] # x[2]
      <3> SUFFICES ASSUME NEW x \in W, x[1] = x[2] PROVE FALSE
        OBVIOUS
      <3>1. d[x[1]] \in Nat /\ d[x[1]] < d[x[2]]
        BY <1>9
      <3>2. QED
        BY <3>1
    <2>2. W \subseteq Nodes \X Nodes
      BY <1>9
    <2>3. IsWay(W, w, d[at[0]])
      BY <1>8, <1>10, <1>11, <2>1, <2>2 DEF IsWay
    <2>4. QED
      BY <1>2, <2>3

\* How often a way with the edges W uses a slot.
Uses(W, s) == Cardinality({x \in W : Slot(x) = s})

\* A way uses a slot once or not at all, and those it uses are as long as the way.
LEMMA WayUses ==
  ASSUME IsNetwork(network), NEW W, NEW l, IsWay(W, network, l)
  PROVE  /\ \A s : Uses(W, s) \in {0, 1}
         /\ \A s : Uses(W, s) > 0 => s \in BlockIds \X BlockIds /\ s[1] < s[2]
         /\ \A h : (\A s \in BlockIds \X BlockIds :
                      h[s] = Uses(W, s) * network[s[1]][s[2]]) =>
              Sum(h, BlockIds \X BlockIds) = l
  <1> DEFINE S == BlockIds \X BlockIds
             b == [x \in W |-> Slot(x)]
             T == {b[x] : x \in W}
  <1>1. /\ IsFiniteSet(W) /\ \A x \in W : x \in S /\ x[1] # x[2]
        /\ \A x, y \in W : Slot(x) = Slot(y) => x = y
    BY NodesFinite DEF IsWay
  <1>2. IsFiniteSet(S)
    BY IndexSets, FS_Product
  <1>3. /\ network \in [BlockIds -> [BlockIds -> Nat]]
        /\ \A n, m \in BlockIds : network[n][m] = network[m][n]
    BY NodesFinite DEF IsNetwork
  <1>4. \A x \in W : /\ b[x] = Slot(x) /\ b[x] \in S /\ b[x][1] < b[x][2]
                     /\ network[x[1]][x[2]] = network[b[x][1]][b[x][2]]
                     /\ network[x[1]][x[2]] \in Nat
    <2> SUFFICES ASSUME NEW x \in W
                 PROVE  /\ Slot(x) \in S /\ Slot(x)[1] < Slot(x)[2]
                        /\ network[x[1]][x[2]] = network[Slot(x)[1]][Slot(x)[2]]
                        /\ network[x[1]][x[2]] \in Nat
      OBVIOUS
    <2>1. PICK n \in BlockIds, m \in BlockIds : x = <<n, m>> /\ n # m
      BY <1>1
    <2>2. n \in Nat /\ m \in Nat
      BY IndexSets
    <2>3. CASE m >= n
      <3>1. Slot(x) = <<n, m>> /\ n < m
        BY <2>1, <2>2, <2>3 DEF Slot
      <3>2. QED
        BY <1>3, <2>1, <3>1
    <2>4. CASE ~ (m >= n)
      <3>1. Slot(x) = <<m, n>> /\ m < n
        BY <2>1, <2>2, <2>4 DEF Slot
      <3>2. network[n][m] = network[m][n] /\ network[n][m] \in Nat
        BY <1>3
      <3>3. QED
        BY <2>1, <3>1, <3>2
    <2>5. QED
      BY <2>3, <2>4
  <1>5. \A s \in T : Uses(W, s) = 1
    <2> SUFFICES ASSUME NEW x \in W PROVE Uses(W, b[x]) = 1
      OBVIOUS
    <2>1. {y \in W : Slot(y) = b[x]} = {x}
      BY <1>1
    <2>2. Cardinality({x}) = 1
      BY FS_Singleton
    <2>3. QED
      BY <2>1, <2>2 DEF Uses
  <1>6. \A s : s \notin T => Uses(W, s) = 0
    <2> SUFFICES ASSUME NEW s, s \notin T PROVE Uses(W, s) = 0
      OBVIOUS
    <2>1. {y \in W : Slot(y) = s} = {}
      OBVIOUS
    <2>2. QED
      BY <2>1, FS_EmptySet DEF Uses
  <1>7. \A s \in T : s \in S /\ s[1] < s[2]
    BY <1>4
  <1>8. ASSUME NEW h, \A s \in S : h[s] = Uses(W, s) * network[s[1]][s[2]]
        PROVE  Sum(h, S) = l
    <2>1. PICK f : f = [x \in W |-> network[x[1]][x[2]]]
      OBVIOUS
    <2>2. \A x \in W : f[x] = network[x[1]][x[2]]
      BY <2>1
    <2>3. Sum(f, W) = l
      BY <2>2 DEF IsWay
    <2>4. PICK c, R : c = b /\ R = T
      OBVIOUS
    <2>5. R = {c[x] : x \in W}
      BY <2>4
    <2>6. \A s \in S : network[s[1]][s[2]] \in Nat
      BY <1>3
    <2>7. \A s \in R : s \in S /\ h[s] = network[s[1]][s[2]] /\ h[s] \in Int
      <3> SUFFICES ASSUME NEW s \in R PROVE s \in S /\ h[s] = network[s[1]][s[2]] /\ h[s] \in Int
        OBVIOUS
      <3>1. s \in S /\ Uses(W, s) = 1
        BY <1>5, <1>7, <2>4
      <3>2. h[s] = 1 * network[s[1]][s[2]] /\ network[s[1]][s[2]] \in Nat
        BY <1>8, <2>6, <3>1
      <3>3. QED
        BY <3>1, <3>2
    <2>8. \A s \in S \ R : h[s] = 0
      <3> SUFFICES ASSUME NEW s \in S \ R PROVE h[s] = 0
        OBVIOUS
      <3>1. Uses(W, s) = 0
        BY <1>6, <2>4
      <3>2. h[s] = 0 * network[s[1]][s[2]] /\ network[s[1]][s[2]] \in Nat
        BY <1>8, <2>6, <3>1
      <3>3. QED
        BY <3>2
    <2>9. \A x \in W : f[x] = h[c[x]] /\ f[x] \in Int
      <3> SUFFICES ASSUME NEW x \in W PROVE f[x] = h[c[x]] /\ f[x] \in Int
        OBVIOUS
      <3>1. c[x] \in R /\ c[x] = b[x]
        BY <2>4, <2>5
      <3>2. h[c[x]] = network[c[x][1]][c[x][2]]
        BY <2>7, <3>1
      <3>3. f[x] = network[x[1]][x[2]]
        BY <2>2
      <3> HIDE DEF b
      <3>4. QED
        BY <1>4, <3>1, <3>2, <3>3
    <2>10. Sum(f, W) = Sum(h, R)
      <3>1. \A x, y \in W : c[x] = c[y] => x = y
        BY <1>1, <2>4
      <3>2. IsFiniteSet(W)
        BY <1>1
      <3>3. Sum(f, W) = Sum(h, {c[x] : x \in W})
        BY ONLY <2>9, <3>1, <3>2, SumRename
      <3>4. QED
        BY <2>5, <3>3
    <2>11. Sum(h, S) = Sum(h, R) + Sum(h, S \ R)
      <3>1. PICK A, Z : A = S /\ Z = A \ R
        OBVIOUS
      <3>2. R \subseteq A
        BY <2>7, <3>1
      <3>3. IsFiniteSet(A) /\ IsFiniteSet(R) /\ IsFiniteSet(Z)
        <4>1. IsFiniteSet(A)
          BY <1>2, <3>1
        <4>2. QED
          BY <3>1, <3>2, <4>1, FS_Subset, FS_Difference
      <3>4. R \cap Z = {} /\ R \cup Z = A
        BY <3>1, <3>2
      <3>5. \A s \in R \cup Z : h[s] \in Int
        BY <2>7, <2>8, <3>1
      <3>6. Sum(h, R \cup Z) = Sum(h, R) + Sum(h, Z)
        BY ONLY <3>3, <3>4, <3>5, SumUnion
      <3>7. QED
        BY <3>1, <3>4, <3>6
    <2>12. Sum(h, S \ R) = 0
      <3>1. PICK Z : Z = S \ R
        OBVIOUS
      <3>2. IsFiniteSet(Z) /\ \A s \in Z : h[s] = 0
        BY <1>2, <2>8, <3>1, FS_Difference
      <3>3. Sum(h, Z) = 0
        BY ONLY <3>2, SumZero
      <3>4. QED
        BY <3>1, <3>3
    <2>13. Sum(h, R) \in Int
      <3>1. IsFiniteSet(R) /\ \A s \in R : h[s] \in Int
        <4>1. R \subseteq S
          BY <2>7
        <4> HIDE DEF S
        <4>2. QED
          BY <1>2, <2>7, <4>1, FS_Subset
      <3>2. QED
        BY ONLY <3>1, SumType
    <2>14. QED
      BY <2>3, <2>10, <2>11, <2>12, <2>13
  <1>9. QED
    <2>1. \A s : Uses(W, s) \in {0, 1}
      BY <1>5, <1>6
    <2>2. \A s : Uses(W, s) > 0 => s \in S /\ s[1] < s[2]
      BY <1>6, <1>7
    <2>3. QED
      BY <1>8, <2>1, <2>2

\* r[d] is the sum of the row of d.
RowSums(r, f, D, E) ==
  /\ \A x \in D \X E : f[x] \in Int
  /\ \A d \in D : r[d] = Sum([e \in E |-> f[<<d, e>>]], E)

\* A sum over pairs is a sum of sums over the rows.
LEMMA SumRows ==
  ASSUME NEW D, IsFiniteSet(D), NEW E, IsFiniteSet(E), NEW f, NEW r, RowSums(r, f, D, E)
  PROVE  Sum(f, D \X E) = Sum(r, D)
  <1> DEFINE A == D \X E
             part == [d \in D |-> {x \in A : x[1] = d}]
  <1>1. IsFiniteSet(A)
    BY FS_Product
  <1>2. \A x \in A : f[x] \in Int
    BY DEF RowSums
  <1>3. \A d \in D : r[d] = Sum(f, part[d])
    <2> SUFFICES ASSUME NEW d \in D PROVE r[d] = Sum(f, part[d])
      OBVIOUS
    <2>1. PICK h, b : h = [e \in E |-> f[<<d, e>>]] /\ b = [e \in E |-> <<d, e>>]
      OBVIOUS
    <2>2. \A e \in E : h[e] = f[b[e]] /\ h[e] \in Int
      BY <1>2, <2>1
    <2>3. \A x, y \in E : b[x] = b[y] => x = y
      BY <2>1
    <2>4. Sum(h, E) = Sum(f, {b[x] : x \in E})
      BY ONLY IsFiniteSet(E), <2>2, <2>3, SumRename
    <2>5. {b[x] : x \in E} = part[d]
      BY <2>1
    <2>6. r[d] = Sum(h, E)
      BY <2>1 DEF RowSums
    <2>7. QED
      BY <2>4, <2>5, <2>6
  <1>4. \A d \in D : part[d] \in SUBSET A
    OBVIOUS
  <1>5. \A x \in A : \E d \in D : x \in part[d]
    OBVIOUS
  <1>6. \A c, d \in D : c # d => part[c] \cap part[d] = {}
    OBVIOUS
  <1>7. PICK B, p : B = A /\ p = part
    OBVIOUS
  <1>8. /\ IsFiniteSet(B) /\ \A x \in B : f[x] \in Int
        /\ IsFiniteSet(D) /\ \A d \in D : p[d] \in SUBSET B
        /\ \A x \in B : \E d \in D : x \in p[d]
        /\ \A c, d \in D : c # d => p[c] \cap p[d] = {}
        /\ \A d \in D : r[d] = Sum(f, p[d])
    BY <1>2, <1>1, <1>3, <1>4, <1>5, <1>6, <1>7
  <1>9. Sum(f, B) = Sum(r, D)
    BY ONLY <1>8, SumParts
  <1>10. QED
    BY <1>7, <1>9

\* It may be taken row by row or column by column.
LEMMA SumSwaps ==
  ASSUME NEW D, IsFiniteSet(D), NEW E, IsFiniteSet(E),
         NEW f, NEW r, RowSums(r, f, D, E),
         NEW c, \A e \in E : c[e] = Sum([d \in D |-> f[<<d, e>>]], D)
  PROVE  Sum(r, D) = Sum(c, E)
  <1>1. PICK h, b, A, B : /\ A = D \X E /\ B = E \X D
                          /\ h = [x \in B |-> f[<<x[2], x[1]>>]]
                          /\ b = [x \in B |-> <<x[2], x[1]>>]
    OBVIOUS
  <1>2. Sum(f, A) = Sum(r, D)
    BY <1>1, SumRows
  <1>3. \A x \in A : f[x] \in Int
    BY <1>1 DEF RowSums
  <1>4. Sum(h, B) = Sum(c, E)
    <2>1. \A x \in E \X D : h[x] \in Int
      BY <1>3, <1>1
    <2>2. \A e \in E : c[e] = Sum([d \in D |-> h[<<e, d>>]], D)
      <3> SUFFICES ASSUME NEW e \in E PROVE c[e] = Sum([d \in D |-> h[<<e, d>>]], D)
        OBVIOUS
      <3>1. [d \in D |-> h[<<e, d>>]] = [d \in D |-> f[<<d, e>>]]
        BY <1>1
      <3>2. QED
        BY <3>1
    <2>3. RowSums(c, h, E, D)
      BY <2>1, <2>2 DEF RowSums
    <2>4. Sum(h, E \X D) = Sum(c, E)
      BY <2>3, SumRows
    <2>5. QED
      BY <1>1, <2>4
  <1>5. Sum(h, B) = Sum(f, A)
    <2>1. IsFiniteSet(B)
      BY <1>1, FS_Product
    <2>2. \A x, y \in B : b[x] = b[y] => x = y
      BY <1>1
    <2>3. \A x \in B : h[x] = f[b[x]] /\ h[x] \in Int
      BY <1>3, <1>1
    <2>4. Sum(h, B) = Sum(f, {b[x] : x \in B})
      BY ONLY <2>1, <2>2, <2>3, SumRename
    <2>5. {b[x] : x \in B} = A
      <3>1. \A x \in A : <<x[2], x[1]>> \in B /\ x = b[<<x[2], x[1]>>]
        BY <1>1
      <3>2. \A x \in B : b[x] \in A
        BY <1>1
      <3>3. QED
        BY <3>1, <3>2
    <2>6. QED
      BY <2>4, <2>5
  <1>6. QED
    BY <1>2, <1>4, <1>5

\* What leaves a block leads to the other blocks.
LEMMA BlockRow ==
  ASSUME NEW G, IsGraph(G), NEW b \in BlockIds, NEW r,
         \A c \in BlockIds : r[c] = EntryWeights(G, Between(G, b, c))
  PROVE  Sum(r, BlockIds)
           = CutBetween(G.row, NodesIn(G, b), (DOMAIN G.row) \ NodesIn(G, b))
  <1> DEFINE V == DOMAIN G.row
             A == NodesIn(G, b)
             B == V \ NodesIn(G, b)
  <1>1. GraphIs(G, V)
    BY GraphParts
  <1>2. IsFiniteSet(A) /\ IsFiniteSet(B)
    <2>1. A \in SUBSET V /\ B \in SUBSET V /\ IsFiniteSet(V)
      BY <1>1 DEF GraphIs, NodesIn
    <2> HIDE DEF A, B, V
    <2>2. QED
      BY <2>1, FS_Subset
  <1>3. PICK D, f : D = CutEdges(G.row, A, B) /\ f = Weights(G.row, D)
    OBVIOUS
  <1>4. CutBetween(G.row, A, B) = Sum(f, D)
    <2> HIDE DEF A, B
    <2>1. QED
      BY <1>2, <1>3, CutIsSum
  <1>5. \A e : e \in D <=> e \in CutAll(G) /\ G.part[e[1]] = b
    <2> SUFFICES ASSUME NEW e PROVE e \in D <=> e \in CutAll(G) /\ G.part[e[1]] = b
      OBVIOUS
    <2>1. e \in D <=> e \in A \X B /\ G.row[e[1]][e[2]] > 0
      BY <1>3 DEF CutEdges
    <2>2. e \in A \X B <=> e \in V \X V /\ G.part[e[1]] = b /\ G.part[e[2]] # b
      BY DEF NodesIn
    <2>3. e \in CutAll(G) <=> e \in V \X V /\ G.row[e[1]][e[2]] > 0 /\ G.part[e[1]] # G.part[e[2]]
      BY DEF CutAll
    <2>4. QED
      BY <2>1, <2>2, <2>3
  <1>6. PICK part : part = [c \in BlockIds |-> Between(G, b, c)]
    OBVIOUS
  <1>7. \A c \in BlockIds : part[c] = {e \in D : G.part[e[2]] = c}
    BY <1>5, <1>6 DEF Between
  <1>8. /\ IsFiniteSet(D)
        /\ \A e \in D : /\ f[e] \in Int /\ G.part[e[2]] \in BlockIds
                        /\ f[e] = G.row[e[1]][e[2]]
    <2>1. D \in SUBSET CutAll(G)
      BY <1>5
    <2>2. /\ IsFiniteSet(D) /\ \A e \in D : Weights(G.row, D)[e] \in Nat
          /\ \A e \in D : /\ e[1] \in DOMAIN G.row /\ e[2] \in DOMAIN G.row
                          /\ e = <<e[1], e[2]>>
                          /\ G.row[e[1]][e[2]] \in Nat \ {0} /\ G.part[e[1]] # G.part[e[2]]
                          /\ Weights(G.row, D)[e] = G.row[e[1]][e[2]]
      BY ONLY IsGraph(G), <2>1, CutAllType
    <2>3. \A m \in DOMAIN G.row : G.part[m] \in BlockIds
      BY <1>1 DEF GraphIs
    <2>4. QED
      BY <1>3, <2>2, <2>3
  <1>9. \A c \in BlockIds : r[c] = Sum(f, part[c])
    <2> SUFFICES ASSUME NEW c \in BlockIds PROVE r[c] = Sum(f, part[c])
      OBVIOUS
    <2>1. PICK E, h : E = part[c] /\ h = Weights(G.row, E)
      OBVIOUS
    <2>2. r[c] = Sum(h, E)
      BY <1>6, <2>1, SumOfIsSum
    <2>3. E \in SUBSET D /\ IsFiniteSet(E)
      BY <1>7, <1>8, <2>1, FS_Subset
    <2>4. \A e \in E : h[e] = f[e]
      BY <1>8, <2>1, <2>3 DEF Weights
    <2>5. Sum(h, E) = Sum(f, E)
      BY ONLY <2>3, <2>4, SumSame
    <2>6. QED
      BY <2>1, <2>2, <2>5
  <1>10. PICK J : J = BlockIds
    OBVIOUS
  <1>11. /\ IsFiniteSet(D) /\ \A x \in D : f[x] \in Int
         /\ IsFiniteSet(J) /\ \A j \in J : part[j] \in SUBSET D
         /\ \A x \in D : \E j \in J : x \in part[j]
         /\ \A j, k \in J : j # k => part[j] \cap part[k] = {}
         /\ \A j \in J : r[j] = Sum(f, part[j])
    <2>1. IsFiniteSet(J)
      BY <1>10, IndexSets
    <2>2. QED
      BY <1>7, <1>8, <1>9, <1>10, <2>1
  <1>12. Sum(f, D) = Sum(r, J)
    BY ONLY <1>11, SumParts
  <1>13. QED
    BY <1>4, <1>10, <1>12

\* The sum of all entries of the block graph is the cut of the blocks.
LEMMA BlockGraphCut ==
  ASSUME Fixed, phase \in {"map", "search", "done"}, NEW v,
         \A e \in BlockIds \X BlockIds : v[e] = BlockWeight(e[1], e[2])
  PROVE  Sum(v, BlockIds \X BlockIds)
           = CutSum(g.row, [b \in BlockIds |-> {n \in DOMAIN g.row : g.part[n] = b}])
  <1>1. PICK h, w : h = g /\ w = g.row
    OBVIOUS
  <1>2. IsGraph(h) /\ w = h.row
    BY <1>1 DEF Fixed
  <1>3. PICK block : block = [b \in BlockIds |-> NodesIn(h, b)]
    OBVIOUS
  <1>4. \A b \in BlockIds : block[b] = NodesIn(h, b)
    BY <1>3
  <1>5. DOMAIN block = BlockIds /\ IsFiniteSet(BlockIds)
    BY <1>3, IndexSets
  <1>6. PICK D : D = BlockIds
    OBVIOUS
  <1>7. D = DOMAIN block /\ IsFiniteSet(D)
    BY <1>5, <1>6
  <1>8. PICK r : r = Leaving(w, block)
    OBVIOUS
  <1>9. CutSum(w, block) = Sum(r, D)
    BY <1>7, <1>8, CutSumIsSum
  <1>10. \A b \in D : r[b] = CutBetween(w, NodesIn(h, b), (DOMAIN w) \ NodesIn(h, b))
    BY <1>4, <1>7, <1>8, <1>6 DEF Leaving
  <1>11. \A b, c \in BlockIds : /\ v[<<b, c>>] = EntryWeights(h, Between(h, b, c))
                                /\ v[<<b, c>>] \in Int
    <2> SUFFICES ASSUME NEW b \in BlockIds, NEW c \in BlockIds
                 PROVE  /\ v[<<b, c>>] = EntryWeights(h, Between(h, b, c))
                        /\ v[<<b, c>>] \in Int
      OBVIOUS
    <2>1. v[<<b, c>>] = BlockWeight(b, c)
      OBVIOUS
    <2>2. BlockWeight(b, c) \in Nat
      BY BlockWeightType
    <2>3. BlockWeight(b, c) = IF b = c THEN 0
            ELSE CutBetween(g.row, {n \in DOMAIN g.row : g.part[n] = b},
                                   {n \in DOMAIN g.row : g.part[n] = c})
      BY BlockWeightType
    <2>4. EntryWeights(h, Between(h, b, c)) = IF b = c THEN 0
            ELSE CutBetween(h.row, {n \in DOMAIN h.row : h.part[n] = b},
                                   {n \in DOMAIN h.row : h.part[n] = c})
      BY <1>2, BetweenIsCut
    <2>5. QED
      BY <1>1, <2>1, <2>2, <2>3, <2>4
  <1>12. RowSums(r, v, BlockIds, BlockIds)
    <2>1. \A x \in BlockIds \X BlockIds : v[x] \in Int
      BY <1>11
    <2>2. ASSUME NEW b \in BlockIds
          PROVE  r[b] = Sum([c \in BlockIds |-> v[<<b, c>>]], BlockIds)
      <3>1. PICK f : f = [c \in BlockIds |-> v[<<b, c>>]]
        OBVIOUS
      <3>2. \A c \in BlockIds : f[c] = EntryWeights(h, Between(h, b, c))
        BY <1>11, <3>1
      <3>3. Sum(f, BlockIds)
              = CutBetween(h.row, NodesIn(h, b), (DOMAIN h.row) \ NodesIn(h, b))
        BY <1>2, <3>2, BlockRow
      <3>4. QED
        BY <1>2, <1>6, <1>10, <3>1, <3>3
    <2>3. QED
      BY <2>1, <2>2 DEF RowSums
  <1>13. Sum(v, BlockIds \X BlockIds) = Sum(r, BlockIds)
    BY <1>5, <1>12, SumRows
  <1>14. block = [b \in BlockIds |-> {n \in DOMAIN g.row : g.part[n] = b}]
    BY <1>1, <1>3 DEF NodesIn
  <1>15. QED
    BY <1>1, <1>6, <1>9, <1>13, <1>14

\* U are the edges between nodes of D with a weight in v, in the direction of m.
CountsOnce(U, D, v, m) ==
  /\ \A b, c \in D : v[<<b, c>>] \in Nat /\ v[<<c, b>>] = v[<<b, c>>]
  /\ \A b \in D : v[<<b, b>>] = 0
  /\ (\A b \in D : m[b] \in Int) /\ (\A b, c \in D : m[b] = m[c] => b = c)
  /\ \A e : e \in U <=> e \in D \X D /\ e[1] # e[2] /\ v[e] > 0 /\ m[e[1]] <= m[e[2]]

\* Every edge of the block graph is counted in one of its directions.
LEMMA CountedHalf ==
  ASSUME NEW D, IsFiniteSet(D), NEW v, NEW m, NEW U, CountsOnce(U, D, v, m)
  PROVE  IsFiniteSet(U) /\ Sum(v, D \X D) = 2 * Sum(v, U)
  <1>0. /\ \A b, c \in D : v[<<b, c>>] \in Nat /\ v[<<c, b>>] = v[<<b, c>>]
        /\ \A b \in D : v[<<b, b>>] = 0
        /\ (\A b \in D : m[b] \in Int) /\ (\A b, c \in D : m[b] = m[c] => b = c)
        /\ \A e : e \in U <=> e \in D \X D /\ e[1] # e[2] /\ v[e] > 0 /\ m[e[1]] <= m[e[2]]
    BY DEF CountsOnce
  <1> USE <1>0
  <1>1. PICK S : S = D \X D
    OBVIOUS
  <1>2. PICK flip : flip = [e \in U |-> <<e[2], e[1]>>]
    OBVIOUS
  <1>3. PICK W : W = {flip[e] : e \in U}
    OBVIOUS
  <1>4. PICK Z : Z = S \ (U \cup W)
    OBVIOUS
  <1>5. IsFiniteSet(S)
    BY <1>1, FS_Product
  <1>6. U \subseteq S
    BY <1>1
  <1>7. \A e \in U : /\ flip[e] = <<e[2], e[1]>> /\ flip[e] \in S /\ v[flip[e]] = v[e]
                     /\ v[e] \in Int /\ flip[e] \notin U
    <2> SUFFICES ASSUME NEW e \in U
                 PROVE  /\ <<e[2], e[1]>> \in S /\ v[<<e[2], e[1]>>] = v[e]
                        /\ v[e] \in Int /\ <<e[2], e[1]>> \notin U
      BY <1>2
    <2>1. PICK b \in D, c \in D : e = <<b, c>>
      BY <1>1, <1>6
    <2>2. e \in D \X D /\ e[1] # e[2] /\ m[e[1]] <= m[e[2]]
      OBVIOUS
    <2>3. b # c /\ m[b] <= m[c] /\ m[b] \in Int /\ m[c] \in Int
      BY <2>1, <2>2
    <2>4. ~ (m[c] <= m[b])
      BY <2>3
    <2>5. <<c, b>> \notin U
      <3>1. <<c, b>> \in U => m[<<c, b>>[1]] <= m[<<c, b>>[2]]
        OBVIOUS
      <3>2. QED
        BY <2>4, <3>1
    <2>6. v[<<c, b>>] = v[<<b, c>>] /\ v[<<b, c>>] \in Nat
      OBVIOUS
    <2>7. QED
      BY <1>1, <2>1, <2>5, <2>6
  <1>8. W \subseteq S /\ U \cap W = {} /\ Z \subseteq S /\ Z \cap (U \cup W) = {}
        /\ (U \cup W) \cup Z = S
    BY <1>3, <1>4, <1>6, <1>7
  <1>9. IsFiniteSet(U) /\ IsFiniteSet(W) /\ IsFiniteSet(Z) /\ IsFiniteSet(U \cup W)
    <2>1. IsFiniteSet(U) /\ IsFiniteSet(W) /\ IsFiniteSet(Z)
      BY <1>5, <1>6, <1>8, FS_Subset
    <2>2. QED
      BY <2>1, FS_Union
  <1>10. Sum(v, W) = Sum(v, U)
    <2>1. \A x, y \in U : flip[x] = flip[y] => x = y
      <3> SUFFICES ASSUME NEW x \in U, NEW y \in U, flip[x] = flip[y] PROVE x = y
        OBVIOUS
      <3>1. x = <<x[1], x[2]>> /\ y = <<y[1], y[2]>>
        BY <1>1, <1>6
      <3>2. <<x[2], x[1]>> = <<y[2], y[1]>>
        BY <1>7
      <3>3. QED
        BY <3>1, <3>2
    <2>2. \A x \in U : v[x] = v[flip[x]] /\ v[x] \in Int
      BY <1>7
    <2>3. Sum(v, U) = Sum(v, {flip[x] : x \in U})
      BY ONLY <1>9, <2>1, <2>2, SumRename
    <2>4. QED
      BY <1>3, <2>3
  <1>11. \A x \in S : v[x] \in Int
    <2> SUFFICES ASSUME NEW x \in S PROVE v[x] \in Int
      OBVIOUS
    <2>1. PICK b \in D, c \in D : x = <<b, c>>
      BY <1>1
    <2>2. v[<<b, c>>] \in Nat
      OBVIOUS
    <2>3. QED
      BY <2>1, <2>2
  <1>12. \A x \in Z : v[x] = 0
    <2> SUFFICES ASSUME NEW x \in Z PROVE v[x] = 0
      OBVIOUS
    <2>1. PICK b \in D, c \in D : x = <<b, c>>
      BY <1>1, <1>8
    <2>2. CASE b = c
      BY <2>1, <2>2
    <2>3. CASE b # c
      <3>1. SUFFICES ASSUME v[x] # 0 PROVE FALSE
        OBVIOUS
      <3>2. v[<<b, c>>] > 0 /\ v[<<c, b>>] > 0
        <4>1. v[<<b, c>>] \in Nat /\ v[<<c, b>>] = v[<<b, c>>]
          OBVIOUS
        <4>2. QED
          BY <2>1, <3>1, <4>1
      <3>3. m[b] <= m[c] \/ m[c] <= m[b]
        <4>1. m[b] \in Int /\ m[c] \in Int
          OBVIOUS
        <4>2. QED
          BY <4>1
      <3>4. CASE m[b] <= m[c]
        <4>1. <<b, c>> \in U
          BY <2>3, <3>2, <3>4
        <4>2. QED
          BY <1>8, <2>1, <4>1
      <3>5. CASE m[c] <= m[b]
        <4>1. <<c, b>> \in U
          BY <2>3, <3>2, <3>5
        <4>2. flip[<<c, b>>] = <<b, c>>
          BY <1>7, <4>1
        <4>3. <<b, c>> \in W
          BY <1>3, <4>1, <4>2
        <4>4. QED
          BY <1>8, <2>1, <4>3
      <3>6. QED
        BY <3>3, <3>4, <3>5
    <2>4. QED
      BY <2>2, <2>3
  <1>13. Sum(v, U \cup W) = Sum(v, U) + Sum(v, W)
    <2>1. \A x \in U \cup W : v[x] \in Int
      BY <1>6, <1>8, <1>11
    <2>2. U \cap W = {}
      BY <1>8
    <2>3. QED
      BY ONLY <1>9, <2>1, <2>2, SumUnion
  <1>14. PICK T : T = U \cup W
    OBVIOUS
  <1>15. Sum(v, T \cup Z) = Sum(v, T) + Sum(v, Z)
    <2>1. IsFiniteSet(T) /\ IsFiniteSet(Z) /\ T \cap Z = {}
          /\ \A x \in T \cup Z : v[x] \in Int
      BY <1>8, <1>9, <1>11, <1>14
    <2>2. QED
      BY ONLY <2>1, SumUnion
  <1>16. Sum(v, Z) = 0
    BY ONLY <1>9, <1>12, SumZero
  <1>17. Sum(v, U) \in Int
    <2>1. \A x \in U : v[x] \in Int
      BY <1>7
    <2>2. QED
      BY ONLY <1>9, <2>1, SumType
  <1>18. Sum(v, S) = 2 * Sum(v, U)
    <2>1. Sum(v, S) = Sum(v, T) + Sum(v, Z)
      BY <1>8, <1>14, <1>15
    <2>2. QED
      BY <1>10, <1>13, <1>14, <1>16, <1>17, <2>1
  <1>19. QED
    BY <1>1, <1>9, <1>18

\* cong says how much weight the ways W[e] bring to every slot.
Loads(cong, E, W, v) ==
  \A s \in BlockIds \X BlockIds : cong[s] = Sum([e \in E |-> Uses(W[e], s) * v[e]], E)

\* a[e] is the charge for a way W[e] of length l[e] and an edge of weight v[e].
Charges(a, E, W, l, v) ==
  \A e \in E : /\ IsWay(W[e], network, l[e]) /\ l[e] \in Nat /\ v[e] \in Nat
               /\ a[e] = l[e] * v[e]

\* q is the charge for the slots R with a load.
ChargesSlots(q, R, cong) ==
  /\ R = {s \in BlockIds \X BlockIds : cong[s] > 0}
  /\ \A s \in R : q[s] = cong[s] * network[s[1]][s[2]]

\* Along ways of length l[e], weights times lengths are loads times edges.
LEMMA LoadsAddUp ==
  ASSUME IsNetwork(network), NEW E, IsFiniteSet(E), NEW W, NEW l, NEW v,
         NEW a, Charges(a, E, W, l, v), NEW cong, Loads(cong, E, W, v),
         NEW q, NEW R, ChargesSlots(q, R, cong)
  PROVE  Sum(a, E) = Sum(q, R) /\ \A s \in R : s[1] < s[2]
  <1>0. /\ \A e \in E : IsWay(W[e], network, l[e]) /\ l[e] \in Nat /\ v[e] \in Nat
        /\ \A e \in E : a[e] = l[e] * v[e]
        /\ R = {s \in BlockIds \X BlockIds : cong[s] > 0}
        /\ \A s \in R : q[s] = cong[s] * network[s[1]][s[2]]
    BY DEF Charges, ChargesSlots
  <1> USE <1>0
  <1>1. PICK S : S = BlockIds \X BlockIds
    OBVIOUS
  <1>2. IsFiniteSet(S)
    BY <1>1, IndexSets, FS_Product
  <1>3. PICK net : net = [s \in S |-> network[s[1]][s[2]]]
    OBVIOUS
  <1>4. \A s \in S : net[s] \in Nat /\ net[s] = network[s[1]][s[2]]
    <2>1. network \in [BlockIds -> [BlockIds -> Nat]]
      BY NodesFinite DEF IsNetwork
    <2>2. QED
      BY <1>1, <1>3, <2>1
  <1>5. PICK use : use = [x \in E \X S |-> Uses(W[x[1]], x[2])]
    OBVIOUS
  <1>6. \A e \in E : \A s \in S :
          /\ use[<<e, s>>] = Uses(W[e], s) /\ use[<<e, s>>] \in Nat
          /\ use[<<e, s>>] > 0 => s[1] < s[2]
    <2> SUFFICES ASSUME NEW e \in E, NEW s \in S
                 PROVE  /\ use[<<e, s>>] = Uses(W[e], s) /\ use[<<e, s>>] \in Nat
                        /\ use[<<e, s>>] > 0 => s[1] < s[2]
      OBVIOUS
    <2>1. use[<<e, s>>] = Uses(W[e], s)
      BY <1>5
    <2>2. PICK We, le : We = W[e] /\ le = l[e]
      OBVIOUS
    <2>3. IsWay(We, network, le)
      BY <2>2
    <2>4. /\ \A t : Uses(We, t) \in {0, 1}
          /\ \A t : Uses(We, t) > 0 => t \in BlockIds \X BlockIds /\ t[1] < t[2]
      BY ONLY IsNetwork(network), <2>3, WayUses
    <2>5. QED
      BY <2>1, <2>2, <2>4
  <1>7. \A e \in E : \A h : (\A s \in S : h[s] = use[<<e, s>>] * net[s]) => Sum(h, S) = l[e]
    <2> SUFFICES ASSUME NEW e \in E, NEW h, \A s \in S : h[s] = use[<<e, s>>] * net[s]
                 PROVE  Sum(h, S) = l[e]
      OBVIOUS
    <2>1. PICK We, le : We = W[e] /\ le = l[e]
      OBVIOUS
    <2>2. IsWay(We, network, le)
      BY <2>1
    <2>3. \A f : (\A s \in BlockIds \X BlockIds :
                    f[s] = Uses(We, s) * network[s[1]][s[2]]) =>
            Sum(f, BlockIds \X BlockIds) = le
      BY ONLY IsNetwork(network), <2>2, WayUses
    <2>4. \A s \in BlockIds \X BlockIds : h[s] = Uses(We, s) * network[s[1]][s[2]]
      BY <1>1, <1>4, <1>6, <2>1
    <2>5. QED
      BY <1>1, <2>1, <2>3, <2>4
  <1>8. \A s \in S : cong[s] = Sum([e \in E |-> use[<<e, s>>] * v[e]], E)
    <2> SUFFICES ASSUME NEW s \in S
                 PROVE  cong[s] = Sum([e \in E |-> use[<<e, s>>] * v[e]], E)
      OBVIOUS
    <2>1. [e \in E |-> use[<<e, s>>] * v[e]] = [e \in E |-> Uses(W[e], s) * v[e]]
      BY <1>6
    <2>2. QED
      BY <1>1, <2>1 DEF Loads
  <1>9. PICK f : f = [x \in E \X S |-> use[x] * v[x[1]] * net[x[2]]]
    OBVIOUS
  <1>10. \A e \in E : \A s \in S :
           /\ f[<<e, s>>] = use[<<e, s>>] * v[e] * net[s] /\ f[<<e, s>>] \in Int
    <2> SUFFICES ASSUME NEW e \in E, NEW s \in S
                 PROVE  /\ f[<<e, s>>] = use[<<e, s>>] * v[e] * net[s]
                        /\ f[<<e, s>>] \in Int
      OBVIOUS
    <2>1. f[<<e, s>>] = use[<<e, s>>] * v[e] * net[s]
      BY <1>9
    <2>2. PICK x \in Nat, y \in Nat, z \in Nat : x = use[<<e, s>>] /\ y = v[e] /\ z = net[s]
      BY <1>4, <1>6
    <2>3. x * y * z \in Int
      OBVIOUS
    <2>4. QED
      BY <2>1, <2>2, <2>3
  <1>11. PICK c : c = [s \in S |-> cong[s] * net[s]]
    OBVIOUS
  \* Row by row: the way of an edge, as often as its weight.
  <1>12. RowSums(a, f, E, S)
    <2>1. \A x \in E \X S : f[x] \in Int
      BY <1>10
    <2>2. ASSUME NEW e \in E PROVE a[e] = Sum([s \in S |-> f[<<e, s>>]], S)
      <3>1. PICK h, k : /\ h = [s \in S |-> use[<<e, s>>] * net[s]]
                        /\ k = [s \in S |-> f[<<e, s>>]]
        OBVIOUS
      <3>2. Sum(h, S) = l[e]
        BY <1>7, <3>1
      <3>3. PICK y \in Nat : y = v[e]
        OBVIOUS
      <3>4. \A s \in S : h[s] \in Int /\ k[s] = y * h[s]
        <4> SUFFICES ASSUME NEW s \in S PROVE h[s] \in Int /\ k[s] = y * h[s]
          OBVIOUS
        <4>1. PICK x \in Nat, z \in Nat : x = use[<<e, s>>] /\ z = net[s]
          BY <1>4, <1>6
        <4>2. h[s] = x * z /\ k[s] = x * y * z
          BY <1>10, <3>1, <3>3, <4>1
        <4>3. x * z \in Int /\ x * y * z = y * (x * z)
          OBVIOUS
        <4>4. QED
          BY <4>2, <4>3
      <3>5. y \in Int
        OBVIOUS
      <3>6. Sum(k, S) = y * Sum(h, S)
        BY ONLY <1>2, <3>4, <3>5, SumScale
      <3>7. a[e] = l[e] * y /\ l[e] \in Nat
        BY <3>3
      <3>8. QED
        BY <3>1, <3>2, <3>6, <3>7
    <2>3. QED
      BY <2>1, <2>2 DEF RowSums
  \* Slot by slot: its load, as often as its edge is long.
  <1>13. \A s \in S : /\ c[s] = Sum([e \in E |-> f[<<e, s>>]], E)
                      /\ cong[s] \in Nat /\ c[s] = cong[s] * net[s]
                      /\ cong[s] > 0 => s[1] < s[2]
    <2> SUFFICES ASSUME NEW s \in S
                 PROVE  /\ c[s] = Sum([e \in E |-> f[<<e, s>>]], E)
                        /\ cong[s] \in Nat /\ c[s] = cong[s] * net[s]
                        /\ cong[s] > 0 => s[1] < s[2]
      OBVIOUS
    <2>1. PICK h, k : /\ h = [e \in E |-> use[<<e, s>>] * v[e]]
                      /\ k = [e \in E |-> f[<<e, s>>]]
      OBVIOUS
    <2>2. cong[s] = Sum(h, E)
      BY <1>8, <2>1
    <2>3. PICK z \in Nat : z = net[s]
      BY <1>4
    <2>4. \A e \in E : h[e] \in Nat /\ h[e] \in Int /\ k[e] = z * h[e]
                       /\ (h[e] > 0 => use[<<e, s>>] > 0)
      <3> SUFFICES ASSUME NEW e \in E
                   PROVE  h[e] \in Nat /\ h[e] \in Int /\ k[e] = z * h[e]
                          /\ (h[e] > 0 => use[<<e, s>>] > 0)
        OBVIOUS
      <3>1. PICK x \in Nat, y \in Nat : x = use[<<e, s>>] /\ y = v[e]
        BY <1>6
      <3>2. h[e] = x * y /\ k[e] = x * y * z
        BY <1>10, <2>1, <2>3, <3>1
      <3>3. x * y \in Nat /\ x * y \in Int /\ x * y * z = z * (x * y)
        OBVIOUS
      <3>4. x * y > 0 => x > 0
        <4>1. x = 0 => x * y = 0
          OBVIOUS
        <4>2. QED
          BY <4>1
      <3>5. QED
        BY <3>1, <3>2, <3>3, <3>4
    <2>5. z \in Int /\ \A e \in E : h[e] \in Int /\ k[e] = z * h[e]
      <3>1. z \in Int
        OBVIOUS
      <3>2. ASSUME NEW e \in E PROVE h[e] \in Int /\ k[e] = z * h[e]
        BY <2>4
      <3>3. QED
        BY <3>1, <3>2
    <2>6. Sum(k, E) = z * Sum(h, E)
      BY ONLY IsFiniteSet(E), <2>5, SumScale
    <2>7. \A e \in E : h[e] \in Nat
      BY <2>4
    <2>8. Sum(h, E) \in Nat /\ (Sum(h, E) > 0 <=> \E e \in E : h[e] > 0)
      BY ONLY IsFiniteSet(E), <2>7, SumPositive
    <2>9. c[s] = cong[s] * z
      BY <1>11, <2>3
    <2>10. PICK o \in Nat : o = Sum(h, E)
      BY <2>8
    <2>11. o * z = z * o
      OBVIOUS
    <2>12. c[s] = Sum(k, E)
      BY <2>2, <2>6, <2>9, <2>10, <2>11
    <2>13. cong[s] > 0 => s[1] < s[2]
      BY <1>6, <2>2, <2>4, <2>8
    <2>14. QED
      BY <2>1, <2>2, <2>3, <2>8, <2>9, <2>12, <2>13
  <1>14. Sum(a, E) = Sum(c, S)
    <2>1. \A s \in S : c[s] = Sum([e \in E |-> f[<<e, s>>]], E)
      BY <1>13
    <2>2. QED
      BY ONLY IsFiniteSet(E), <1>2, <1>12, <2>1, SumSwaps
  <1>15. PICK Z : Z = S \ R
    OBVIOUS
  <1>16. R \subseteq S /\ R \cap Z = {} /\ R \cup Z = S
    BY <1>1, <1>15
  <1>17. IsFiniteSet(R) /\ IsFiniteSet(Z)
    <2>1. Z \subseteq S /\ R \subseteq S
      BY <1>15, <1>16
    <2>2. QED
      BY <1>2, <2>1, FS_Subset
  <1>18. \A s \in S : c[s] \in Int
    <2> SUFFICES ASSUME NEW s \in S PROVE c[s] \in Int
      OBVIOUS
    <2>1. PICK x \in Nat, z \in Nat : x = cong[s] /\ z = net[s]
      BY <1>4, <1>13
    <2>2. x * z \in Int
      OBVIOUS
    <2>3. QED
      BY <1>13, <2>1, <2>2
  <1>19. \A s \in Z : c[s] = 0
    <2> SUFFICES ASSUME NEW s \in Z PROVE c[s] = 0
      OBVIOUS
    <2>1. s \in S /\ ~ (cong[s] > 0)
      BY <1>1, <1>15
    <2>2. cong[s] = 0
      <3>1. cong[s] \in Nat
        BY <1>13, <2>1
      <3>2. QED
        BY <2>1, <3>1
    <2>3. PICK z \in Nat : z = net[s]
      BY <1>4, <2>1
    <2>4. 0 * z = 0
      OBVIOUS
    <2>5. QED
      BY <1>13, <2>1, <2>2, <2>3, <2>4
  <1>20. Sum(c, R \cup Z) = Sum(c, R) + Sum(c, Z)
    <2>1. \A s \in R \cup Z : c[s] \in Int
      BY <1>16, <1>18
    <2>2. R \cap Z = {}
      BY <1>16
    <2>3. QED
      BY ONLY <1>17, <2>1, <2>2, SumUnion
  <1>21. Sum(c, Z) = 0
    BY ONLY <1>17, <1>19, SumZero
  <1>22. Sum(c, R) = Sum(q, R)
    <2>1. \A s \in R : c[s] = q[s]
      <3> SUFFICES ASSUME NEW s \in R PROVE c[s] = q[s]
        OBVIOUS
      <3>1. s \in S
        BY <1>16
      <3>2. c[s] = cong[s] * net[s]
        BY <1>13, <3>1
      <3>3. q[s] = cong[s] * network[s[1]][s[2]]
        OBVIOUS
      <3>4. net[s] = network[s[1]][s[2]]
        BY <1>4, <3>1
      <3>5. QED
        BY <3>2, <3>3, <3>4
    <2>2. IsFiniteSet(R)
      BY <1>17
    <2>3. QED
      BY ONLY <2>1, <2>2, SumSame
  <1>23. Sum(c, R) \in Int
    <2>1. IsFiniteSet(R) /\ \A s \in R : c[s] \in Int
      BY <1>16, <1>17, <1>18
    <2>2. QED
      BY ONLY <2>1, SumType
  <1>24. Sum(c, S) = Sum(q, R)
    <2>1. Sum(c, S) = Sum(c, R) + 0
      BY <1>16, <1>20, <1>21
    <2>2. QED
      BY <1>22, <1>23, <2>1
  <1>25. \A s \in R : s[1] < s[2]
    BY <1>1, <1>13
  <1>26. QED
    BY <1>14, <1>24, <1>25

\* What AddUp charges for the edges E of the block graph in the matrix m, along the
\* ways in ps between the processes of map.
LengthOf(ps, map, e) == ps[map[e[1]] + 1].dist[map[e[2]]]

WayOf(ps, map, e) == WayBack(ps[map[e[1]] + 1], map[e[1]], map[e[2]])

Dilation(E, m, ps, map) ==
  SumOf([e \in E |-> LengthOf(ps, map, e) * CSREntry(m, e[1], e[2])])

Congestion(E, m, ps, map) ==
  [s \in BlockIds \X BlockIds |->
     SumOf([e \in E |-> Uses(WayOf(ps, map, e), s) * CSREntry(m, e[1], e[2])])]

\* In the end the cost is what the paths that are kept make it.
CostInv ==
  phase = "done" =>
    /\ cost.dilation = Dilation(CountedEdges, csr, paths, mapping)
    /\ cost.congestion = Congestion(CountedEdges, csr, paths, mapping)

\* Nothing happens once it is known.
LEMMA CostNext ==
  ASSUME CostInv, [Next]_vars
  PROVE  CostInv'
  <1>1. UNCHANGED <<csr, mapping>> => CountedEdges' = CountedEdges
    BY DEF CountedEdges, BlockWeight
  <1>2. CASE AddUp
    <2>1. PICK all : all = Append(paths, [dist |-> dist, pred |-> predecessor])
      OBVIOUS
    <2>2. paths' = all /\ UNCHANGED <<csr, mapping>>
      BY <1>2, <2>1 DEF AddUp, graphVars, mapVars
    <2>3. cost' = [dilation |-> Dilation(CountedEdges, csr, all, mapping),
                   congestion |-> Congestion(CountedEdges, csr, all, mapping)]
      BY <1>2, <2>1, Zenon
         DEF AddUp, Dilation, Congestion, LengthOf, WayOf, Uses, BlockWeight
    <2>4. QED
      BY <1>1, <2>2, <2>3 DEF CostInv
  <1>3. CASE UNCHANGED vars
    <2>1. UNCHANGED <<csr, mapping, paths, cost, phase>>
      BY <1>3 DEF vars, graphVars, mapVars
    <2>2. QED
      BY <1>1, <2>1 DEF CostInv
  <1>4. CASE Next /\ ~ AddUp
    <2>1. phase' # "done"
      BY <1>4 DEF Next, ApplySfcRenumber, KeepNumbers, CountBlockEdges, BuildBlockGraph,
                  PickHeaviest, MapNeighbor, IdentityMapping, SearchFrom, SearchPaths
    <2>2. QED
      BY <2>1 DEF CostInv
  <1>5. QED
    BY <1>2, <1>3, <1>4

\* The way an edge of the block graph is charged for.
LEMMA EdgeWay ==
  ASSUME IsNetwork(network), NEW ps, PathsFrom(ps), Len(ps) = K,
         NEW map \in [BlockIds -> BlockIds], NEW b \in BlockIds, NEW c \in BlockIds,
         map[b] # map[c]
  PROVE  /\ IsWay(WayOf(ps, map, <<b, c>>), network, LengthOf(ps, map, <<b, c>>))
         /\ LengthOf(ps, map, <<b, c>>) \in Nat \ {0}
         /\ SameWeights(network) /\ (\A n, m \in BlockIds : n # m => network[n][m] = 1) =>
              LengthOf(ps, map, <<b, c>>) = 1
  <1>0. PICK s \in Nodes, t \in Nodes : s = map[b] /\ t = map[c]
    BY NodesFinite
  <1>1. PICK path : s = map[b] /\ t = map[c] /\ path = ps[s + 1]
    BY <1>0
  <1>2. s # t /\ s \in 0 .. (K - 1) /\ K \in Nat
    BY <1>1, NodesFinite DEF BlockIds
  <1>3. LeadsTo(s, path)
    <2>1. s + 1 \in 1 .. Len(ps)
      BY <1>2
    <2>2. \A i \in 1 .. Len(ps) : LeadsTo(i - 1, ps[i])
      BY DEF PathsFrom
    <2>3. PICK i, j : i = s + 1 /\ j = i - 1
      OBVIOUS
    <2>4. i \in 1 .. Len(ps) /\ j = s
      BY <1>2, <2>1, <2>3
    <2>5. LeadsTo(j, ps[i])
      BY ONLY <2>2, <2>3, <2>4
    <2>6. QED
      BY <1>1, <2>3, <2>4, <2>5
  <1>4. /\ WayOf(ps, map, <<b, c>>) = WayBack(path, s, t)
        /\ LengthOf(ps, map, <<b, c>>) = path.dist[t]
    BY <1>1 DEF WayOf, LengthOf
  <1>5. IsWay(WayBack(path, s, t), network, path.dist[t])
    <2>1. PICK at : at = Back(path, s, t)
      OBVIOUS
    <2>2. Walks(at, path.dist, network, s) /\ at[0] = t
      BY <1>3, <2>1, BackWalks
    <2>3. PICK d : d = path.dist
      OBVIOUS
    <2>4. Walks(at, d, network, s)
      BY <2>2, <2>3
    <2>5. IsWay(WayEdges(at, s), network, d[at[0]])
      BY ONLY <2>4, WalkIsWay
    <2>6. WayBack(path, s, t) = WayEdges(at, s)
      BY <2>1, WayBackIs
    <2>7. QED
      BY <2>2, <2>3, <2>5, <2>6
  <1>6. path.dist[t] \in Nat \ {0}
    <2>1. path.dist \in [Nodes -> Nat] /\ path.pred[t] \in Neighbors(network, t)
          /\ path.dist[t] = path.dist[path.pred[t]] + network[path.pred[t]][t]
      BY <1>2, <1>3 DEF LeadsTo, Path
    <2>2. PICK p : p = path.pred[t]
      OBVIOUS
    <2>3. p \in Nodes /\ network[t][p] > 0 /\ network[p][t] = network[t][p]
          /\ network[p][t] \in Nat
      BY <2>1, <2>2 DEF Neighbors, IsNetwork
    <2>4. path.dist[p] \in Nat /\ path.dist[t] = path.dist[p] + network[p][t]
      BY <2>1, <2>2, <2>3
    <2>5. QED
      BY <2>3, <2>4
  <1>7. ASSUME SameWeights(network), \A n, m \in BlockIds : n # m => network[n][m] = 1
        PROVE  path.dist[t] = 1
    <2>1. network[s][t] = 1 /\ t \in Neighbors(network, s)
      BY <1>2, <1>7, NodesFinite DEF Neighbors, IsNetwork
    <2>2. path.dist[t] <= path.dist[s] + network[s][t] /\ path.dist[s] = 0
      BY <1>3, <1>7, <2>1 DEF LeadsTo
    <2>3. QED
      BY <1>6, <2>1, <2>2
  <1>8. QED
    BY <1>4, <1>5, <1>6, <1>7

\* The edges counted carry half of the cut.
LEMMA CountedIsCut ==
  ASSUME Fixed, MapInv, phase = "done", NEW v,
         \A e \in BlockIds \X BlockIds : v[e] = BlockWeight(e[1], e[2])
  PROVE  /\ IsFiniteSet(CountedEdges) /\ \A e \in CountedEdges : v[e] \in Nat
         /\ CutSum(g.row, [b \in BlockIds |-> {n \in DOMAIN g.row : g.part[n] = b}])
              = 2 * Sum(v, CountedEdges)
  <1>1. PICK D, U : D = BlockIds /\ U = CountedEdges
    OBVIOUS
  <1>2. IsFiniteSet(D)
    BY <1>1, IndexSets
  <1>3. \A b, c \in D : v[<<b, c>>] \in Nat /\ v[<<c, b>>] = v[<<b, c>>]
    <2> SUFFICES ASSUME NEW b \in D, NEW c \in D
                 PROVE  v[<<b, c>>] \in Nat /\ v[<<c, b>>] = v[<<b, c>>]
      OBVIOUS
    <2>1. v[<<b, c>>] = BlockWeight(b, c) /\ v[<<c, b>>] = BlockWeight(c, b)
      BY <1>1
    <2>2. PICK w, A, B : /\ w = g.row
                         /\ A = {n \in DOMAIN g.row : g.part[n] = b}
                         /\ B = {n \in DOMAIN g.row : g.part[n] = c}
      OBVIOUS
    <2>3. phase \in {"map", "search", "done"}
      OBVIOUS
    <2>4. /\ BlockWeight(b, c) \in Nat
          /\ BlockWeight(b, c) = IF b = c THEN 0 ELSE CutBetween(w, A, B)
          /\ BlockWeight(c, b) = IF c = b THEN 0 ELSE CutBetween(w, B, A)
      BY <1>1, <2>2, <2>3, BlockWeightType
    <2>5. GraphIs(g, DOMAIN g.row)
      BY GraphParts DEF Fixed
    <2>6. IsFiniteSet(A) /\ IsFiniteSet(B)
      <3>1. A \subseteq DOMAIN g.row /\ B \subseteq DOMAIN g.row
        BY <2>2
      <3>2. QED
        BY <2>5, <3>1, FS_Subset DEF GraphIs
    <2>7. \A n \in A, m \in B : w[n][m] \in Nat /\ w[m][n] = w[n][m]
      BY <2>2, <2>5 DEF GraphIs
    <2>8. CutBetween(w, A, B) = CutBetween(w, B, A)
      BY ONLY <2>6, <2>7, CutSymmetric
    <2>9. QED
      BY <2>1, <2>4, <2>8
  <1>4. \A b \in D : v[<<b, b>>] = 0
    <2> SUFFICES ASSUME NEW b \in D PROVE v[<<b, b>>] = 0
      OBVIOUS
    <2>1. v[<<b, b>>] = BlockWeight(b, b)
      BY <1>1
    <2>2. phase \in {"map", "search", "done"}
      OBVIOUS
    <2>3. BlockWeight(b, b) = 0
      BY <1>1, <2>2, BlockWeightType
    <2>4. QED
      BY <2>1, <2>3
  <1>5. PICK m : m = mapping
    OBVIOUS
  <1>6. (\A b \in D : m[b] \in Int) /\ (\A b, c \in D : m[b] = m[c] => b = c)
    <2>1. mapping \in [BlockIds -> BlockIds] /\ BlockIds \subseteq Nat /\ mapped = BlockIds
          /\ \A b, c \in mapped : mapping[b] = mapping[c] => b = c
      BY IndexSets DEF MapInv
    <2>2. m \in [D -> D] /\ D \subseteq Nat /\ \A b, c \in D : m[b] = m[c] => b = c
      BY <1>1, <1>5, <2>1
    <2>3. ASSUME NEW b \in D PROVE m[b] \in Int
      <3>1. PICK x \in D : x = m[b]
        BY <2>2
      <3>2. x \in Nat
        BY <2>2
      <3>3. x \in Int
        BY <3>2
      <3>4. QED
        BY <3>1, <3>3
    <2>4. QED
      BY <2>2, <2>3
  <1>7. \A e : e \in U <=> e \in D \X D /\ e[1] # e[2] /\ v[e] > 0 /\ m[e[1]] <= m[e[2]]
    <2>1. \A e : e \in U <=> /\ e \in D \X D /\ e[1] # e[2] /\ BlockWeight(e[1], e[2]) > 0
                             /\ m[e[1]] <= m[e[2]]
      BY <1>1, <1>5 DEF CountedEdges
    <2>2. \A e \in D \X D : v[e] = BlockWeight(e[1], e[2])
      BY <1>1
    <2>3. ASSUME NEW e
          PROVE  e \in U <=> e \in D \X D /\ e[1] # e[2] /\ v[e] > 0 /\ m[e[1]] <= m[e[2]]
      <3>1. CASE e \in D \X D
        <4>1. v[e] = BlockWeight(e[1], e[2])
          BY <2>2, <3>1
        <4>2. QED
          BY <2>1, <4>1
      <3>2. CASE e \notin D \X D
        BY <2>1, <3>2
      <3>3. QED
        BY <3>1, <3>2
    <2>4. QED
      BY <2>3
  <1>8. IsFiniteSet(U) /\ Sum(v, D \X D) = 2 * Sum(v, U)
    <2>1. CountsOnce(U, D, v, m)
      BY <1>3, <1>4, <1>6, <1>7 DEF CountsOnce
    <2>2. QED
      BY ONLY <1>2, <2>1, CountedHalf
  <1>9. Sum(v, BlockIds \X BlockIds)
          = CutSum(g.row, [b \in BlockIds |-> {n \in DOMAIN g.row : g.part[n] = b}])
    <2>1. phase \in {"map", "search", "done"}
      OBVIOUS
    <2>2. QED
      BY <2>1, BlockGraphCut
  <1>10. \A e \in U : v[e] \in Nat
    <2> SUFFICES ASSUME NEW e \in U PROVE v[e] \in Nat
      OBVIOUS
    <2>1. PICK b \in D, c \in D : e = <<b, c>>
      BY <1>7
    <2>2. QED
      BY <1>3, <2>1
  <1>11. QED
    BY <1>1, <1>8, <1>9, <1>10

\* The cost of a mapping, as the code adds it up.
LEMMA CostFits ==
  ASSUME MappingInv, CostInv
  PROVE  CongestionIsDilation
  <1> DEFINE cut == CutSum(g.row, [b \in BlockIds |-> {n \in DOMAIN g.row : g.part[n] = b}])
             unit == SameWeights(network)
                     /\ (\A b, c \in BlockIds : b # c => network[b][c] = 1)
  <1>1. SUFFICES ASSUME phase = "done"
        PROVE  /\ cost.dilation =
                    SumOf([s \in {x \in BlockIds \X BlockIds : cost.congestion[x] > 0} |->
                             cost.congestion[s] * network[s[1]][s[2]]])
               /\ \A s \in BlockIds \X BlockIds : cost.congestion[s] > 0 => s[1] < s[2]
               /\ cost.dilation >= cut \div 2
               /\ unit => 2 * cost.dilation = cut
    BY DEF CongestionIsDilation
  <1> HIDE DEF cut, unit
  <1>2. /\ Fixed /\ MapInv /\ IsNetwork(network) /\ PathsFrom(paths) /\ Len(paths) = K
        /\ mapping \in [BlockIds -> BlockIds] /\ mapped = BlockIds
        /\ \A b, c \in BlockIds : mapping[b] = mapping[c] => b = c
    BY <1>1 DEF MappingInv, Fixed, MapInv, SearchPart
  <1>3. PICK E : E = CountedEdges
    OBVIOUS
  <1>4. PICK v : v = [e \in BlockIds \X BlockIds |-> BlockWeight(e[1], e[2])]
    OBVIOUS
  <1>5. \A e \in BlockIds \X BlockIds : v[e] = BlockWeight(e[1], e[2])
    BY <1>4
  <1>6. /\ IsFiniteSet(E) /\ \A e \in E : v[e] \in Nat
        /\ cut = 2 * Sum(v, E)
    BY <1>1, <1>2, <1>3, <1>5, CountedIsCut DEF cut
  <1>7. \A e \in E : e \in BlockIds \X BlockIds /\ e[1] # e[2]
                     /\ v[e] = CSREntry(csr, e[1], e[2])
    BY <1>3, <1>5 DEF CountedEdges, BlockWeight
  <1>8. PICK W, l, a : /\ W = [e \in E |-> WayOf(paths, mapping, e)]
                       /\ l = [e \in E |-> LengthOf(paths, mapping, e)]
                       /\ a = [e \in E |-> LengthOf(paths, mapping, e)
                                             * CSREntry(csr, e[1], e[2])]
    OBVIOUS
  <1>9. \A e \in E : /\ IsWay(W[e], network, l[e]) /\ l[e] \in Nat \ {0}
                     /\ a[e] = l[e] * v[e]
                     /\ unit => l[e] = 1
    <2> SUFFICES ASSUME NEW e \in E
                 PROVE  /\ IsWay(W[e], network, l[e]) /\ l[e] \in Nat \ {0}
                        /\ a[e] = l[e] * v[e]
                        /\ unit => l[e] = 1
      OBVIOUS
    <2>1. PICK b \in BlockIds, c \in BlockIds : e = <<b, c>> /\ b # c
      BY <1>7
    <2>2. mapping[b] # mapping[c]
      BY <1>2, <2>1
    <2>3. PICK ps, map : ps = paths /\ map = mapping
      OBVIOUS
    <2>4. PathsFrom(ps) /\ Len(ps) = K /\ map \in [BlockIds -> BlockIds] /\ map[b] # map[c]
      BY <1>2, <2>2, <2>3
    <2>5. /\ IsWay(WayOf(ps, map, <<b, c>>), network, LengthOf(ps, map, <<b, c>>))
          /\ LengthOf(ps, map, <<b, c>>) \in Nat \ {0}
          /\ SameWeights(network) /\ (\A n, m \in BlockIds : n # m => network[n][m] = 1) =>
               LengthOf(ps, map, <<b, c>>) = 1
      <3>1. IsNetwork(network)
        BY <1>2
      <3>2. QED
        BY ONLY b \in BlockIds, c \in BlockIds, <2>4, <3>1, EdgeWay
    <2>6. W[e] = WayOf(ps, map, <<b, c>>) /\ l[e] = LengthOf(ps, map, <<b, c>>)
      BY <1>8, <2>1, <2>3
    <2>7. a[e] = l[e] * v[e]
      BY <1>7, <1>8
    <2>8. QED
      BY <2>5, <2>6, <2>7 DEF unit
  <1>10. PICK cong : cong = cost.congestion
    OBVIOUS
  <1>11. cost.dilation = Sum(a, E)
    <2>1. cost.dilation = SumOf(a)
      BY <1>1, <1>3, <1>8 DEF CostInv, Dilation
    <2>2. DOMAIN a = E
      BY <1>8
    <2>3. QED
      BY <2>1, <2>2, SumOfIsSum
  <1>12. Loads(cong, E, W, v)
    <2> SUFFICES ASSUME NEW s \in BlockIds \X BlockIds
                 PROVE  cong[s] = Sum([e \in E |-> Uses(W[e], s) * v[e]], E)
      BY DEF Loads
    <2>1. PICK f : f = [e \in E |-> Uses(WayOf(paths, mapping, e), s) * CSREntry(csr, e[1], e[2])]
      OBVIOUS
    <2>2. cong[s] = SumOf(f)
      BY <1>1, <1>3, <1>10, <2>1 DEF CostInv, Congestion
    <2>3. f = [e \in E |-> Uses(W[e], s) * v[e]]
      BY <1>7, <1>8, <2>1
    <2>4. DOMAIN f = E
      BY <2>1
    <2>5. QED
      BY <2>2, <2>3, <2>4, SumOfIsSum
  <1>13. PICK R, q : /\ R = {s \in BlockIds \X BlockIds : cong[s] > 0}
                     /\ q = [s \in R |-> cong[s] * network[s[1]][s[2]]]
    OBVIOUS
  <1>14. Sum(a, E) = Sum(q, R) /\ \A s \in R : s[1] < s[2]
    <2>1. Charges(a, E, W, l, v)
      BY <1>6, <1>9 DEF Charges
    <2>2. ChargesSlots(q, R, cong)
      BY <1>13 DEF ChargesSlots
    <2>3. IsNetwork(network) /\ IsFiniteSet(E) /\ Loads(cong, E, W, v)
      BY <1>2, <1>6, <1>12
    <2>4. QED
      BY ONLY <2>1, <2>2, <2>3, LoadsAddUp
  <1>15. cost.dilation = SumOf([s \in {x \in BlockIds \X BlockIds : cost.congestion[x] > 0} |->
                                  cost.congestion[s] * network[s[1]][s[2]]])
    <2>1. DOMAIN q = R
      BY <1>13
    <2>2. SumOf(q) = Sum(q, R)
      BY <2>1, SumOfIsSum
    <2>3. q = [s \in {x \in BlockIds \X BlockIds : cost.congestion[x] > 0} |->
                 cost.congestion[s] * network[s[1]][s[2]]]
      BY <1>10, <1>13
    <2>4. QED
      BY <1>11, <1>14, <2>2, <2>3
  <1>16. \A s \in BlockIds \X BlockIds : cost.congestion[s] > 0 => s[1] < s[2]
    BY <1>10, <1>13, <1>14
  <1>17. Sum(v, E) \in Int /\ Sum(a, E) \in Int /\ Sum(v, E) <= Sum(a, E)
         /\ (unit => Sum(v, E) = Sum(a, E))
    <2>1. \A e \in E : v[e] \in Int /\ a[e] \in Int /\ v[e] <= a[e] /\ (unit => v[e] = a[e])
      <3> SUFFICES ASSUME NEW e \in E
                   PROVE  v[e] \in Int /\ a[e] \in Int /\ v[e] <= a[e] /\ (unit => v[e] = a[e])
        OBVIOUS
      <3>1. PICK x \in Nat, y \in Nat \ {0} : x = v[e] /\ y = l[e]
        BY <1>6, <1>9
      <3>2. a[e] = y * x /\ (unit => y = 1)
        BY <1>9, <3>1
      <3>3. y * x \in Int /\ x <= y * x /\ (y = 1 => y * x = x)
        <4>1. PICK z \in Nat : y = z + 1
          <5>1. y - 1 \in Nat /\ y = (y - 1) + 1
            OBVIOUS
          <5>2. QED
            BY <5>1
        <4>2. y * x = z * x + x /\ z * x \in Nat
          BY <4>1
        <4>3. y = 1 => z * x = 0
          <5>1. y = 1 => z = 0
            BY <4>1
          <5>2. 0 * x = 0
            OBVIOUS
          <5>3. QED
            BY <5>1, <5>2
        <4>4. QED
          BY <4>2, <4>3
      <3>4. QED
        BY <3>1, <3>2, <3>3
    <2>2. \A e \in E : v[e] \in Int
      BY <2>1
    <2>3. \A e \in E : a[e] \in Int
      BY <2>1
    <2>4. \A e \in E : v[e] \in Int /\ a[e] \in Int /\ v[e] <= a[e]
      BY <2>1
    <2>5. Sum(v, E) \in Int
      BY ONLY <1>6, <2>2, SumType
    <2>6. Sum(a, E) \in Int
      BY ONLY <1>6, <2>3, SumType
    <2>7. Sum(v, E) <= Sum(a, E)
      BY ONLY <1>6, <2>4, SumMonotone
    <2>8. ASSUME unit PROVE Sum(v, E) = Sum(a, E)
      <3>1. \A e \in E : v[e] = a[e]
        BY <2>1, <2>8
      <3>2. QED
        BY ONLY <1>6, <3>1, SumSame
    <2>9. QED
      BY <2>5, <2>6, <2>7, <2>8
  <1>18. cost.dilation >= cut \div 2 /\ (unit => 2 * cost.dilation = cut)
    <2>1. PICK x \in Int, y \in Int : x = Sum(v, E) /\ y = Sum(a, E)
      BY <1>17
    <2>2. x <= y /\ (unit => x = y) /\ cut = 2 * x /\ cost.dilation = y
      BY <1>6, <1>11, <1>17, <2>1
    <2>3. (2 * x) \div 2 = x
      OBVIOUS
    <2>4. QED
      BY <2>2, <2>3
  <1>19. QED
    BY <1>15, <1>16, <1>18

\* Dilation and congestion of a mapping are the same weights times the same lengths, for
\* every graph, network and mapping that the program can arrive at: no block edge is
\* counted twice or along a way that is longer than its distance (Metrics.cpp:417-478).
THEOREM CongestionFits == Spec => []CongestionIsDilation
  <1>1. Init => CostInv
    BY DEF Init, CostInv
  <1>2. CostInv /\ [Next]_vars => CostInv'
    BY CostNext
  <1>3. MappingInv /\ CostInv => CongestionIsDilation
    BY CostFits
  <1>4. QED
    BY <1>1, <1>2, <1>3, MappingInvariant, PTL DEF Spec
=============================================================================
