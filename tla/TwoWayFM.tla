------------------------------ MODULE TwoWayFM ------------------------------
(***************************************************************************)
(* LocalRefinement::twoWayLocalFM: the Fiduccia-Mattheyses refinement that *)
(* a process runs on the border region between its own ("first") block     *)
(* and the block of its partner ("second").  Nodes move one at a time, in  *)
(* the order of two priority queues of gains; then the best prefix of the  *)
(* moves that fits the capacity is kept and the rest is rolled back.       *)
(*                                                                         *)
(* The queues order by (-gain, tie-breaking key); the keys are arbitrary,  *)
(* so any node of largest gain may come first.  Queue 0 holds the nodes    *)
(* still in the first block, queue 1 those still in the second.            *)
(***************************************************************************)
EXTENDS PartGraph, SequencesExt

CONSTANTS
  Region,     \* the border region: the nodes that may move
  Outer,      \* nodes of the two blocks that are visible but may not move
  FirstNodes, \* the visible nodes that belong to the first block
  Graphs,     \* edge weights to consider
  NodeWeight, \* node weights
  Sizes,      \* pairs of block weights to consider, indexed by 0 and 1
  Capacities, \* block capacities to consider
  StopRounds, \* values of settings.stopAfterNoGainRounds to consider
  DiffusionRounds \* settings.diffusionRounds

Visible == Region \cup Outer

ASSUME FMAssumption ==
  /\ IsFiniteSet(Region) /\ IsFiniteSet(Outer)
  /\ Region \cap Outer = {}
  /\ FirstNodes \subseteq Visible
  /\ Graphs \subseteq [Visible -> [Visible -> Nat]]
  /\ \A w \in Graphs : \A n, m \in Visible : w[n][m] = w[m][n]
  /\ NodeWeight \in [Visible -> Nat]
  /\ Sizes \subseteq [{0, 1} -> Nat]
  /\ Capacities \subseteq Nat
  /\ DiffusionRounds \in Nat

VARIABLES
  graph, capacity, startSizes, stopAfter, gainOverBalance,  \* the input
  assigned,    \* assignedToSecondBlock: 0 or 1 for each region node
  size,        \* blockSizes
  gain,        \* the gain table
  queue,       \* the nodes in firstQueue and secondQueue
  transfers,   \* the nodes moved, in order
  gainSums,    \* gainSumList
  sizeList,    \* larger block after each move
  idle,        \* iterWithoutGain
  result,      \* the value returned
  pc

input == <<graph, capacity, startSizes, stopAfter, gainOverBalance>>
vars == <<input, assigned, size, gain, queue, transfers, gainSums, sizeList,
          idle, result, pc>>

Side(n) == IF n \in FirstNodes THEN 0 ELSE 1

\* Each process decides by its own rows alone whether edges are weighted.
edgesWeighted ==
  Max({0} \cup {graph[n][m] : n \in FirstNodes, m \in Visible}) # 1

EdgeView == [n \in Visible |-> [m \in Visible |->
               IF edgesWeighted \/ graph[n][m] = 0 THEN graph[n][m] ELSE 1]]

\* What the cut between the blocks loses when n changes sides; self-loops do
\* not count, nor do edges to third blocks.
ComputeInitialGain(n) ==
  WeightOf(EdgeView[n], {m \in Visible \ {n} : Side(m) # Side(n)})
    - WeightOf(EdgeView[n], {m \in Visible \ {n} : Side(m) = Side(n)})

StopLimit == IF stopAfter > 0 THEN stopAfter ELSE Cardinality(Region)

TopGain(q) == Max({gain[n] : n \in queue[q]})

\* The pair each block is compared by.  With gainOverBalance the first pair
\* is assigned twice and the second keeps its initial zeros.
ComparisonPair(q) ==
  IF gainOverBalance
  THEN IF q = 0 THEN <<TopGain(1), size[1]>> ELSE <<0, 0>>
  ELSE <<size[q], TopGain(q)>>

LexLess(a, b) == a[1] < b[1] \/ (a[1] = b[1] /\ a[2] < b[2])

\* A queue that may be chosen: the other one is empty; or one block is full;
\* or its pair is not the smaller one (ties are broken at random).
MayTakeFrom(q) ==
  /\ queue[q] # {}
  /\ \/ queue[1 - q] = {}
     \/ size[0] >= capacity /\ q = 1
     \/ size[0] < capacity /\ size[1] >= capacity /\ q = 0
     \/ /\ queue[1 - q] # {} /\ size[0] < capacity /\ size[1] < capacity
        /\ ~ LexLess(ComparisonPair(q), ComparisonPair(1 - q))

\* The loop condition and the break at its head.
LoopEnds ==
  \/ queue[0] \cup queue[1] = {}
  \/ idle >= StopLimit
  \/ queue[0] = {} /\ size[0] >= capacity
  \/ queue[1] = {} /\ size[1] >= capacity

-----------------------------------------------------------------------------
(***************************************************************************)
(* twoWayLocalDiffusion, one source of tie-breaking keys: each block       *)
(* starts with a unit of load, of opposite sign, spread over its region    *)
(* nodes, and neighbours even out.  Only active nodes take part.  Loads    *)
(* are exact, in units of one divided by LoadUnit.                         *)
(***************************************************************************)
RegionOf(q) == {n \in Region : Side(n) = q}

\* One over magicNumberAlpha: the longest row of the region and of the halo.
Inertia ==
  1 + Max({Cardinality({m \in Visible : graph[n][m] # 0}) :
             n \in RegionOf(0) \cup (Visible \ FirstNodes)})

\* Inertia to the power of r.
Scale[r \in 0 .. DiffusionRounds] == IF r = 0 THEN 1 ELSE Scale[r - 1] * Inertia

LoadUnit == Cardinality(RegionOf(0)) * Cardinality(RegionOf(1)) * Scale[DiffusionRounds]

\* Up to secondRoundMarkers: the nodes of either block that border the other.
SecondRound == {n \in Region : \E m \in Neighbors(graph, n) : Side(m) # Side(n)}

InitialLoads ==
  [load |-> [n \in Region |-> IF Side(n) = 0 THEN LoadUnit \div Cardinality(RegionOf(0))
                              ELSE - (LoadUnit \div Cardinality(RegionOf(1)))],
   active |-> SecondRound]

\* (The mutant does not wake the neighbours.)
DiffuseMut(s) ==
  LET delta(n) == MapThenSumSet(LAMBDA m : s.load[m] - s.load[n],
                                Neighbors(graph, n) \cap Region)
  IN  [load |-> [n \in Region |-> IF n \in s.active
                                  THEN s.load[n] + delta(n) \div Inertia ELSE s.load[n]],
       active |-> s.active]

\* Active nodes stay active, and their neighbours become so.
Diffuse(s) ==
  LET delta(n) == MapThenSumSet(LAMBDA m : s.load[m] - s.load[n],
                                Neighbors(graph, n) \cap Region)
  IN  [load |-> [n \in Region |-> IF n \in s.active
                                  THEN s.load[n] + delta(n) \div Inertia ELSE s.load[n]],
       active |-> s.active \cup (Region \cap NeighborsOf(graph, s.active))]

Diffusion[r \in 0 .. DiffusionRounds] ==
  IF r = 0 THEN InitialLoads ELSE Diffuse(Diffusion[r - 1])

-----------------------------------------------------------------------------
Init ==
  /\ graph \in Graphs
  /\ capacity \in Capacities
  /\ startSizes \in Sizes
  /\ stopAfter \in StopRounds
  /\ gainOverBalance \in BOOLEAN
  /\ assigned = [n \in Region |-> Side(n)]
  /\ size = startSizes
  /\ gain = [n \in Region |-> 0]
  /\ queue = [q \in {0, 1} |-> {}]
  /\ transfers = <<>> /\ gainSums = <<>> /\ sizeList = <<>>
  /\ idle = 0
  /\ result = 0
  /\ pc = "start"

\* Both blocks are full: return at once.
ReturnOverloaded ==
  /\ pc = "start"
  /\ size[0] >= capacity /\ size[1] >= capacity
  /\ pc' = "done"
  /\ UNCHANGED <<input, assigned, size, gain, queue, transfers, gainSums,
                 sizeList, idle, result>>

FillQueues ==
  /\ pc = "start"
  /\ size[0] < capacity \/ size[1] < capacity
  /\ gain' = [n \in Region |-> ComputeInitialGain(n)]
  /\ queue' = [q \in {0, 1} |-> {n \in Region : assigned[n] = q}]
  /\ pc' = "loop"
  /\ UNCHANGED <<input, assigned, size, transfers, gainSums, sizeList, idle,
                 result>>

\* The gains of the nodes not yet moved after n left side q: an edge to a
\* node on the side n left turns from uncut to cut, and vice versa.
\* (The mutant counts the edge once.)
UpdatedGainsMut(n, q) ==
  [m \in Region |->
     IF m = n \/ m \notin queue[0] \cup queue[1] THEN gain[m]
     ELSE gain[m] + (IF assigned[m] = q THEN EdgeView[n][m]
                                        ELSE - EdgeView[n][m])]

UpdatedGains(n, q) ==
  [m \in Region |->
     IF m = n \/ m \notin queue[0] \cup queue[1] THEN gain[m]
     ELSE gain[m] + 2 * (IF assigned[m] = q THEN EdgeView[n][m]
                                            ELSE - EdgeView[n][m])]

\* n, of largest gain in queue q, leaves the queue.
ExtractMin(q, n) == [queue EXCEPT ![q] = @ \ {n}]

MoveNode(n) ==
  /\ pc = "loop"
  /\ ~ LoopEnds
  /\ \E q \in {0, 1} :
       /\ MayTakeFrom(q)
       /\ n \in queue[q]
       /\ gain[n] = TopGain(q)
       /\ assigned' = [assigned EXCEPT ![n] = 1 - q]
       /\ size' = [size EXCEPT ![q] = @ - NodeWeight[n],
                               ![1 - q] = @ + NodeWeight[n]]
       /\ queue' = ExtractMin(q, n)
       /\ gain' = UpdatedGains(n, q)
  /\ idle' = IF gain[n] > 0 THEN 0 ELSE idle + 1
  /\ transfers' = Append(transfers, n)
  /\ gainSums' = Append(gainSums,
                   gain[n] + IF gainSums = <<>> THEN 0 ELSE Last(gainSums))
  /\ sizeList' = Append(sizeList, Max({size'[0], size'[1]}))
  /\ UNCHANGED <<input, result, pc>>

\* Moves after which the cut is smaller than at the start and no block is
\* too large.
\* (The mutant forgets the capacity.)
GoodPrefixesMut == {i \in DOMAIN gainSums : gainSums[i] > 0}

GoodPrefixes == {i \in DOMAIN gainSums : gainSums[i] > 0
                                         /\ sizeList[i] <= capacity}

\* The length of the prefix that is kept: the first best one, or nothing.
KeptMoves ==
  IF GoodPrefixes = {} THEN 0
  ELSE Min({i \in GoodPrefixes :
              \A j \in GoodPrefixes : gainSums[j] <= gainSums[i]})

\* Roll back all moves after the kept prefix.
RecoverBestCut ==
  /\ pc = "loop"
  /\ LoopEnds
  /\ LET undone == {transfers[i] : i \in KeptMoves + 1 .. Len(transfers)}
         back(q) == WeightOf(NodeWeight, {n \in undone : assigned[n] # q})
     IN  /\ assigned' = [n \in Region |-> IF n \in undone THEN 1 - assigned[n]
                                                          ELSE assigned[n]]
         /\ size' = [q \in {0, 1} |-> size[q] + back(q) - back(1 - q)]
  /\ result' = IF KeptMoves = 0 THEN 0 ELSE gainSums[KeptMoves]
  /\ pc' = "done"
  /\ UNCHANGED <<input, gain, queue, transfers, gainSums, sizeList, idle>>

\* The function has returned.
Returned == pc = "done" /\ UNCHANGED vars

Next == \/ ReturnOverloaded
        \/ FillQueues
        \/ \E n \in Region : MoveNode(n)
        \/ RecoverBestCut
        \/ Returned

Spec == Init /\ [][Next]_vars

-----------------------------------------------------------------------------
BlockNow(q) == {n \in Region : assigned[n] = q}
                 \cup {n \in Outer : Side(n) = q}

\* The incrementally updated gain table stays exact: for every node that may
\* still move, the entry (and so its queue key) is what the cut between the
\* two blocks would lose by moving it now.
GainTableExact ==
  pc = "loop" => \A q \in {0, 1} : \A n \in queue[q] :
    gain[n] = CutBetween(EdgeView, BlockNow(0), BlockNow(1))
                - CutBetween(EdgeView, BlockNow(q) \ {n}, BlockNow(1 - q) \cup {n})

\* The promise the distributed refinement relies on: on return either nothing
\* moved and the gain is 0, or the cut fell by exactly the returned gain and
\* neither block exceeds the capacity.
OutcomePromised ==
  pc = "done" =>
    [gain |-> result, toSecond |-> {n \in Region : assigned[n] = 1}]
      \in FMOutcomes(EdgeView, NodeWeight, FirstNodes, Visible \ FirstNodes,
                     Region, startSizes[0], startSizes[1], capacity)

\* The diffusion never meets the exception of LocalRefinement.cpp:927, a load that
\* differs across an edge to a node still asleep; so no load is lost, and none grows
\* beyond what a block started with (the assertion of LocalRefinement.cpp:936).
LoadIsKept ==
  pc = "start" => \A r \in DOMAIN Diffusion :
    LET s == Diffusion[r]
    IN  /\ \A n \in s.active : \A m \in (Neighbors(graph, n) \cap Region) \ s.active :
             s.load[m] = s.load[n]
        /\ MapThenSumSet(LAMBDA n : s.load[n], Region) = 0
        /\ \A n \in Region : s.load[n] \in (- LoadUnit) .. LoadUnit

=============================================================================
