# Formal models of Geographer

Geographer partitions large geometric graphs in parallel: `k` blocks for `p`
MPI processes, usually `k = p`. This directory holds TLA+ models of its stages
and of the files it reads and writes, the TLC configurations that check them on
small instances, and TLAPS proofs for all instances.

    tlc -workers 2 -config MCDistributedFM_ring.cfg MCDistributedFM
    tlapm DistributedFMProofs.tla

`PROJECT.json` lists the components, runs, mutants (one plausible bug for each
property, which the property must catch), hazards, findings, theorems, and the
source lines behind each definition.

## 1. Inventory

Paths are relative to `src/src/`.

| Component | State | Operations | Interaction |
|---|---|---|---|
| Pipeline (`ParcoRepart.cpp`, `main.cpp`) | graph, coordinates, weights, partition, all distributed over the processes | `partitionGraph`: initial partition, redistribution, mapping, `doLocalRefinement` | calls all others; collective on all processes |
| Balanced k-means (`KMeans.cpp`) | centres, influence per block, distance bounds per point, samples | `assignBlocks` (balance loop), `findCenters`, `computePartition` and its hierarchical forms | global sums of block weights and centres in every iteration |
| Curves, multisection, pixels (`HilbertCurve.cpp`, `MultiSection.cpp`, `ParcoRepart.cpp`) | indices along a curve; rectangles and projections; density image | index, distributed sort and exchange; one-dimensional partitions, a tree of rectangles; greedy growth | global sums and sorts |
| Block-to-process assignment (`AuxiliaryFunctions.cpp`) | claims of every process, available blocks | rounds of claims until every process has a block | a global sum per round |
| Mapping (`Mapping.cpp`) and communication tree (`CommTree.cpp`) | queue of blocks, processes in use; tree of processing elements with weights | greedy mapping, renumbering along a curve; tree construction, `adaptWeights` | read by hierarchical k-means and by the metrics |
| Communication scheme (`GraphUtils.cpp`, `ParcoRepart.cpp`) | colours of the edges of the block graph, rounds | `mecGraphColoring`, `getCommunicationPairs_local` | computed by every process from a replicated matrix |
| Multilevel (`MultiLevel.cpp`) | graph hierarchy, fine-to-coarse map, origins | `multiLevelStep`, `coarsen`, `maxLocalMatching`, `getFineTargets`, `pixeledCoarsen` | recursion; prefix sums over processes; calls the refinement |
| Local refinement (`LocalRefinement.cpp`, `HaloPlanFns.cpp`, `PrioQueue.h`) | local nodes and rows, border list, origins, halo; in `twoWayLocalFM` gain table, queues, block sizes | `distributedFMStep`, `getInterfaceNodes`, `twoWayLocalFM`, `redistributeFromHalo` | only swaps between two partners inside a sweep; a barrier at its end |
| Graph utilities, metrics (`GraphUtils.cpp`, `Metrics.cpp`) | - | cut, imbalance, border nodes, volume, block graphs, distances, dilation and congestion | collective sums; some of it on one process |
| Files and meshes (`FileIO.cpp`, `MeshGenerator.cpp`) | - | readers and writers of graphs, coordinates, partitions, trees; structured grids | processes write in turns, read shares, and meet in sums and redistributions |
| Settings, repartitioning, spectral partition, random meshes and quadtrees, wrappers of other partitioners | - | - | option parsing, numerics, third-party libraries |

### Where it is hard

*Concurrency.* The processes share no clock inside a refinement sweep. Partners
meet in untagged, blocking swaps; different pairs run rounds apart. Both partners
decide separately, from swapped gains, whose result counts and whether there is a
further swap at all. Each process leaves the refinement loop, the balance loop and
the rounds of claims on its own copy of the condition.

*Long-lived incremental state.* Border lists, gain tables, block sizes, origins and
the distance bounds of k-means are updated, never recomputed, and each is read much
later, often by another process. The halo of a coarse graph is made from the fine one.

*Order.* Sorting leaves ties open, queue ties are broken at random, the curve has
points in one place, and results of several processes are merged pairwise.

*Failure.* There is no crash recovery and no persistence; a failed assertion or
an exception in one process leaves the others waiting. So the properties are that
those exceptions are not reached, or are reached for a named cause only. Files may be
truncated, may lack their last line end, and may have been written for other sizes.

What makes each component correct:

- initial partition: every cut is the best the method allows, moving points loses none
  and keeps the order of the curve, blocks over pixels hang together;
- k-means: all processes enter the same sums; the bounds never hide a closer centre;
  every point has been in the sample before the end;
- block assignment: each process gets one block, none is lost again, the rounds end;
- mapping: one process for each block; what is charged to the network adds up;
- scheme: rounds are symmetric pairings, heavy borders come early, colouring never runs
  out of colours;
- coarsening: the processes only match and merge their own nodes, number them together,
  and each build a part of the coarse graph; the parts make up the contraction of the
  input, so cut and weights survive;
- two-way refinement: the returned gain is what the cut fell by, both blocks fit;
- sweep: each node has one owner, borders and origins are exact, the reported gains are
  the real ones, overload does not grow, every sweep ends and is equivalent to whole
  pairwise steps;
- V-cycle: each node follows its coarse node, only sweeps change the cut, the refinement
  loop ends on all processes at once;
- measures: two ways to compute the same quantity agree;
- files: what all readers accept is what was meant, and nothing else stops them.

## 2. Modules

    CommScheme --+--- RefinementSetupProofs, MCRefinementSetup
    BlockClaims -+
    PartGraph -+- TwoWayFM ------------- MCTwoWayFM, TwoWayFMProofs
               +- PairwiseRefinement
               +- PartGraphProofs
               +- DistributedFM -------- MCDistributedFM, DistributedFMProofs
               |       (refines PairwiseRefinement; uses the promise of TwoWayFM)
               +- Coarsening ----------- MCCoarsening, CoarseningProofs
               +- MultiLevel ----------- MCMultiLevel, MultiLevelProofs
               |       (uses the promises of Coarsening, CommScheme, DistributedFM)
               +- GraphMeasures --+
               +- ShortestPaths --+- BlockMapping --- MCBlockMapping, BlockMappingProofs
    BalancedKMeans --------- MCBalancedKMeans, BalancedKMeansProofs
    MultiSection ------+
    SpaceFillingCurve -+- InitialPartition --- MCInitialPartition
    EdgeList ------+
    CommTree ------+
    StructuredMesh +-- FileIO --- MCFileIO

### Refinement

**CommScheme** models `GraphUtils::mecGraphColoring` (with `CSR2EdgeList_local`) and
`ParcoRepart::getCommunicationPairs_local`. `SchemeInit` chooses the weights of the block
graph; `ColorEdge(e)` is one pass of the edge loop, the edges in falling weight with
ties in any order; `AllocateScheme`, `SetPair(e)` and `Return` fill the rounds. The
initial colour `2 * maxDegree` and the scan for the first gap are as in the code, the
assertion "Color too large" is a guard, and a state in which it fails is stuck, so that
`SchemeDelivered` would be violated.

**PartGraph** holds weighted graphs, the cut, and `FMOutcomes`, the promise of
`twoWayLocalFM`: no move and gain 0, or a gain that is exactly what the cut falls by,
with both blocks within the capacity.

**TwoWayFM** models `LocalRefinement::twoWayLocalFM`. `gain`, `queue`, `size`,
`assigned`, `transfers`, `gainSums`, `sizeList` and `idle` are the variables of the
function; `MoveNode(n)` is one pass of its loop: choice of the queue (including the
double assignment of the first comparison pair under `gainOverBalance`, the closing of a
full block the wrong way round, and the random tie), the move, the counters and the
update of the neighbours' gains. Queue keys are (-gain, tie-breaking key); the key is
arbitrary, so any node of largest gain may come. `RecoverBestCut` keeps the first best
prefix that fits and rolls the rest back. `Diffusion` is `twoWayLocalDiffusion`, which
computes such keys, with loads as multiples of a unit that all divisions leave whole.

**PairwiseRefinement** is the abstract sweep: in its round a pair redistributes its
nodes in one step, if the cut falls and both blocks fit, or leaves them alone.

**DistributedFM** models `LocalRefinement::distributedFMStep` for every process. Each
action runs from one blocking receive to the next: `SendBorder`, `SwapSizes`
(`getInterfaceNodes` with its breadth-first search), `SwapHalo`, `RefineAndSwapGain`,
then `NoImprovement`, or `SwapResult` and `ApplyResult` (removal and addition of nodes,
border candidates, `redistributeFromHalo`, update of the border list); `Idle` is a round
without partner and `Synchronize` the barrier at the end. `chan` are the messages under
way, in order for each pair of processes. The swap of a length followed by the swap of
an array is one message, and so are the parts of the halo. `twoWayLocalFM` is replaced by
its promise `FMOutcomes`, which TwoWayFM is checked to keep; the two partners choose
their outcomes independently. Whether edges count as weighted is decided per process
from its own rows (`EdgeView`), as in the code. The exception for a one-sided border is
the missing complement of a guard: a process that meets it stops, and deadlock is checked.
`maxBlockSizes` uses whole percent for `epsilon`.

### Multilevel

**Coarsening** models `MultiLevel::coarsen`. `MatchNode` and `SkipNode` are the loop of
`maxLocalMatching`, node by node, with the partner of the best edge rating
(`edgeRatingPartner`) or, for `nnCoarsening`, any partner, since coordinates are not
modelled (`nnPartner`). The edge with index 0 in the local storage is never taken
(`bestTarget > 0`). `Contract` is the rest of an iteration: preserved nodes, the chain of
maps `rep`, weights and rows. `NumberCoarseNodes` is the prefix sum over all processes,
`BuildCoarseGraph` the assembly of the coarse rows with the numbers from the halo, and
`SumToCoarse` the projection of the weights. The graph may have self-loops after the first
iteration, as in the code. Processes run independently up to the prefix sum.

**MultiLevel** models `ParcoRepart::doLocalRefinement` and `MultiLevel::multiLevelStep`
with `coarsenHalo` and `getFineTargets`. `Descend` pushes a level onto `stack`, `Return`
pops it and moves each fine node to where `origin` says that its coarse node went. On
each level `Setup` computes the schemes, which are *not* computed again while the sweeps
move nodes, `Test(p)` is the loop condition as process `p` evaluates it on its own
`minGain[p]`, `EnterColor`, `RefinePair` and `NextColor` are a sweep, `EndSweep` the choice of the
colours for the next one (`skipNoGainColors`), the cap of rounds and the metrics index.
Coarsening is any contraction along local edges, which Coarsening promises; a pair
refines as PairwiseRefinement says.

### Initial partition

**BalancedKMeans** models `KMeans::computePartition`, `computeHierarchicalPartition` and
`computeHierPlusRepart` on a line. `AssignBlocks(p)` is the assignment of a process with
its skip by bounds, the sorted centres and the early end of the search; `BalanceRound` the
global sum of block weights, the new influences and the new bounds; `MoveCenters` the end
of an iteration with sampling, `NextLevel` the next level of the hierarchy. Distances are
squared, `One` stands for the influence 1.0, and roundings go to the safe side, where
the code adds or subtracts `1e-5`.

**MultiSection** and **SpaceFillingCurve** are pure: projections, `PartIndices` (the
optimal one-dimensional partition with `Probe` and bisection), rounds of cuts and the tree
of rectangles; index along the Hilbert curve in two and three dimensions and the way back.
**InitialPartition** runs them on distributed points: `CurvePartition` (partition by the
sorted index), `Announce`, `CheckShare` and `Exchange` (`redistribute` by the first index
of each process), `StartMultisection`, `Cut` and `SetPartition`, `SumDensity`, `Seed`,
`Grow` and `CloseBlock` (`pixelPartition`), `CountEdges` and `SumPixelGraph` (`pixeledCoarsen`).
`CutsDisagree` and `MultisectionFails` are the exceptions of the callers and of the partition into rectangles. A
process works alone up to the next collective operation. In two dimensions `CountEdges` reads
`minCoords[2]`, which does not exist (`MultiLevel.cpp:969`); what is there is a choice (`Stray`).

### Blocks, network and measures

**BlockClaims** models the renumbering of blocks in `aux::redistributeFromPartition`:
`ClaimAgain`, `ClaimPreferred` and `ClaimAny` are the three ways to fill in a claim,
`Resolve` the global sums and the resolution of conflicts, `Renumber` the new numbers of
the local points. `mapped`, `available` and `finalMapping` are replicated in the code and
computed from the same sums, so the model has one copy. The walk down the sorted
preferences is replaced by the set of the heaviest available blocks: blocks never become
available again, and the order of equal sizes is open. The block drawn with `rand()` is any
available one.

**GraphMeasures** are the measures of `GraphUtils` as each process computes its part of
them from its rows and its halo: cut, imbalance, border and inner nodes, volume, the two
ways to build the block graph, the process graph, the Laplacian. **ShortestPaths** are
`localBFS`, the diameter from it, and `localDijkstra` with its two queues, node by node.
**BlockMapping** composes them: `ApplySfcRenumber`, `CountBlockEdges`, `BuildBlockGraph`,
`PickHeaviest` and `MapNeighbor` (`torstenMapping_local`) or `IdentityMapping`,
`SearchPaths` and `AddUp` (`getMappingMetrics`).

### Files

**FileIO** has writers, who write a graph, coordinates or a partition centrally (`WriteGraph`, `WriteCoords`,
`WriteDenseVectorCentral`), as rows or in turns (`MayWrite(p)` is the
wait for the round), and readers, who skip to their share, read it (`Read(q)`) and meet
in redistributions and sums (`Join...`). A job is a format, rows, damage and a number of
readers; a file is a header and lines, the last of which may lack its end. `Damaged` is what happens to a
file between writing and reading: the last line is lost (`cut`), with the end of the line
before it (`torn`), or its last number (`short`); it lacks its end (`open`); lines follow (`extra`); a
number is too large (`illegal`). Each format has an operator for what one process does with its share (`ReadGraph` with weights
of nodes and edges, `ReadCoords` for plain, Ocean and TEEC files, `ReadOFF`, `ReadAlya`, `ReadPETree`, ...); the
answer is where the process gets to: `"done"`, a sum to wait in, `"threw"`, `"spins"` where a search in a
line never ends, or `"crashed"`. **EdgeList** is
`edgeList2CSR`, **CommTree** the tree of processors with construction, weights, distances and
`checkTree`, **StructuredMesh** the grids of `MeshGenerator`.

## 3. Runs

| Run | What it asks | Instance, and why it is enough |
|---|---|---|
| `refinement_setup` | is the scheme right for every block graph, and do the rounds of claims end well? | all graphs on 4 blocks with weights 0..2, all tie orders: degree 3, odd cycles, stars, paths, ties and isolated blocks occur; more colours than the largest degree are needed in some. 3 processes, all 6064 distributions of at most 3 points each, all tie orders; processes without points, without a free preference, and with the same first choice occur. A behaviour is one of either, since neither has to do with the other |
| `two_way` | does the two-way refinement keep its promise? | 2+2 region nodes, one fixed node, one heavy node, 128 graphs of unit weights and 97 of mixed ones, block weights below, at and above the capacity, both queue policies, early stop or not. Every branch of the queue choice occurs; the diffusion is checked in each initial state |
| `sweep_ring` | concurrent pairs | 4 processes, 2 rounds of 2 pairs; a cycle of blocks with 6 nodes, capacity 2. Two pairs refine at the same time and a pair may be a round ahead of the other; in the first round blocks 0 and 1 are full and leave each other alone, while blocks 2 and 3 can put their two nodes together in either block, so that partners may hold different results of equal gain |
| `sweep_live` | balance, borders, origins over several owners; does every sweep end? | 3 processes, 3 rounds with one idle process, node and edge weights, different `minBorderNodes`; a balanced, a very unbalanced and a scattered start, and one with an empty block |
| `sweep_mixed` | gains with mixed edge weights (finding) | 2 processes, one of which has unit edges only |
| `coarsening` | is the coarse graph the contraction? | 3 processes, 7 nodes, 3 iterations; a cycle, a star and a weighted mesh, owned in blocks, scattered or with a process without nodes; both ways to choose partners. Clusters of more than two nodes and merged chains occur |
| `v_cycle` | does the cycle keep cut and homes, and end on all processes? | 3 processes, 6 nodes on a path and a cycle with chords, one heavy node, balanced and overloaded blocks (capacity 3); 2 levels with one coarsening each, or 3 levels with two and skipped colours; the cap of 50 sweeps is 3 (`RoundCap`) and the threshold of 1/100 of the border 1/1 (`GainShare`), so both are met |
| `initial_partition` | are cuts optimal, curves ordered, pixels compact? | 3 processes; multisection of a 3x3 grid with weights 1, 2, 5 into 3 to 9 blocks by five ways to cut, and of a cube; the curve over six places of a 4x4 grid at depth 1 and 2, equal or crowded shares, the full grid and a cube; pixels of side 2 and 3 and `k` up to `p + 1`. Ties along the curve, crowded pixels and processes that end up empty occur |
| `kmeans` | are bounds sound and sums met together? | 2 processes, 6 or 7 points on a line in all ascending positions out of six with one possible tie, split evenly, unevenly, or with all points on one process; one level of 2 blocks, 1 + 2 or 2 + 3 blocks on two levels; `MinSamplingNodes` 1, so that samples grow over several rounds, and are empty on all processes at first when there are fewer blocks than processes; 2 balance rounds, 4 iterations, 3 % imbalance |
| `block_mapping` | do measures agree and costs add up? | 4 blocks and processes; 5 nodes on a ring with a chord in 32 partitions and 3 distributions, mapped onto one network; one partition mapped onto all connected networks with weights 0, 1, 3 up to symmetry. Random choices of the mapping are all explored |
| `files` | is what is accepted what was meant? | 3 writers, 1 to 5 readers, all formats, files of 3 to 8 rows, graphs also with weights of nodes and edges; whole, cut by a line, torn at the end of a line, without the last line end, with a last line that is too short, with extra lines or with illegal numbers. Shares are uneven, empty and wrong |
| `files_torn` | is a graph file that has lost its end refused? (finding) | the graphs of `files`, torn or cut |

The channels need no bound: a process sends one message and then waits. The numbers of
rounds, iterations, levels, nodes and points are the only bounds.

`CutAccounting` and `OneOwner` are stated about `EffBlock`, which gives a process the
result it has not applied yet although its partner has; so they are claims about every
reachable state, not only about the end.

*Deadlock* is checked in all passing runs but two. `MCBlockMapping` and `MCMultiLevel`
end in a last state by design; that MultiLevel does not stop before is `VCycleEnds`. The
other modules that end have an action for it (`Ended`, `Returned`), so a state in which a
process waits for one that has gone is an error.

*Fairness.* `FairSpec` of DistributedFM assumes weak fairness of the step of each process
and of the barrier: an MPI process keeps running, and a blocking receive returns once the
message is there. No fairness is assumed about which result a refinement finds.
`SetupSpec` of MCRefinementSetup assumes weak fairness of the steps of the scheme; the rounds of claims are
checked for safety alone (`EveryRoundMaps`). CommScheme is sequential and
MultiLevel has no choice that could keep a process out for ever (its sweeps are
collective); weak fairness of the next step says that the program goes on.

## 4. Proofs

| Module | Theorem | Says |
|---|---|---|
| RefinementSetupProofs | `SchemeTypeCorrect`, `ColoringIsProper`, `HeavierFirst`, `RoundsPair` | types; adjacent borders never share a round; a border is late only because of heavier ones; the rounds are pairings |
| RefinementSetupProofs | `AlwaysOneBlockEach`, `CompleteAtTheEnd`, `MappedStay`, `ProgressEveryRound` | blocks and processes are matched one to one, no process loses its block, every round of claims maps a process |
| DistributedFMProofs | `BorderStaysExact`, `OriginStays`, `OwnershipStays`, `OverloadStaysBounded`, `MessagesExpected`, `GainsAreReal`, `SweepRefines`, `AlwaysOneOwner`, `OverloadBounded` | border lists are exact; origins travel with the nodes; every node has one owner at any time; no block grows above its capacity; no untagged message is mistaken for another; if no process can take weighted edges for unweighted ones, the cut falls by exactly the gains the processes report, and a sweep amounts to whole pairwise steps (it implements PairwiseRefinement); in the abstract sweep blocks partition the nodes and overload does not grow |
| TwoWayFMProofs | `SpecFMInv`, `GainsStayExact`, `PromiseKept`, `DiffusionKeepsLoad` | the gain table is exact while nodes move; the two-way refinement returns the gain the cut has and blocks that fit; the diffusion loses no load |
| MultiLevelProofs | `AllLeaveTogether`, `SpecLevelInv`, `DetailsStayInside`, `OriginsAlwaysLeadHome`, `HaloAlwaysFits`, `OnlySweepsEverCut` | no process waits in a sweep for one that has left; the statistics stay in their array; origins lead back through all levels; the coarse halo is the image of the fine one; coarsening and return leave the cut as it is |
| CoarseningProofs | `SpecContractionInv`, `MatchingIsMaximal`, `CoarseGraphIsRight` | the invariant of the contraction; no local edge between unmatched nodes is left; what the processes build is the contraction of the input graph |
| BalancedKMeansProofs | `AlwaysComplete`, `NobodyLeftInSums`, `BoundsAlwaysHold`, `AlwaysClosest` | k-means ends complete; no process waits in sums that another one has passed, with or without points; the bounds of the points hold; every assigned point is with a closest center |
| BlockMappingProofs | `MappingIsOneToOne`, `MeasuresFit`, `DijkstraLeadsBack`, `DiameterIsExact`, `CongestionFits` | no process gets two blocks; cut, block graph, volumes, process graph and Laplacian agree however the graph is distributed; the searches from all processes lead back along the distances; the diameter found by the descent is exact; congestion adds up to dilation, and dilation is at least the cut |
| PartGraphProofs | (lemmas) | what weights, cuts and outcomes are |

They hold for every number of blocks and processes, all weights and graphs and every
interleaving, under the named assumptions of the modules: `NAssumption`,
`ClaimsAssumption`, `PEAssumption`, `GraphAssumption` (the matrix is symmetric, as the
comments in `getInterfaceNodes` and `CSR2EdgeList_local` require), `SchemeAssumption`
(the rounds are pairings, which is what `RoundsPair` proves of the scheme),
`SettingsAssumption`, `MultiLevelAssumption`, `KMeansAssumption`, and for the measures and the mapping
`SizesAssumption` (there is a process and a block), `NodesAreBlocks` (the network has a node for each block),
`FarAssumption` (the number for "not reached" is larger than any path) and `CasesAssumption` (graphs are finite, undirected and
not empty, every node has an owner and a block; networks are symmetric and connected). The two theorems about
PairwiseRefinement assume that sweeps start from owners that are processes, `GainsAreReal`
and `SweepRefines` that the edges are plain, and `BoundsAlwaysHold` and `AlwaysClosest` that distances stay in range (see below).

*CommScheme.* The inductive invariant adds to the types that uncoloured edges carry
`Uncolored`, which no coloured edge has; without it nothing follows from the scan of
the colours of *all* adjacent edges. The scan gives properness; "the first gap" gives,
with the falling weights of the edges still to come, `HeavierBordersFirst`. For the rounds
the invariant says what each entry of the unfinished scheme is: the own block, or the
other end of the edge of this colour already written; properness makes that end unique.

*PairwiseRefinement* (at the end of DistributedFMProofs). That blocks partition the nodes is inductive with the types.
A block that exceeds the capacity still has the weight it started with, because every
change leaves both blocks of the pair within the capacity.

*BlockClaims.* `OneBlockEach` holds after a round because of what was put into the sums:
a process that has a block has repeated it, all others have claimed available ones
(`SoundClaims`). So the winners of a round are new or keep what they had. A process is
still missing as long as the loop runs (`LoopLeft`); its claim is available, so whoever
wins that block is new, and the loop ends after at most as many rounds as there are
processes. This answers the comment at `AuxiliaryFunctions.cpp:163`. That the mapping is
onto is the pigeonhole principle for finite sets, cited from the library.

*DistributedFM.* `BorderExact` is not inductive alone, since the new border is computed
from candidates and from messages. The invariant also says that the interface of a
process consists of its own nodes, and that halo and channels hold nothing but nodes and
origins of nodes as they were at the start (`OriginTravels` for data under way). The
lemma `CandidatesSuffice` is the heart: a node whose border status changes is new, was on
the border before, or is a neighbour of a node given away; the last case needs the symmetry
of the matrix.

*MultiLevel.* Each process leaves the loop on its own copy of the threshold. The
invariant `Agreed` says that the copies are equal while the gain is a sum all have, and
that every process that has tested the condition went where the condition sends it; so no
one sweeps while another one has left. The rest follows from `LevelInv`, above all from its
part `Levels`: every level on the stack is joined to the next one by a map that keeps each
node with its process, the coarse graph is the contraction of the fine one along this
map, and the coarse level remembers where its nodes were when it began. That a
contraction keeps weights and cuts is a lemma about sums over the fibres of a map
(`CutFibres`), proved once in PartGraphProofs.

*TwoWayFM.* `FMInv` tells a run by the nodes moved so far: the second block is the one these
moves leave (`MovesInv`), the sizes are the weights that have gone over (`SizeInv`), a queued node has
as its gain what the cut would lose by its move (`TableInv`), and every prefix of the
moves has in `gainSums` what it gained and in `sizeList` a bound on both blocks
(`PrefixInv`). The last one is what `OutcomePromised` needs, since the code chooses a prefix and
rolls the rest back. The table is exact because a move changes the gain of each
neighbour by twice the edge, up or down with the side it is on (`LossMove`).

*TwoWayFM, the diffusion.* The code skips the nodes that sleep, and throws if an active node and a neighbour
asleep have different loads. `DiffusionInv` says why that cannot happen: a node that sleeps, and each
neighbour it has, still has the load it began with, so nothing flows between them.
What flows between two nodes awake is the same from both ends, up to the sign, so the sum over all
nodes stays what it was (`SumCancels`). The model computes with integers, and all loads stay multiples of
the inertia to the power of the rounds left; that is why the start scale is a power (`Scale`).
*DistributedFM, the pair.* That every node has one owner is true only because two processes
come to the same decision from different data, so the invariant has to say what each of them
has of the other at any time. It comes in two layers. The first counts
messages: of a pair, both are in the same round and at most one message apart, or one has
left the round and its last message is what the other still waits for, or one has come early
to the next round they share and has sent its border list there (`Link`). Nothing more can
be under way, which is why the swaps need no tag (`MessagesExpected`; that nobody sends to
itself is shown with it). The second adds what the messages say: within a round
halo, weight and gain of the partner are the partner's own (`Known`, `True`), a result with a
gain fits (`Fits`, from what `FMOutcomes` promises), and a process left behind with "no
improvement" will see that there is none (`NoResultComes`). From this, exactly one of the two
results is the better one and the other process turns it round (`Winner`, `PairSettles`). The
exchange happens, for the pair, when the first of the two applies it (`EffBlock`); the second
one follows (`LeftBehind`). Weights and cuts are folds over `CHOOSE`. PartGraphProofs shows
with the well-founded order on finite subsets that such a fold is a function of the set, so
that no induction over an operator is needed. The assumptions are those of the module: a
finite set of nodes, a symmetric matrix, and a scheme of pairings. The capacity may be
anything, and the two-way refinement is any one that keeps the promise of `FMOutcomes`.

*DistributedFM, the gains.* `CutAccounting` says of every reachable state that the cut has
fallen by what the rounds settled so far report. The invariant `GInv` adds to the one above that
the regions of a pair hold every node that matters (`Searched`, `Offered`), that a gain under way
is what the cut between the two blocks loses by the proposed moves (`Worth`), and what the table of gains
holds before and after the results are swapped (`Recorded`). `Searched` comes from
`getInterfaceNodes`: its breadth-first search ends when enough nodes have been found or
when a round finds no new one (`SearchEnds`), and what is proposed for moving is one round
behind the region (`InterfacePromise`). So a process that sees only the partner's region still
counts all edges of the nodes that move (`WinnerCut`). Other pairs work at the same time; that the
edges to third blocks cancel is `PairGain`, a lemma about sums over two changed rows
(`CutBeyond`). All this holds as long as every process sees the edges as they are (`SpecGInv`). `GainsAreReal`
adds a condition on the graph that guarantees it, `PlainEdges`: no weight above 1, or no node
whose heaviest edge has weight 1. It cannot be dropped: the run `sweep_mixed` has a node of
the second kind and violates the property (section 5).

*DistributedFM, the refinement.* `SweepRefines` maps a state to the abstract one by `EffRound`
and `EffBlock`: a pair has done a round as soon as one of its two processes has left it. So the step in which the
first one leaves is the abstract step of the pair (`LeaveRounds`), and the one in which the
second one leaves is a stutter: nothing it changes is left to see (`FollowerUnseen`). Nobody can enter
a round late, since its partner waits there (`NobodyMissed`); so a round never counts
as done before it has begun. The abstract exchange needs a lower cut and two blocks that
fit; both come from the invariants above (`GInv`, with `GainPositive`), which is why the refinement, too, needs
`PlainEdges`. That the instance measures weights and cuts with copies of the same
operators is a lemma of its own (`SameMeasures`).

*Coarsening.* A process contracts only its own nodes and knows nothing of the matching
of the others, so each has its own view of the graph (`View`). `RowsInv` says that the rows of a process
are those of the input graph contracted along this view; it carries over to the next iteration
because a cut adds up over the fibres of a map. Two nodes of one process are seen through
the same view, so the edge between them has the same weight from both sides
(`RowsSymmetric`). This is why `bestTarget > 0` costs nothing (`PassedInv`): the first node passes its first edge,
but the node at the other end comes later, finds the same edge with an index above 0, and matches.
When the nodes are numbered, no two preserved ones get the same number
(`PrefixSumInjective`), so nodes have one number exactly if they have one representative. The processes then write
disjoint parts of the coarse graph, each of them correct by itself (`BuiltInv`).

*BalancedKMeans, the bounds.* `PointInv` tells two kinds of points: those not looked at yet still
carry the bounds they started with, all others have a center of their old block whose distance is not
above the upper bound, while the lower bound is not above the distance of any other (`Bounded`). A step can break
this in four ways, and a lemma answers each. The search may stop early: the
centers come in the order of their distance from the box around the process's points
(`CandidatesSorted`), the box is never farther away than a point in it (`BoxBelow`), so what the search has not
looked at is not below the second best (`Searched`). A point may be skipped:
then its own distance is below the lower bound, which is below all others (`PointAssigned`). Influences change:
the upper bound is scaled by the ratio of the own block, the lower one by
the least ratio of all (`BoundsScale`). Centers move: with d the largest move and r
the rounded-up root of bound over influence, a bound changes by at most (2dr + d²) times the
influence, or decreases by at least (2dr - d²) times the *largest* one (`UpperMoves`, `LowerMoves`);
that the largest one is the safe choice is not obvious, since it makes r smaller, too
(`LowerGap`). The search starts from `numeric_limits::max()`, and a distance as
large would not be taken for a center. `InRange` excludes it; nothing else is assumed.

*BalancedKMeans, the loop.* `RunInv` says that in every iteration the sample of each process has the
size of its round; from the last round on that is all it has (`SampleShape`), and the loop does not
end before (`AlwaysComplete`). `NobodyLeftInSums` looks wrong at first sight: a process without points in its sample
returns from `assignBlocks` early (`KMeans.cpp:533`) and would wait in the sums of `findCenters` while
others are in those of the block weights. It never does so alone. The first samples have the same size on all
processes, so they are empty on all or on none, and later ones are not empty (`EvenSamples`, `SumsInv`);
and a process without any points does not get into the loop: it takes the least of no coordinates
(`KMeans.cpp:1187`) and stops, while the others wait in the minimum over all processes that follows.
So the loop is entered only when everybody has points (`EveryoneHasPoints`, a part of the invariant and not an
assumption).

*BlockMapping, the mapping.* `MappingInv` has three parts. `Fixed` says that what is computed from the
graph stays what it is; only the renumbering changes the blocks, and gives every block a number (`NewNumbers`).
`MapInv` says that blocks and processes are given away in pairs, that the queue holds the
blocks discovered and not mapped, each once, and that nothing is mapped before its time. `SearchPart` is below. There is a
free process for a block that is left because of the pigeonhole principle, and the
network being connected it is reached; so the greedy loop ends in a permutation.
The checksum follows from this, not the other way round: other mappings pass it as well.

*ShortestPaths.* `localBFS` is shown to count the edges of a shortest way (`Hops`), from which
distances are symmetric and obey the triangle inequality, which is all that the descent for the
diameter needs. `localDijkstra` visits a node before its distance is final, so distances are those of some
walk. Its invariant `SearchInv` says of every node reached that its predecessor is a visited neighbour and
that its distance is that of the predecessor plus the edge (`Tree`). A later change of the predecessor's distance would break it,
and cannot come, since only nodes not visited are improved. A visited node has no neighbour left that waits for it, so visiting
it again changes nothing unless it is the source (`AllSettled`, `VisitSettles`). With equal weights a round
has one distance (`Layered`), so no way is shorter. Distances stay below `Far` since every visited node
adds at most one edge (`Short`); this is where `FarAssumption` is used.

*GraphMeasures.* Every entry of the matrix is in the rows of one process, so a sum over the
processes of sums over their own entries is a sum over all (`ShareEntries`, `ShareNodes`). The counters that all
processes count together are the weights between the blocks, and the CSR form,
which keeps the positive ones in ascending order of their places, gives them back (`BlockGraphRight`). The other way to
the block graph gathers lists of pairs of blocks at the root, sorts the pairs and adds up the weights of equal ones.
The order of the pairs is that of their places in the flat array (`PlaceOrder`), and a finite set has one
order (`OrderCarried`), so both ways end in the same arrays (`BlockGraphsDo`). The volume of a
block is the number of other blocks around its nodes, added up node by node, though processes count only
their own nodes and know the blocks of the others through the halo (`AroundIs`, `VolumesDo`). A row
of the Laplacian is the sorted row with the diagonal put in its place; it stays sorted, and the diagonal is the
sum of the others with the opposite sign (`Inserted`, `RowSorted`, `RowCancels`).

*BlockMapping, the cost.* The way back to a source follows predecessors, whose distances fall, so it arrives within
`K` steps (`WalkArrives`), meets no edge twice in either direction, and its edges add up to the distance where it began
(`WalkIsWay`). The weights of the block edges times the lengths of their ways are a sum by ways; the same charges summed
by edges of the network are the congestion times the lengths (`SumSwaps`, `LoadsAddUp`). A mapping without two blocks on a
process puts exactly one direction of a block edge in order, so the edges counted carry half of the
block graph, which is the cut of the partition (`CountedHalf`, `BlockGraphCut`); a distance is at least 1, and 1
where all processes are neighbours (`EdgeWay`). Nothing is enabled after `AddUp`, so what the cost was made of is still there (`CostInv`).

Only model-checked: liveness (`SchemeDelivered`, `SweepEnds`, `VCycleEnds`), which is beyond
the prover; and InitialPartition and FileIO.
InitialPartition uses RECURSIVE operators (the tree of multisection, the bisection in `Probe`), which the prover
cannot use, and what files hold is computed by folds over sequences, whose induction is beyond it, too.

## 5. Findings

**Partners disagree about edge weights** (`LocalRefinement.cpp:524`, run `sweep_mixed`).
A process whose local edges all have weight 1 takes the partner's rows for unweighted,
too, reports gains in its own measure, and wins the comparison. In the run the cut
rises from 2 to 5 while a gain of 1 is reported. `LocalRefinementTest.cpp:169-173`
expects the opposite; its graphs have unit weights. On coarse levels weights differ,
and the period of gains that the comment at `MultiLevel.cpp:201` describes would be
a consequence. In `sweep_ring`, where all weights are equal, and `sweep_live`, the gains
are right.

**A graph file that has lost its end** (`FileIO.cpp:690`, run `files_torn`). "If we have read past the
end of the file, the node count was incorrect" is an assertion, and a Release build compiles no
assertions (`CMakeLists.txt:18-20`). A reader that gets no line goes on with what the line variable
holds. So a file torn at the end of a line is accepted with its last row read twice, and a file cut
before an isolated last node with an empty row, whenever the number of edges in the header still fits.
`AcceptedIsMeant` allows a graph these two outcomes and no other: the row read twice (`LineTwice`), and the
empty row, which is right but for the weights of its node (`WeightsLost`).

Behaviour that the models reproduce and that a reader of the code may not expect; each is
kept in the model as it is, and is a named cause or precondition in a property where it
matters:

- When both queues have nodes and the first block is full, `twoWayLocalFM` takes from the
  second queue, so the node moves *into* the full block (`LocalRefinement.cpp:672-675`; the
  comment at 664 and the assertions at 667 and 670 describe the opposite). The result is
  not wrong, as prefixes above the capacity are never kept, but the moves that could be
  kept come last.
- A process that draws a block sends its rank as the size of its claim
  (`AuxiliaryFunctions.cpp:112`) and can take the block from a process that owns a part of
  it. The result is still a permutation.
- The claims are never compared with the numbering there was (`AuxiliaryFunctions.cpp:75`),
  so renumbering may move more points.
- `localDijkstra` visits nodes in rounds of hops, so with unequal edges its distances are
  those of walks, not of shortest paths; `WalksLeadBack` says what callers get.
- Two points in one place of the curve can leave a process without points, which stops
  the program (`OnlyTiesStarve`).
- k-means with a process that has no points does not get into its loop (`KMeans.cpp:1187`, see section 4). That each process
  has at least `MinSamplingNodes` points is an assertion that a Release build leaves out (1243), so first samples may
  be empty; then they are empty on all processes.
- `pixeledCoarsen` reads `minCoords[2]` of two-dimensional points (`MultiLevel.cpp:969`); the
  number of edges does not depend on it (`PixelGraphCounts`).

Files, damaged ones first; the names are those of the exceptions in `AcceptedIsMeant`:

- MatrixMarket coordinates that have lost their last value are accepted (`FileIO.cpp:1565`); the value is the one before it again
  or not initialised (`ValueLost`).
- If the number of edges is not given, a corner missing in the last line of an OFF file becomes node 0 (`CornerLost`).
- A file of the processor tree whose last line is torn off is accepted with the line before it read again, or with
  a word of its last line in place of a weight that is missing.
- A line of coordinates with a value too few keeps a process searching for ever, in an Ocean file it throws. The check of the index
  in Ocean files (`FileIO.cpp:1249`) negates the index and not the comparison; it refuses a 0 in the
  first line of a process and nothing else.
- An edge list in which node 0 has no edges can be accepted with a node on two processes (`NodeTwice`). `readEdgeList` fails if
  the last nodes are isolated, since the distribution it asks for has fewer nodes (`FileIO.cpp:1133`).
- `writeInputParallel` writes all points of a file into one line and no weights, against the comment at
  `FileIO.cpp:338-343`; no reader accepts the file (`RefusedForCause`).
- Files of block sizes are always refused; before that, only the sizes of the first weight are broadcast
  (`FileIO.cpp:2256`). Binary coordinates only work in three
  dimensions and with points for every reader but the last, and a structured grid with a
  single point along its second axis cannot be generated (`RefusedForCause`).

Not modelled are tears inside a number, and damage to edge lists.

## 6. Plan

Done: CommScheme, TwoWayFM with the diffusion, DistributedFM and its refinement of
PairwiseRefinement, BlockClaims, Coarsening, MultiLevel, BalancedKMeans, MultiSection, curves
and pixels, measures and mapping, files, trees and structured grids; the proofs of
section 4.

Left, most important first: bounds on centers and influences from which `InRange` follows; the composition of the
stages of `partitionGraph` into one machine; coordinates and the swap of distances in
DistributedFM; several node weights and the erosion of influences in BalancedKMeans; the
greedy variant of multisection; the heap inside PrioQueue; MatrixMarket graphs and VTK
output; `getFineTargets` with real channels.

## 7. Not modelled

Floating-point numerics (convergence of k-means, spectral partition, conjugate gradients),
option parsing, random meshes and quadtrees, timing and output of metrics, wrappers of
other partitioners, and the LAMA library, of which only the behaviour of `swap`, sums,
sorts, redistributions and of the halo exchange between two partners is used. Files that
are not in the build (`Repartition.cpp`, `SpectralPartition.cpp`, `MultiSection_iter.cpp`)
are left out. PROJECT.json gives the reason for each component.
