---------------------------- MODULE BlockMapping ----------------------------
(***************************************************************************)
(* From a partition to its cost on a network: the blocks are renumbered    *)
(* along the space-filling curve (applySfcRenumber), the block graph is    *)
(* mapped onto the processes greedily (torstenMapping_local) or by the     *)
(* identity, and getMappingMetrics walks the shortest paths of the process *)
(* graph to add up dilation and congestion.                                *)
(***************************************************************************)
EXTENDS GraphMeasures, ShortestPaths

CONSTANT
  Cases    \* pairs of a partitioned graph with its curve, and a connected network

\* Every process can be reached.
IsConnected(w) == \A n \in Nodes : LocalBFS(w, 0)[n] # Far

ASSUME NodesAreBlocks == Nodes = BlockIds
ASSUME FarAssumption == Far \in Nat /\ K < Far
ASSUME CasesAssumption ==
  \A c \in Cases : IsGraph(c.graph) /\ IsNetwork(c.network) /\ IsConnected(c.network)

VARIABLES
  g,              \* the partitioned graph
  curve,          \* per block, where the curve meets its center
  phase,
  counts, lists,  \* per process: its counters, its list for the root
  csr,            \* the block graph
  mapped, discovered, usedPEs, mapping, peNode,
  Q,              \* pairs <<edge weight, block>> waiting to be mapped
  paths,          \* distances and predecessors, per source searched so far
  cost            \* what getMappingMetrics adds up

mapVars == <<mapped, discovered, usedPEs, mapping, peNode, Q>>
graphVars == <<g, curve, network, counts, lists, csr>>
vars == <<graphVars, phase, mapVars, searchVars, paths, cost>>

Init ==
  /\ \E c \in Cases : g = c.graph /\ curve = c.curve /\ network = c.network
  /\ phase = "renumber"
  /\ counts = << >> /\ lists = << >> /\ csr = << >>
  /\ mapped = {} /\ discovered = {} /\ usedPEs = {}
  /\ mapping = [b \in BlockIds |-> 0]
  /\ peNode = 0
  /\ Q = {}
  /\ source = 0 /\ queue = {} /\ alternate = {} /\ visited = {}
  /\ dist = [n \in Nodes |-> Far] /\ predecessor = [n \in Nodes |-> -1]
  /\ paths = << >> /\ cost = [dilation |-> 0, congestion |-> << >>]

-----------------------------------------------------------------------------
\* getSfcRenumber: the block ids sorted along the curve, ties in any order.
SfcOrders ==
  {R \in [BlockIds -> BlockIds] : /\ \A b, c \in BlockIds : R[b] = R[c] => b = c
                                  /\ \A b \in 1 .. (K - 1) : curve[R[b - 1]] <= curve[R[b]]}

Renumbered(R) == [b \in BlockIds |-> CHOOSE i \in BlockIds : R[i] = b]

ApplySfcRenumber ==
  /\ phase = "renumber"
  /\ \E R \in SfcOrders :
       LET new == Renumbered(R)
       IN  /\ g' = [g EXCEPT !.part = [n \in DOMAIN g.part |-> new[g.part[n]]]]
           /\ curve' = [b \in BlockIds |-> curve[CHOOSE o \in BlockIds : new[o] = b]]
  /\ phase' = "blocks"
  /\ UNCHANGED <<network, counts, lists, csr, mapVars, searchVars, paths, cost>>

\* mappingRenumbering is off.
KeepNumbers ==
  /\ phase = "renumber"
  /\ phase' = "blocks"
  /\ UNCHANGED <<graphVars, mapVars, searchVars, paths, cost>>

CountBlockEdges ==
  /\ phase = "blocks"
  /\ counts' = [p \in PE |-> LocalBlockGraphEdges(g, p, K)]
  /\ lists' = [p \in PE |-> LocalBlockEdges(g, p)]
  /\ phase' = "counted"
  /\ UNCHANGED <<g, curve, network, csr, mapVars, searchVars, paths, cost>>

BuildBlockGraph ==
  /\ phase = "counted"
  /\ csr' = GetBlockGraph(counts, K)
  /\ peNode' \in BlockIds                   \* rand() % N
  /\ phase' = "map"
  /\ UNCHANGED <<g, curve, network, counts, lists, mapped, discovered, usedPEs, mapping, Q,
                 searchVars, paths, cost>>

-----------------------------------------------------------------------------
(***************************************************************************)
(* torstenMapping_local: the heaviest block left goes to peNode, or to any *)
(* free process when that one is taken; then its undiscovered neighbours,  *)
(* heaviest edge first, each to the free process closest to peNode.        *)
(***************************************************************************)
BlockWeight(b, c) == CSREntry(csr, b, c)

Degree(b) == SumOf([c \in BlockIds |-> BlockWeight(b, c)])

Heaviest ==
  LET left == BlockIds \ mapped
  IN  Min({b \in left : \A c \in left : Degree(c) <= Degree(b)})

PickHeaviest ==
  /\ phase = "map" /\ Q = {} /\ mapped # BlockIds
  /\ peNode' \in IF peNode \in usedPEs THEN BlockIds \ usedPEs ELSE {peNode}
  /\ LET b == Heaviest
         new == {c \in BlockIds \ (discovered \cup {b}) : BlockWeight(b, c) > 0}
     IN  /\ mapping' = [mapping EXCEPT ![b] = peNode']
         /\ mapped' = mapped \cup {b}
         /\ usedPEs' = usedPEs \cup {peNode'}
         /\ discovered' = discovered \cup {b} \cup new
         /\ Q' = {<<BlockWeight(b, c), c>> : c \in new}
  /\ UNCHANGED <<graphVars, phase, searchVars, paths, cost>>

\* (The mutant looks for the closest process before the last one was taken.)
FreePEsMut == BlockIds \ {peNode}

FreePEs == BlockIds \ usedPEs

\* The distances are those of localDijkstra with the same weight on every edge.
MapNeighbor ==
  /\ phase = "map"
  /\ \E top \in {x \in Q : \A y \in Q : y[1] <= x[1]} :
       LET hops == LocalBFS(network, peNode)
           closest == Min({p \in FreePEs : \A q \in FreePEs : hops[p] <= hops[q]})
       IN  /\ Q' = Q \ {top}
           /\ mapping' = [mapping EXCEPT ![top[2]] = closest]
           /\ mapped' = mapped \cup {top[2]}
           /\ discovered' = discovered \cup {top[2]}
           /\ usedPEs' = usedPEs \cup {closest}
  /\ UNCHANGED <<graphVars, phase, peNode, searchVars, paths, cost>>

\* Metrics on the application graph take the identity.
IdentityMapping ==
  /\ phase = "map" /\ mapped = {}
  /\ mapping' = [b \in BlockIds |-> b]
  /\ mapped' = BlockIds /\ usedPEs' = BlockIds /\ discovered' = BlockIds
  /\ UNCHANGED <<graphVars, phase, peNode, Q, searchVars, paths, cost>>

-----------------------------------------------------------------------------
(***************************************************************************)
(* getMappingMetrics: all shortest paths, then every block edge once.      *)
(***************************************************************************)

\* Its checks, and all that Mapping::isValid checks.
ChecksumHolds ==
  SumOf(mapping) = (K * (K - 1)) \div 2

SearchFrom ==
  /\ \/ phase = "map" /\ mapped = BlockIds /\ ChecksumHolds
     \/ phase = "search" /\ Idle /\ Len(paths) < K - 1
  /\ StartSearch(IF phase = "map" THEN 0 ELSE source + 1)
  /\ paths' = IF phase = "map" THEN << >>
              ELSE Append(paths, [dist |-> dist, pred |-> predecessor])
  /\ phase' = "search"
  /\ UNCHANGED <<graphVars, mapVars, cost>>

SearchPaths ==
  /\ phase = "search" /\ SearchStep
  /\ UNCHANGED <<graphVars, phase, mapVars, paths, cost>>

\* The edges on the way from a process back to the source of a search.
WayBack(path, start, target) ==
  LET at[i \in Nat] == IF i = 0 THEN target
                       ELSE LET v == at[i - 1]
                            IN  IF v = start THEN v ELSE path.pred[v]
  IN  {<<at[i], at[i - 1]>> : i \in {j \in 1 .. K : at[j - 1] # start}}

\* (The mutant counts the edges both of whose directions it meets.)
CountedEdgesMut ==
  {e \in BlockIds \X BlockIds : e[1] # e[2] /\ BlockWeight(e[1], e[2]) > 0}

CountedEdges ==
  {e \in BlockIds \X BlockIds : /\ e[1] # e[2] /\ BlockWeight(e[1], e[2]) > 0
                                /\ mapping[e[1]] <= mapping[e[2]]}

\* An edge of a way back, in the direction in which congestion counts it.
Slot(e) == IF e[2] >= e[1] THEN e ELSE <<e[2], e[1]>>

AddUp ==
  /\ phase = "search" /\ Idle /\ Len(paths) = K - 1
  /\ LET all == Append(paths, [dist |-> dist, pred |-> predecessor])
         path(e) == all[mapping[e[1]] + 1]
         way(e) == WayBack(path(e), mapping[e[1]], mapping[e[2]])
         weight(e) == BlockWeight(e[1], e[2])
     IN  /\ paths' = all
         /\ cost' = [dilation |-> SumOf(
                       [e \in CountedEdges |-> path(e).dist[mapping[e[2]]] * weight(e)]),
                     congestion |-> [s \in BlockIds \X BlockIds |-> SumOf(
                       [e \in CountedEdges |->
                          Cardinality({x \in way(e) : Slot(x) = s}) * weight(e)])]]
  /\ phase' = "done"
  /\ UNCHANGED <<graphVars, mapVars, searchVars>>

Next ==
  \/ ApplySfcRenumber
  \/ KeepNumbers
  \/ CountBlockEdges
  \/ BuildBlockGraph
  \/ PickHeaviest
  \/ MapNeighbor
  \/ IdentityMapping
  \/ SearchFrom
  \/ SearchPaths
  \/ AddUp

Spec == Init /\ [][Next]_vars

-----------------------------------------------------------------------------
\* The measures of the partition agree with each other before and after the blocks
\* are renumbered (GraphUtils.cpp:301-1389).
MeasuresAgree ==
  phase = "map" /\ mapped = {} /\ peNode = 0 =>
    /\ BlockGraphsAgree(g, csr, lists) /\ VolumesAgree(g)
    /\ ProcessesSeeBlocks(g) /\ LaplacianIsOne(g)

\* No two blocks are ever put on one process, whatever the random choices, and the
\* mapping that leaves is a permutation: the checksum, which other mappings pass as
\* well, never has to catch anything (Mapping.cpp:135, 352; Metrics.cpp:386).
OneProcessEach ==
  /\ \A b, c \in mapped : mapping[b] = mapping[c] => b = c
  /\ usedPEs = {mapping[b] : b \in mapped}
  /\ Q # {} => {x[2] : x \in Q} = discovered \ mapped
  /\ mapped = BlockIds => ChecksumHolds

\* Dilation charges a block edge its distance and congestion charges the edges of one
\* way of that length: weighted with the length of the edges, the congestion adds up
\* to the dilation, and the edge is counted in one direction only
\* (Metrics.cpp:417-478).
CongestionIsDilation ==
  phase = "done" =>
    /\ cost.dilation = SumOf([s \in {x \in BlockIds \X BlockIds : cost.congestion[x] > 0} |->
                                cost.congestion[s] * network[s[1]][s[2]]])
    /\ \A s \in BlockIds \X BlockIds : cost.congestion[s] > 0 => s[1] < s[2]
    /\ cost.dilation >= CutSum(g.row, [b \in BlockIds |->
                           {n \in DOMAIN g.row : g.part[n] = b}]) \div 2
    /\ SameWeights(network) /\ (\A b, c \in BlockIds : b # c => network[b][c] = 1) =>
         2 * cost.dilation = CutSum(g.row, [b \in BlockIds |->
                                {n \in DOMAIN g.row : g.part[n] = b}])
=============================================================================
