--------------------------- MODULE ShortestPaths ----------------------------
(***************************************************************************)
(* Distances in a graph one process holds: localBFS, the block diameter    *)
(* computed from it, and localDijkstra as a machine that visits one node   *)
(* per step.  localDijkstra keeps two priority queues: the nodes relaxed   *)
(* in one round wait in `alternate' for the next.                          *)
(***************************************************************************)
EXTENDS PartGraph, Sequences, SequencesExt

CONSTANTS
  Nodes,    \* the nodes, an interval from 0
  Far       \* numeric_limits::max(), larger than every distance

\* An undirected graph on the nodes with edges so short that no path is as long as Far.
IsNetwork(w) ==
  /\ w \in [Nodes -> [Nodes -> Nat]]
  /\ \A n, m \in Nodes : w[n][m] = w[m][n] /\ Cardinality(Nodes) * w[n][m] < Far

VARIABLES
  network,       \* edge weights, network[n][m]
  source,
  queue,         \* pairs <<distance, node>> of this round
  alternate,     \* those of the next
  visited,
  dist,
  predecessor

searchVars == <<source, queue, alternate, visited, dist, predecessor>>

-----------------------------------------------------------------------------
(***************************************************************************)
(* localBFS: in round r the unseen neighbours of the last round are pushed. *)
(***************************************************************************)
LocalBFS(w, u) ==
  LET seen[r \in Nat] == IF r = 0 THEN {u}
                         ELSE LET s == seen[r - 1] IN s \cup NeighborsOf(w, s)
      rounds(v) == {r \in 0 .. Cardinality(DOMAIN w) : v \in seen[r]}
  IN  [v \in DOMAIN w |-> IF rounds(v) = {} THEN Far ELSE Min(rounds(v))]

Eccentricity(w, u) == Max({LocalBFS(w, u)[v] : v \in DOMAIN w})

\* (The mutant stops one fringe early.)
LocalBlockDiameterMut(w, u, maxRounds) ==
  LET ecc == Eccentricity(w, u)
      fringe(i) == {v \in DOMAIN w : LocalBFS(w, u)[v] = i}
      down[i \in 0 .. ecc] ==
        [low \in 0 .. Cardinality(DOMAIN w) |->
           IF 2 * i <= low + 1 \/ ecc - i >= maxRounds THEN low
           ELSE LET found == Max({low} \cup {Eccentricity(w, v) : v \in fringe(i)})
                IN  IF found > i - 1 THEN found ELSE down[i - 1][found]]
  IN  IF ecc = Far THEN Far ELSE down[ecc][ecc]

\* getLocalBlockDiameter with k = 0: from the farthest fringe of u inwards, until
\* two nodes further inside cannot be further apart than what was found.
LocalBlockDiameter(w, u, maxRounds) ==
  LET ecc == Eccentricity(w, u)
      fringe(i) == {v \in DOMAIN w : LocalBFS(w, u)[v] = i}
      down[i \in 0 .. ecc] ==
        [low \in 0 .. Cardinality(DOMAIN w) |->
           IF 2 * i <= low \/ ecc - i >= maxRounds THEN low
           ELSE LET found == Max({low} \cup {Eccentricity(w, v) : v \in fringe(i)})
                IN  IF found > 2 * (i - 1) THEN found ELSE down[i - 1][found]]
  IN  IF ecc = Far THEN Far ELSE down[ecc][ecc]

-----------------------------------------------------------------------------
(***************************************************************************)
(* localDijkstra.                                                          *)
(***************************************************************************)
\* A search has been made and is over.
Idle == visited # {} /\ queue = {} /\ alternate = {}

StartSearch(u) ==
  /\ source' = u
  /\ queue' = {<<0, u>>} /\ alternate' = {}
  /\ visited' = {u}
  /\ dist' = [n \in Nodes |-> IF n = u THEN 0 ELSE Far]
  /\ predecessor' = [n \in Nodes |-> -1]

\* std::greater on pairs: the smallest pair is on top.
Top == CHOOSE x \in queue : \A y \in queue : x[1] < y[1] \/ (x[1] = y[1] /\ x[2] <= y[2])

\* (The mutant compares with the edge alone.)
RelaxedMut(v) == {m \in Neighbors(network, v) \ visited : dist[m] > network[v][m]}

\* The neighbours whose distance a visit of v improves.
Relaxed(v) == {m \in Neighbors(network, v) \ visited : dist[m] > dist[v] + network[v][m]}

Visit ==
  /\ queue # {}
  /\ LET v == Top[2]
         new == [m \in Relaxed(v) |-> dist[v] + network[v][m]]
     IN  /\ queue' = queue \ {Top}
         /\ alternate' = alternate \cup {<<new[m], m>> : m \in DOMAIN new}
         /\ dist' = [m \in Nodes |-> IF m \in DOMAIN new THEN new[m] ELSE dist[m]]
         /\ predecessor' = [m \in Nodes |-> IF m \in DOMAIN new THEN v
                                            ELSE predecessor[m]]
         \* A node counts as visited once it has improved another.
         /\ visited' = IF DOMAIN new # {} THEN visited \cup {v} ELSE visited
  /\ UNCHANGED source

NextRound ==
  /\ queue = {} /\ alternate # {}
  /\ queue' = alternate /\ alternate' = {}
  /\ UNCHANGED <<source, visited, dist, predecessor>>

SearchStep == Visit \/ NextRound

-----------------------------------------------------------------------------
(***************************************************************************)
(* Reference: the shortest distances, over paths of at most r edges.       *)
(***************************************************************************)
Shortest(w, u) ==
  LET d[r \in Nat] ==
        IF r = 0 THEN [n \in DOMAIN w |-> IF n = u THEN 0 ELSE Far]
        ELSE LET e == d[r - 1]
             IN  [n \in DOMAIN w |-> Min({e[n]}
                    \cup {e[m] + w[m][n] : m \in {x \in Neighbors(w, n) : e[x] # Far}})]
  IN  d[Cardinality(DOMAIN w)]

SameWeights(w) ==
  \A e, f \in (DOMAIN w) \X (DOMAIN w) :
    w[e[1]][e[2]] > 0 /\ w[f[1]][f[2]] > 0 => w[e[1]][e[2]] = w[f[1]][f[2]]

\* What the callers get from localDijkstra all the same: exactly the connected nodes
\* are reached, along predecessors that lead back to the source with falling
\* distances, so the walks in Mapping.cpp:336 and Metrics.cpp:441 end; the distances
\* are those of these walks; and with equal weights, as the mapping uses it, they
\* are the shortest (GraphUtils.cpp:170).
WalksLeadBack ==
  Idle =>
    /\ \A n \in Nodes : dist[n] # Far <=> LocalBFS(network, source)[n] # Far
    /\ \A n \in Nodes \ {source} : dist[n] # Far =>
         LET p == predecessor[n]
         IN  p \in Neighbors(network, n) /\ dist[n] = dist[p] + network[p][n]
    /\ SameWeights(network) => dist = Shortest(network, source)

\* The diameter of a connected block is the distance of its two farthest nodes,
\* whichever node the search starts from (GraphUtils.cpp:244).
DiameterExact ==
  Idle => LocalBlockDiameter(network, source, Cardinality(Nodes))
            = Max({Eccentricity(network, v) : v \in Nodes})
=============================================================================
