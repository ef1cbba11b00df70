---------------------------- MODULE DistributedFM ---------------------------
(***************************************************************************)
(* LocalRefinement::distributedFMStep: one sweep of pairwise refinement.   *)
(* Every process (PE) owns one block.  In each round of the communication  *)
(* scheme a process and its partner exchange border lists, build the       *)
(* region between their blocks, copy each other's side of it (the halo),   *)
(* both run twoWayLocalFM on the same region, keep the better result and   *)
(* hand over the nodes that change sides.                                  *)
(*                                                                         *)
(* There is no global clock: the only synchronisation inside the sweep is  *)
(* comm->swap, a send to the partner followed by a blocking receive of     *)
(* what it sent.  The swaps carry no tag, so a process takes whatever is   *)
(* first in the channel from its partner.  Each action below runs from one *)
(* receive to the next one.  A swap of a length and the swap of an array   *)
(* of that length are one message here, and so are the halo's rows, node   *)
(* weights and origins; the rows are those of the constant graph.          *)
(***************************************************************************)
EXTENDS PartGraph, Sequences

CONSTANTS
  P,              \* number of processes and blocks
  Node,           \* global node indices
  EdgeWeight,     \* the rows of the symmetric adjacency matrix
  NodeWeight,
  Scheme,         \* sequence of rounds, each the partner of every PE
  EpsilonPercent, \* settings.epsilon in percent
  MinBorderNodes, \* settings.minBorderNodes of every PE
  StartOwners     \* the partitions to start from

PE == 0 .. (P - 1)

ASSUME PEAssumption == P \in Nat \ {0}

ASSUME GraphAssumption ==
  /\ Node \subseteq Nat /\ IsFiniteSet(Node)
  /\ EdgeWeight \in [Node -> [Node -> Nat]]
  /\ \A n, m \in Node : EdgeWeight[n][m] = EdgeWeight[m][n]
  /\ NodeWeight \in [Node -> Nat]

ASSUME SchemeAssumption ==
  /\ Scheme \in Seq([PE -> PE])
  /\ \A r \in DOMAIN Scheme : \A p \in PE : Scheme[r][Scheme[r][p]] = p

ASSUME SettingsAssumption ==
  /\ EpsilonPercent \in Nat
  /\ MinBorderNodes \in [PE -> Nat \ {0}]
  /\ StartOwners \subseteq [Node -> PE]

VARIABLES
  start,   \* the partition at the start of the sweep
  owned,   \* the local nodes: myGlobalIndices and the rows of input
  border,  \* nodesWithNonLocalNeighbors
  origin,  \* origin of every local node
  color,   \* the round a PE is in
  pc,      \* the swap a PE waits in
  chan,    \* chan[<<p, q>>]: what p has sent to q and q has not received
  iface,   \* interfaceNodes, and those before lastRoundMarker
  otherWeight,  \* otherBlockWeightSum
  halo,    \* the partner's side of the region: haloMatrix, originData, ...
  otherGain,
  fm,      \* the result of the own twoWayLocalFM
  gains    \* gainPerRound

vars == <<start, owned, border, origin, color, pc, chan, iface,
          otherWeight, halo, otherGain, fm, gains>>

\* optSize is truncated to an integer, and so is its product with 1 + epsilon.
Capacity ==
  LET optSize == WeightOf(NodeWeight, Node) \div P
  IN  (optSize * (100 + EpsilonPercent)) \div 100

Partner(p) == Scheme[color[p]][p]

\* The origin of a node that is not at hand.
NoOrigin == [n \in Node |-> -1]

NoInterface == [nodes |-> {}, cand |-> {}]
NoHalo == [nodes |-> {}, cand |-> {}, origin |-> NoOrigin]
NoResult == [gain |-> 0, toSecond |-> {}]

\* A message is raw data; kind records which swap of the code sent it.
Blank == [kind |-> "none", nodes |-> {}, cand |-> {}, origin |-> NoOrigin,
          count |-> 0, weight |-> 0, gain |-> 0, toSecond |-> {}]

\* getNodesWithNonLocalNeighbors, restricted to a set of candidates.
NonLocalNeighborNodes(local, candidates) ==
  {n \in local \cap candidates : Neighbors(EdgeWeight, n) \ local # {}}

\* The nodes found after r rounds of the breadth-first search in own.
Layer(own, first) ==
  LET layer[r \in Nat] ==
        IF r = 0 THEN first
        ELSE LET prev == layer[r - 1]
             IN  prev \cup (own \cap NeighborsOf(EdgeWeight, prev))
  IN  layer

\* The border nodes with a neighbour on the partner's border.
BorderToPartner(ownBorder, foreign) ==
  {n \in ownBorder : Neighbors(EdgeWeight, n) \cap foreign # {}}

\* getInterfaceNodes: search from the border to the partner until there are
\* enough nodes or no new ones, then one round more.  Only nodes before the
\* last round are candidates for a move, so that all their neighbours are known
\* to the partner.
InterfaceNodes(own, ownBorder, foreign, minNodes) ==
  LET found == Layer(own, BorderToPartner(ownBorder, foreign))
      Enough(r) == \/ Cardinality(found[r]) >= minNodes
                   \/ found[r] = IF r = 0 THEN {} ELSE found[r - 1]
      last == CHOOSE r \in 0 .. Cardinality(Node) :
                Enough(r) /\ \A s \in 0 .. (r - 1) : ~ Enough(s)
      nodes == own \cap found[last + 1]
  IN  [nodes |-> nodes, cand |-> nodes \cap found[last]]

\* The edge weights as p sees them: if no local row has an entry other than
\* at most 1, p takes all edges for unweighted, those of the halo included.
EdgeView(p) ==
  LET weighted == Max({0} \cup {EdgeWeight[n][m] : n \in owned[p], m \in Node}) # 1
  IN  [n \in Node |-> [m \in Node |->
         IF weighted \/ EdgeWeight[n][m] = 0 THEN EdgeWeight[n][m] ELSE 1]]

HasMessage(p) == chan[<<Partner(p), p>>] # <<>>

\* What the partner of p sent first.
Received(p) == Head(chan[<<Partner(p), p>>])

Send(p, m) == [chan EXCEPT ![<<p, Partner(p)>>] = Append(@, m)]

Take(p) == [chan EXCEPT ![<<Partner(p), p>>] = Tail(@)]

TakeAndSend(p, m) == [chan EXCEPT ![<<Partner(p), p>>] = Tail(@),
                                  ![<<p, Partner(p)>>] = Append(@, m)]

-----------------------------------------------------------------------------
Init ==
  /\ start \in StartOwners
  /\ owned = [p \in PE |-> {n \in Node : start[n] = p}]
  /\ border = [p \in PE |-> NonLocalNeighborNodes(owned[p], owned[p])]
  /\ origin = [p \in PE |-> [n \in Node |-> IF start[n] = p THEN p ELSE -1]]
  /\ color = [p \in PE |-> 1]
  /\ pc = [p \in PE |-> "round"]
  /\ chan = [c \in PE \X PE |-> <<>>]
  /\ iface = [p \in PE |-> NoInterface]
  /\ otherWeight = [p \in PE |-> 0]
  /\ halo = [p \in PE |-> NoHalo]
  /\ otherGain = [p \in PE |-> 0]
  /\ fm = [p \in PE |-> NoResult]
  /\ gains = [p \in PE |-> [r \in DOMAIN Scheme |-> 0]]

\* The end of a round: p goes on to the next colour with fresh local data.
NextRound(p) ==
  /\ color' = [color EXCEPT ![p] = @ + 1]
  /\ pc' = [pc EXCEPT ![p] = "round"]
  /\ iface' = [iface EXCEPT ![p] = NoInterface]
  /\ otherWeight' = [otherWeight EXCEPT ![p] = 0]
  /\ halo' = [halo EXCEPT ![p] = NoHalo]
  /\ otherGain' = [otherGain EXCEPT ![p] = 0]
  /\ fm' = [fm EXCEPT ![p] = NoResult]

\* p has no partner in this round.
Idle(p) ==
  /\ pc[p] = "round"
  /\ color[p] \in DOMAIN Scheme
  /\ Partner(p) = p
  /\ NextRound(p)
  /\ UNCHANGED <<start, owned, border, origin, chan, gains>>

\* p enters getInterfaceNodes and sends its border nodes.
SendBorder(p) ==
  /\ pc[p] = "round"
  /\ color[p] \in DOMAIN Scheme
  /\ Partner(p) # p
  /\ pc' = [pc EXCEPT ![p] = "border"]
  /\ chan' = Send(p, [Blank EXCEPT !.kind = "border", !.nodes = border[p]])
  /\ UNCHANGED <<start, owned, border, origin, color, iface, otherWeight, halo,
                 otherGain, fm, gains>>

\* p finds its side of the region and sends the sizes.
SwapSizes(p) ==
  /\ pc[p] = "border" /\ HasMessage(p)
  /\ pc' = [pc EXCEPT ![p] = "sizes"]
  /\ LET found == InterfaceNodes(owned[p], border[p], Received(p).nodes,
                                 MinBorderNodes[p])
     IN  /\ iface' = [iface EXCEPT ![p] = found]
         /\ chan' = TakeAndSend(p, [Blank EXCEPT !.kind = "sizes",
                           !.count = Cardinality(found.nodes),
                           !.weight = WeightOf(NodeWeight, owned[p])])
  /\ UNCHANGED <<start, owned, border, origin, color, otherWeight, halo, otherGain,
                 fm, gains>>

\* The partner has a border region, but p has none: p throws.
OneSided(p) == iface[p].nodes = {} /\ Received(p).count # 0

\* p has the partner's sizes and sends its side of the region: the indices,
\* which of them may move (lastRoundMarker), the rows and the origins.
SwapHalo(p) ==
  /\ pc[p] = "sizes" /\ HasMessage(p)
  /\ ~ OneSided(p)
  /\ pc' = [pc EXCEPT ![p] = "halo"]
  /\ otherWeight' = [otherWeight EXCEPT ![p] = Received(p).weight]
  /\ chan' = TakeAndSend(p, [Blank EXCEPT !.kind = "halo",
                       !.nodes = iface[p].nodes,
                       !.cand = iface[p].cand,
                       !.origin = [n \in Node |-> IF n \in iface[p].nodes
                                                 THEN origin[p][n] ELSE -1]])
  /\ UNCHANGED <<start, owned, border, origin, color, iface, halo, otherGain,
                 fm, gains>>

\* p has the halo, runs twoWayLocalFM and sends the gain.
RefineAndSwapGain(p) ==
  /\ pc[p] = "halo" /\ HasMessage(p)
  /\ pc' = [pc EXCEPT ![p] = "gain"]
  /\ LET other == Received(p)
     IN  /\ halo' = [halo EXCEPT ![p] = [nodes |-> other.nodes,
                                         cand |-> other.cand,
                                         origin |-> other.origin]]
         /\ \E out \in FMOutcomes(EdgeView(p), NodeWeight, owned[p], other.nodes,
                                  iface[p].cand \cup other.cand,
                                  WeightOf(NodeWeight, owned[p]),
                                  otherWeight[p], Capacity) :
              /\ fm' = [fm EXCEPT ![p] = out]
              /\ chan' = TakeAndSend(p, [Blank EXCEPT !.kind = "gain",
                                                      !.gain = out.gain])
  /\ UNCHANGED <<start, owned, border, origin, color, iface, otherWeight,
                 otherGain, gains>>

\* (The mutant asks for the own result only.)
NoneImprovedMut(p) == fm[p].gain <= 0

NoneImproved(p) == fm[p].gain <= 0 /\ Received(p).gain <= 0

\* Neither process found an improvement: the round is over.
NoImprovement(p) ==
  /\ pc[p] = "gain" /\ HasMessage(p)
  /\ NoneImproved(p)
  /\ NextRound(p)
  /\ chan' = Take(p)
  /\ UNCHANGED <<start, owned, border, origin, gains>>

\* (The mutant reports the own gain, whoever is better.)
GainThisRoundMut(p) == fm[p].gain

GainThisRound(p) == Max({fm[p].gain, Received(p).gain})

\* One of them did: p sends its assignment.
SwapResult(p) ==
  /\ pc[p] = "gain" /\ HasMessage(p)
  /\ ~ NoneImproved(p)
  /\ pc' = [pc EXCEPT ![p] = "result"]
  /\ otherGain' = [otherGain EXCEPT ![p] = Received(p).gain]
  /\ gains' = [gains EXCEPT ![p][color[p]] = GainThisRound(p)]
  /\ chan' = TakeAndSend(p, [Blank EXCEPT !.kind = "result",
                                       !.toSecond = fm[p].toSecond])
  /\ UNCHANGED <<start, owned, border, origin, color, iface, otherWeight, halo,
                 fm>>

\* (The mutant breaks the tie in favour of the own result on both sides.)
OtherWasBetterMut(p) == otherGain[p] > fm[p].gain

OtherWasBetter(p) ==
  \/ otherGain[p] > fm[p].gain
  \/ otherGain[p] = fm[p].gain /\ Partner(p) < p

Region(p) == iface[p].cand \cup halo[p].cand

\* The assignment both processes settle on, seen from p: the partner's result
\* has first and second block the other way round.
FinalToSecond(p, partnersResult) ==
  IF OtherWasBetter(p) THEN Region(p) \ partnersResult ELSE fm[p].toSecond

Deleted(p, res) == iface[p].cand \cap FinalToSecond(p, res)
Added(p, res) == halo[p].cand \ FinalToSecond(p, res)
NewLocal(p, res) == (owned[p] \ Deleted(p, res)) \cup Added(p, res)

\* (The mutant does not look at the neighbours of the nodes given away.)
BorderCandidatesMut(p, res) == border[p] \cup Added(p, res)

BorderCandidates(p, res) ==
  border[p] \cup Added(p, res) \cup NeighborsOf(EdgeWeight, Deleted(p, res))

\* redistributeFromHalo: a new local value is an old one or comes from the halo.
\* (The mutant writes the partner's rank instead of the data in the halo.)
RedistributedOriginMut(p, new) ==
  [n \in Node |-> IF n \notin new THEN -1
                  ELSE IF n \in owned[p] THEN origin[p][n] ELSE Partner(p)]

RedistributedOrigin(p, new) ==
  [n \in Node |-> IF n \notin new THEN -1
                  ELSE IF n \in owned[p] THEN origin[p][n] ELSE halo[p].origin[n]]

\* p takes the better result and updates all distributed data.
ApplyResult(p) ==
  /\ pc[p] = "result" /\ HasMessage(p)
  /\ NextRound(p)
  /\ LET res == Received(p).toSecond
         new == NewLocal(p, res)
     IN  /\ owned' = [owned EXCEPT ![p] = new]
         /\ border' = [border EXCEPT
               ![p] = NonLocalNeighborNodes(new, BorderCandidates(p, res))]
         /\ origin' = [origin EXCEPT ![p] = RedistributedOrigin(p, new)]
  /\ chan' = Take(p)
  /\ UNCHANGED <<start, gains>>

\* comm->synchronize after the last round, and the sums of the gains: no
\* process leaves before all have arrived.
Synchronize ==
  /\ \A p \in PE : pc[p] = "round" /\ color[p] = Len(Scheme) + 1
  /\ pc' = [p \in PE |-> "done"]
  /\ UNCHANGED <<start, owned, border, origin, color, chan, iface,
                 otherWeight, halo, otherGain, fm, gains>>

Returned == (\A p \in PE : pc[p] = "done") /\ UNCHANGED vars

Step(p) == \/ Idle(p) \/ SendBorder(p) \/ SwapSizes(p) \/ SwapHalo(p)
           \/ RefineAndSwapGain(p) \/ NoImprovement(p) \/ SwapResult(p)
           \/ ApplyResult(p)

Next == (\E p \in PE : Step(p)) \/ Synchronize \/ Returned

Spec == Init /\ [][Next]_vars

\* Every process keeps running.
FairSpec == Spec /\ (\A p \in PE : WF_vars(Step(p))) /\ WF_vars(Synchronize)
-----------------------------------------------------------------------------
\* The partner of p has left the round p is still in, so the two have agreed.
PartnerAhead(p) == /\ color[p] \in DOMAIN Scheme
                   /\ color[Partner(p)] > color[p]

\* What p owns once it has drawn the conclusion its partner already drew.
EffOwned(p) ==
  IF pc[p] = "result" /\ PartnerAhead(p)
  THEN NewLocal(p, Received(p).toSecond)
  ELSE owned[p]

EffBlock == [p \in PE |-> EffOwned(p)]

StartBlock == [p \in PE |-> {n \in Node : start[n] = p}]

\* The gain of round r, as far as p's block has been changed by it.
EffGain(p, r) ==
  IF color[p] > r \/ (color[p] = r /\ PartnerAhead(p)) THEN gains[p][r] ELSE 0

GainSum == MapThenSumSet(LAMBDA x : EffGain(x[1], x[2]), PE \X DOMAIN Scheme)

\* Every node has exactly one owner, although two processes decide separately,
\* from results in opposite orientation, who keeps it: a node never is lost
\* between two processes and never claimed by both.
OneOwner ==
  \A n \in Node : \E p \in PE :
    n \in EffBlock[p] /\ \A q \in PE \ {p} : n \notin EffBlock[q]

\* The incrementally updated border list equals the border found from scratch:
\* all local nodes with a neighbour that is not local, and no other node.
BorderExact ==
  \A p \in PE :
    border[p] = {n \in owned[p] : Neighbors(EdgeWeight, n) \ owned[p] # {}}

\* The origin of a node travels with it, over any number of owners: the
\* projection back to the finer graph relies on it.
OriginTravels ==
  \A p \in PE : \A n \in Node :
    origin[p][n] = IF n \in owned[p] THEN start[n] ELSE -1

\* The swaps carry no tag, yet none is mistaken for another and none is left
\* behind: what comes next from q is what p waits for in this round, or it is
\* the border list of a round with q that p has not entered.
ExpectedMessage ==
  \A p, q \in PE : chan[<<q, p>>] # <<>> =>
    LET kind == Head(chan[<<q, p>>]).kind
    IN  \/ kind = pc[p] /\ Partner(p) = q
        \/ /\ kind = "border" /\ Partner(q) = p
           /\ \/ color[q] > color[p]
              \/ color[q] = color[p] /\ pc[p] = "round"

\* The gains reported for the rounds are the real ones: the total cut has
\* fallen by half the sum over all processes, also when several pairs work at
\* the same time and each sees only its own two blocks.
CutAccounting ==
  CutSum(EdgeWeight, EffBlock) = CutSum(EdgeWeight, StartBlock) - GainSum

\* A block larger than the capacity is so because it was too large to begin
\* with (LocalRefinement.cpp:343; the assertion there compares weights from
\* before the refinement).
OverloadNeverGrows ==
  \A p \in PE :
    \/ WeightOf(NodeWeight, EffBlock[p]) <= Capacity
    \/ WeightOf(NodeWeight, EffBlock[p]) <= WeightOf(NodeWeight, StartBlock[p])

\* The round a pair has settled: the abstract step happens when the first of
\* the two processes of a pair updates its data.
EffRound == [p \in PE |-> IF PartnerAhead(p) THEN color[p] + 1 ELSE color[p]]

Abs == INSTANCE PairwiseRefinement WITH block <- EffBlock, round <- EffRound

\* Any interleaving of the processes, each a few messages ahead of the other,
\* amounts to a sequence of whole pairwise steps: nodes change hands only
\* between two blocks that meet in the round, and only if the cut falls and
\* both blocks fit.
RefinesPairwise == Abs!Spec

\* Every sweep comes to an end on all processes.
SweepEnds == <>(\A p \in PE : pc[p] = "done")
=============================================================================
