----------------------------- MODULE MultiLevel -----------------------------
(***************************************************************************)
(* ParcoRepart::doLocalRefinement and MultiLevel::multiLevelStep: the graph *)
(* is coarsened level by level, and on the way back every level moves its  *)
(* nodes to where their coarse nodes went and repeats the sweep of local   *)
(* refinement until it no longer pays.  Each process decides on its own    *)
(* whether to sweep again; sweeps are collective.                          *)
(*                                                                         *)
(* Coarsening, the communication scheme and the refinement of a pair are   *)
(* modelled by what Coarsening, CommScheme and DistributedFM promise.      *)
(* owner is both the distribution and part: block IDs are ranks here.      *)
(***************************************************************************)
EXTENDS PartGraph, Sequences

CONSTANTS
  P,            \* number of processes and of blocks
  Instances,    \* what to choose from: a graph, its owners and the settings
  RoundCap,     \* 50 in the code: sweeps per level, and size of localRefDetails
  GainShare,    \* 100 in the code: a sweep must gain 1/GainShare of the border
  Capacity

PE == 0 .. (P - 1)

ASSUME MultiLevelAssumption ==
  /\ P \in Nat \ {0} /\ GainShare \in Nat \ {0}
  /\ RoundCap \in Nat \ {0} /\ Capacity \in Nat
  /\ \A i \in Instances :
       /\ i.settings \in [multiLevelRounds : Nat, steps : Nat \ {0}, skip : BOOLEAN]
       /\ IsFiniteSet(DOMAIN i.row) /\ DOMAIN i.row \subseteq Nat
       /\ \A n, m \in DOMAIN i.row :
            i.row[n][m] \in Nat /\ i.row[n][m] = i.row[m][n]
       /\ i.owner \in [DOMAIN i.row -> PE] /\ i.minGain \in Nat

VARIABLES
  graph,    \* of this level: row[n][m] edge weights, weight[n] node weights
  owner,    \* of every node of this level
  origin,   \* its owner when the level began
  halo,     \* [p][q]: what p requires from q, and provides to it
  minGain,  \* minGainForNextRound, as each process has it
  settings, \* multiLevelRounds, coarseningStepsBetweenRefinement (steps) and
            \* skipNoGainColors (skip)
  stack,    \* the finer levels: graph, owner, origin and fineToCoarseMap
  left,     \* settings.multiLevelRounds of this level
  phase,    \* "refine", "descend", "setup", "sweep" or "done"
  at,       \* what each process does in the loop: "test", "sweep" or "out"
  scheme,   \* the pairs of every color
  color, todo, gains,  \* position in the scheme, pairs left, gain of each color
  rounds, gain,        \* numRefinementRounds and the gain of the last sweep
  detail    \* where localRefDetails was written last: <<thisRound, round>>

vars == <<graph, owner, origin, halo, minGain, settings, stack, left, phase, at,
          scheme, color, todo, gains, rounds, gain, detail>>
level == <<graph, owner, origin, halo>>
loop  == <<scheme, color, todo, gains, rounds, gain, detail>>

Node == DOMAIN graph.row
Owned(p) == {n \in Node : owner[n] = p}

\* buildNeighborHalo: p requires the neighbours of its nodes from their owners.
NeighborHalo(g, own) ==
  LET mine(p) == {n \in DOMAIN g.row : own[n] = p}
  IN  [p \in PE |-> [q \in PE \ {p} |->
        [required |-> NeighborsOf(g.row, mine(p)) \cap mine(q),
         provided |-> NeighborsOf(g.row, mine(q)) \cap mine(p)]]]

-----------------------------------------------------------------------------
Init ==
  \E i \in Instances :
    /\ graph = [row |-> i.row, weight |-> i.weight]
    /\ owner = i.owner /\ origin = i.owner
    /\ minGain = [p \in PE |-> i.minGain]
    /\ settings = i.settings
    /\ halo = [p \in PE |-> << >>]
    /\ stack = << >> /\ left = i.settings.multiLevelRounds /\ phase = "refine"
    /\ at = [p \in PE |-> "out"]
    /\ scheme = << >> /\ color = 1 /\ todo = {} /\ gains = << >>
    /\ rounds = 0 /\ gain = 0 /\ detail = <<-1, 0>>

\* (In the mutant every process takes 1% of its own border.)
MinGainMut(h) ==
  [p \in PE |->
     LET provided(q) == Cardinality(h[p][q].provided)
     IN  Max({MapThenSumSet(provided, PE \ {p}) \div GainShare, 1})]

\* setAutoSettings: 1% of the nodes sent to all processes, per block.
MinGain(h) ==
  LET provided(e) == Cardinality(h[e[1]][e[2]].provided)
      cutNodes == MapThenSumSet(provided, {e \in PE \X PE : e[1] # e[2]})
  IN  [p \in PE |-> Max({cutNodes \div (GainShare * P), 1})]

\* doLocalRefinement: the halo is built once, for the finest level.
DoLocalRefinement(auto) ==
  /\ phase = "refine"
  /\ halo' = NeighborHalo(graph, owner)
  /\ minGain' = IF auto THEN MinGain(halo') ELSE minGain
  /\ phase' = "descend"
  /\ UNCHANGED <<graph, owner, origin, settings, stack, left, at>>
  /\ UNCHANGED loop

Contracted(map) ==
  LET coarse == {map[n] : n \in Node}
      fine(c) == {n \in Node : map[n] = c}
  IN  [row    |-> [c \in coarse |-> [d \in coarse |->
                     IF c = d THEN 0 ELSE CutBetween(graph.row, fine(c), fine(d))]],
       weight |-> [c \in coarse |-> WeightOf(graph.weight, fine(c))]]

\* (The mutant lets a matched pair lie on two processes.)
LocalEdgesMut(row) == {e \in SUBSET DOMAIN row :
  Cardinality(e) = 2 /\ \A n, m \in e : n # m => row[n][m] > 0}

LocalEdges(row) == {e \in SUBSET DOMAIN row :
  Cardinality(e) = 2
  /\ \A n, m \in e : owner[n] = owner[m] /\ (n # m => row[n][m] > 0)}

\* What coarsen may do: contract a maximal matching of local edges, steps times.
\* A coarse node goes by the least of its nodes.
Contractions ==
  LET Disjoint(M) == \A d, e \in M : d # e => d \cap e = {}
      Matchings(row) ==
        {M \in SUBSET LocalEdges(row) :
           Disjoint(M) /\ \A e \in LocalEdges(row) : \E d \in M : d \cap e # {}}
      merge(M, c) == Min({c} \cup UNION {e \in M : c \in e})
      maps[k \in Nat] ==
        IF k = 0 THEN {[n \in Node |-> n]}
        ELSE UNION {{[n \in Node |-> merge(M, map[n])] :
                       M \in Matchings(Contracted(map).row)} : map \in maps[k - 1]}
  IN  maps[settings.steps]

Image(map, S) == {map[n] : n \in S}

\* (The mutant leaves the required indices as they were.)
CoarsenHaloMut(map) ==
  [p \in PE |-> [q \in PE \ {p} |->
     [required |-> halo[p][q].required,
      provided |-> Image(map, halo[p][q].provided)]]]

\* coarsenHalo: both index lists become those of the coarse nodes.
CoarsenHalo(map) ==
  [p \in PE |-> [q \in PE \ {p} |->
     [required |-> Image(map, halo[p][q].required),
      provided |-> Image(map, halo[p][q].provided)]]]

\* The way down: coarsen, and call multiLevelStep for the coarse graph.
Descend ==
  /\ phase = "descend" /\ left > 0
  /\ \E map \in Contractions :
       /\ stack' = Append(stack, [graph |-> graph, owner |-> owner,
                                  origin |-> origin, left |-> left, map |-> map])
       /\ graph' = Contracted(map)
       /\ owner' = [c \in DOMAIN graph'.row |-> owner[c]]
       /\ halo' = CoarsenHalo(map)
  /\ origin' = owner'
  /\ left' = left - settings.steps
  /\ UNCHANGED <<minGain, settings, phase, at>>
  /\ UNCHANGED loop

Bottom ==
  /\ phase = "descend" /\ left <= 0
  /\ phase' = "setup"
  /\ UNCHANGED level
  /\ UNCHANGED <<minGain, settings, stack, left, at>>
  /\ UNCHANGED loop

-----------------------------------------------------------------------------
\* getCommunicationPairs_local: all pairs of neighbouring blocks, colored.
Borders == {e \in SUBSET PE : \E p, q \in e :
              e = {p, q} /\ p # q /\ CutBetween(graph.row, Owned(p), Owned(q)) > 0}

Schemes ==
  UNION {{[c \in 1 .. k |-> {e \in Borders : f[e] = c}] :
            f \in {f \in [Borders -> 1 .. k] :
                     /\ \A d, e \in Borders : d # e /\ f[d] = f[e] => d \cap e = {}
                     /\ \A c \in 1 .. k : \E e \in Borders : f[e] = c}} :
          k \in 0 .. Cardinality(Borders)}

\* The scheme is taken once per level; then every process enters the loop.
Setup ==
  /\ phase = "setup"
  /\ scheme' \in Schemes
  /\ phase' = "sweep"
  /\ at' = [p \in PE |-> "test"]
  /\ color' = 1 /\ todo' = {} /\ gains' = << >> /\ rounds' = 0 /\ gain' = 0
  /\ UNCHANGED level
  /\ UNCHANGED <<minGain, settings, stack, left, detail>>

Again(p) == rounds = 0 \/ gain >= minGain[p]

Test(p) ==
  /\ phase = "sweep" /\ at[p] = "test"
  /\ at' = [at EXCEPT ![p] = IF Again(p) THEN "sweep" ELSE "out"]
  /\ UNCHANGED level
  /\ UNCHANGED <<minGain, settings, stack, left, phase>>
  /\ UNCHANGED loop

Sweeping == phase = "sweep" /\ \A p \in PE : at[p] = "sweep"

EnterColor ==
  /\ Sweeping /\ todo = {} /\ color \in DOMAIN scheme /\ Len(gains) < color
  /\ todo' = scheme[color] /\ gains' = Append(gains, 0)
  /\ UNCHANGED level
  /\ UNCHANGED <<minGain, settings, stack, left, phase, at, scheme, color, rounds, gain,
                 detail>>

\* A pair of this color shares its nodes out anew, as FMOutcomes promises.
RefinePair(e) ==
  /\ Sweeping /\ e \in todo
  /\ LET p == Min(e)  q == Max(e)
     IN  \E o \in FMOutcomes(graph.row, graph.weight, Owned(p), Owned(q),
                             Owned(p) \cup Owned(q), WeightOf(graph.weight, Owned(p)),
                             WeightOf(graph.weight, Owned(q)), Capacity) :
           /\ owner' = [n \in Node |-> IF owner[n] \notin e THEN owner[n]
                                       ELSE IF n \in o.toSecond THEN q ELSE p]
           /\ gains' = [gains EXCEPT ![color] = @ + o.gain]
  /\ todo' = todo \ {e}
  /\ UNCHANGED <<graph, origin, halo, minGain, settings, stack, left, phase, at, scheme,
                 color, rounds, gain, detail>>

NextColor ==
  /\ Sweeping /\ todo = {} /\ color \in DOMAIN scheme /\ Len(gains) = color
  /\ color' = color + 1
  /\ UNCHANGED level
  /\ UNCHANGED <<minGain, settings, stack, left, phase, at, scheme, todo, gains, rounds,
                 gain, detail>>

\* skipNoGainColors: colors without gain leave the scheme of this level.
Kept ==
  LET stay == {c \in DOMAIN scheme : settings.skip => gains[c] # 0}
      InOrder(o) == \A i, j \in DOMAIN o : i < j => o[i] < o[j]
  IN  {[i \in DOMAIN o |-> scheme[o[i]]] :
         o \in {o \in [1 .. Cardinality(stay) -> stay] : InOrder(o)}}

thisRound == Len(stack)

\* (The mutant lets one more sweep pass.)
ForcedMut(n) == n > RoundCap

Forced(n) == n >= RoundCap

\* After the sweep: sum up, write localRefDetails, and break at the cap.
EndSweep ==
  /\ Sweeping /\ color = Len(scheme) + 1
  /\ gain' = MapThenSumSet(LAMBDA c : gains[c], DOMAIN gains)
  /\ scheme' \in Kept
  /\ rounds' = rounds + 1
  /\ IF Forced(rounds')
     THEN at' = [p \in PE |-> "out"] /\ UNCHANGED detail
     ELSE at' = [p \in PE |-> "test"] /\ detail' = <<thisRound, rounds'>>
  /\ color' = 1 /\ gains' = << >>
  /\ UNCHANGED level
  /\ UNCHANGED <<minGain, settings, stack, left, phase, todo>>

\* (The mutant takes the value of whatever coarse node has the fine node's name.)
FineTargetsMut(f) == {[n \in DOMAIN f.map |->
   IF n \in Node THEN owner[n] ELSE f.owner[n]]}

\* getFineTargets: the owners of the coarse nodes are sent to their origins and
\* looked up there; a coarse node not found gives an arbitrary value.
FineTargets(f) ==
  LET known == {n \in DOMAIN f.map : origin[f.map[n]] = f.owner[n]}
      found == [n \in known |-> owner[f.map[n]]]
  IN  {[n \in DOMAIN f.map |-> IF n \in known THEN found[n] ELSE lost[n]] :
         lost \in [DOMAIN f.map \ known -> PE]}

\* The way up: the call returns and the finer level moves to the targets.
Return ==
  /\ phase = "sweep" /\ \A p \in PE : at[p] = "out"
  /\ IF stack = << >>
     THEN phase' = "done" /\ UNCHANGED <<stack, left>> /\ UNCHANGED level
     ELSE LET f == stack[Len(stack)]
          IN  /\ owner' \in FineTargets(f)
              /\ graph' = f.graph /\ origin' = f.origin /\ left' = f.left
              /\ stack' = SubSeq(stack, 1, Len(stack) - 1)
              /\ phase' = "setup"
              /\ UNCHANGED halo
  /\ UNCHANGED <<minGain, settings, at>>
  /\ UNCHANGED loop

Next == \/ \E auto \in BOOLEAN : DoLocalRefinement(auto)
        \/ Descend \/ Bottom \/ Setup
        \/ \E p \in PE : Test(p)
        \/ EnterColor \/ (\E e \in todo : RefinePair(e)) \/ NextColor
        \/ EndSweep \/ Return

Spec == Init /\ [][Next]_vars

\* Every process keeps running and every collective call completes.
FairSpec == Spec /\ WF_vars(Next)

-----------------------------------------------------------------------------
Cut(g, own) == CutSum(g.row, [p \in PE |-> {n \in DOMAIN own : own[n] = p}])

Gained(gs) == MapThenSumSet(LAMBDA c : gs[c], DOMAIN gs)

\* Coarsening and projecting change neither the cut nor anybody's load: only the
\* reported gains of the sweeps lower the cut (MultiLevel.cpp:98-125, 171).  (The
\* cut of CutSum counts every edge from both sides.)
OnlySweepsCut ==
  [][\/ Cut(graph', owner') = Cut(graph, owner) - 2 * (Gained(gains') - Gained(gains))
     \/ gains' = << >> /\ gain' = Gained(gains) /\ Cut(graph', owner') = Cut(graph, owner)
    ]_vars

\* The halo made from the fine one is the halo of the coarse graph: the nodes of
\* every neighbour, and both sides of a pair agree (HaloPlanFns.cpp:14-115).
HaloFits ==
  phase = "descend" =>
    /\ halo = NeighborHalo(graph, owner)
    /\ \A p, q \in PE : p # q => halo[p][q].required = halo[q][p].provided

\* However the coarse nodes have travelled, each process still finds all coarse
\* nodes of its fine nodes among those sent back to it (MultiLevel.cpp:229-262).
OriginsLeadHome ==
  stack # << >> =>
    LET f == stack[Len(stack)]
    IN  \A n \in DOMAIN f.map : origin[f.map[n]] = f.owner[n]

\* No process is in a sweep while another one has left the loop: the swaps of the
\* sweep would wait for it (MultiLevel.cpp:151, ParcoRepart.cpp:613).
LeaveTogether ==
  phase = "sweep" =>
    \A p, q \in PE : ~ (at[p] = "sweep" /\ at[q] = "out")

\* localRefDetails, with RoundCap entries for each of MultiLevelRounds + 1 levels,
\* is never written outside (MultiLevel.cpp:203-211, Metrics.h:55-60).
DetailsFit == detail[1] <= settings.multiLevelRounds /\ detail[2] < RoundCap

\* The V-cycle returns on every process (MultiLevel.cpp:151).
VCycleEnds == <>(phase = "done")
=============================================================================
