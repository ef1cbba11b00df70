--------------------------- MODULE BalancedKMeans ---------------------------
(***************************************************************************)
(* KMeans::computePartition, computeHierarchicalPartition and              *)
(* computeHierPlusRepart.  Points go to the center with the least squared  *)
(* distance times influence, influences follow the weights of the blocks,  *)
(* centers follow their points.  Each point keeps an upper bound for its   *)
(* own center and a lower bound for all others, so that most points need   *)
(* not be looked at again.                                                 *)
(*                                                                         *)
(* Points lie on a line and arithmetic is in integers: One stands for the  *)
(* influence 1.0, roundings go to the safe side where the code adds 1e-5,  *)
(* and centers are rounded down.  There is one weight per point, the       *)
(* exponent of the influence is 1 and its cap one half.                    *)
(***************************************************************************)
EXTENDS Integers, Sequences, FiniteSetsExt

CONSTANTS
  PEs,                \* the processes, an interval from 0
  Inputs,             \* records [pos, home, levels]: functions over the points and,
                      \* per level, how many blocks each block is divided into
  MinSamplingNodes,   \* settings.minSamplingNodes, -1: all points at once
  BalanceIterations,
  MaxIterations,
  EpsPercent,         \* settings.epsilon, in percent
  Threshold,          \* no center moves further: converged
  One, Huge           \* influence 1.0; numeric_limits::max()

SumOver(f(_), S) == MapThenSumSet(f, S)

\* blockSizesPrefixSum: where the new blocks of old block b start.
BlockSizesPrefixSum(sizes, b) == SumOver(LAMBDA c : sizes[c], 1 .. b)

\* All blocks of a level are divided on the next one.
WellFormed(in) ==
  /\ IsFiniteSet(DOMAIN in.pos) /\ DOMAIN in.pos \subseteq Int
  /\ in.pos \in [DOMAIN in.pos -> Int]
  /\ in.home \in [DOMAIN in.pos -> PEs]
  /\ in.levels \in Seq(Seq(Nat \ {0}))
  /\ Len(in.levels) > 0 /\ Len(in.levels[1]) = 1
  /\ \A l \in 1 .. (Len(in.levels) - 1) :
       Len(in.levels[l + 1]) = BlockSizesPrefixSum(in.levels[l], Len(in.levels[l]))

ASSUME KMeansAssumption ==
  /\ IsFiniteSet(PEs) /\ PEs # {} /\ PEs = 0 .. (Cardinality(PEs) - 1)
  /\ \A in \in Inputs : WellFormed(in)
  /\ MinSamplingNodes = -1 \/ MinSamplingNodes \in Nat \ {0}
  /\ BalanceIterations \in Nat /\ MaxIterations \in Nat
  /\ EpsPercent \in Nat /\ Threshold \in Nat
  /\ One \in Nat \ {0} /\ Huge \in Nat \ {0}

VARIABLES
  input,
  level,          \* hierarchy level
  father,         \* the block of each point on the level above
  pc,             \* per process: what it does or which collective it waits in
  sampled,        \* points of firstIndex .. lastIndex
  iter, balanceIter,
  centers, influence,
  assignment,
  upper, lower    \* upperBoundOwnCenter, lowerBoundNextCenter

vars == <<input, level, father, pc, sampled, iter, balanceIter, centers,
          influence, assignment, upper, lower>>

Points == DOMAIN input.pos
Levels == input.levels
LocalPoints(p) == {i \in Points : input.home[i] = p}
SampledOf(p) == sampled \cap LocalPoints(p)
CeilDiv(a, b) == (a + b - 1) \div b

\* The repartitioning after the last level divides one block into all.
Grouping ==
  IF level <= Len(Levels) THEN Levels[level]
  ELSE <<BlockSizesPrefixSum(Levels[Len(Levels)], Len(Levels[Len(Levels)]))>>
RangeStart(b) == BlockSizesPrefixSum(Grouping, b)
Range0(b) == RangeStart(b) .. (RangeStart(b + 1) - 1)
NumNew == RangeStart(Len(Grouping))
NewBlocks == 0 .. (NumNew - 1)
Target == Cardinality(Points) \div NumNew + 1

-----------------------------------------------------------------------------
(***************************************************************************)
(* findInitialCentersSFC: the points of an old block in the order of the   *)
(* processes and of the curve; its new centers are spread evenly over it.  *)
(***************************************************************************)
Before(i, j) ==
  \/ input.home[i] < input.home[j]
  \/ input.home[i] = input.home[j] /\ input.pos[i] < input.pos[j]
  \/ input.home[i] = input.home[j] /\ input.pos[i] = input.pos[j] /\ i < j

OldBlockPart(p, block, b) == {i \in LocalPoints(p) : block[i] = b}

\* concatPrefixSumArray: how many points of old block b the processes before p have.
PrefixSum(p, block, b) ==
  SumOver(LAMBDA q : Cardinality(OldBlockPart(q, block, b)), {q \in PEs : q < p})

\* newCenterIndWithinBLock: which point of a block of n points is its (c+1)st of k centers.
CenterIndex(n, k, c) == c * (n \div k) + (n \div k) \div 2

\* Where process p saw center c of old block b, or nothing: the point is elsewhere.
OwnCenter(p, block, b, k, c) ==
  LET mine == OldBlockPart(p, block, b)
      at   == CenterIndex(PrefixSum(Cardinality(PEs), block, b), k, c)
                - PrefixSum(p, block, b)
  IN  IF at \in 0 .. (Cardinality(mine) - 1)
      THEN input.pos[CHOOSE i \in mine : Cardinality({x \in mine : Before(x, i)}) = at]
      ELSE 0

\* The processes add up what they saw; blocks are numbered through the old blocks.
InitialCenters(grouping, block) ==
  LET start(b) == BlockSizesPrefixSum(grouping, b)
      oldOf(j) == CHOOSE b \in 0 .. (Len(grouping) - 1) :
                    j >= start(b) /\ j < start(b + 1)
      seen(j)  == [p \in PEs |-> OwnCenter(p, block, oldOf(j), grouping[oldOf(j) + 1],
                                           j - start(oldOf(j)))]
  IN  [j \in 0 .. (start(Len(grouping)) - 1) |-> SumOver(LAMBDA p : seen(j)[p], PEs)]

\* The first sample of a process, with k new blocks in all.  (The assertion that it
\* is not 0 is not compiled.)
MinNodes(k) == (MinSamplingNodes * k) \div Cardinality(PEs)

\* Random initialisation needs every process to have more points than that.
RandomInit(k) ==
  MinSamplingNodes # -1 /\ \A p \in PEs : Cardinality(LocalPoints(p)) > MinNodes(k)

SamplingRounds(k) ==
  IF ~ RandomInit(k) THEN 0
  ELSE 1 + Min({r \in 0 .. Cardinality(Points) :
                  2 ^ r * MinSamplingNodes * k >= Cardinality(Points)})

\* (The mutant only doubles, which misses the last points of a large process.)
SampleSizeMut(k, p, round) == Min({2 ^ round * MinNodes(k), Cardinality(LocalPoints(p))})

\* samples[round] on process p.
SampleSize(k, p, round) ==
  IF round >= SamplingRounds(k) - 1 THEN Cardinality(LocalPoints(p))
  ELSE Min({2 ^ round * MinNodes(k), Cardinality(LocalPoints(p))})

\* The shuffled order is sampled as it is used: any larger sample.
Samples(k, old, round) ==
  {S \in SUBSET Points : /\ old \subseteq S
                         /\ \A p \in PEs : Cardinality(S \cap LocalPoints(p))
                                             = SampleSize(k, p, round)}

\* (The mutant lets a process without points go on, as the check at the begin of
\* assignBlocks is meant to do.)
BeginsMut(p) == "assign"

\* A process without points dereferences the minimum of no coordinates; the others
\* wait for it in the minimum over all processes.
Begins(p) ==
  IF \A q \in PEs : LocalPoints(q) # {} THEN "assign"
  ELSE IF LocalPoints(p) = {} THEN "crashed" ELSE "bounds"

\* computePartition up to its loop, for the blocks of the new level.
Loop(firstCenters, firstAssignment) ==
  /\ centers' = firstCenters
  /\ influence' = [j \in DOMAIN centers' |-> One]
  /\ assignment' = firstAssignment
  /\ upper' = [i \in Points |-> Huge] /\ lower' = [i \in Points |-> 0]
  /\ sampled' \in IF RandomInit(NumNew') THEN Samples(NumNew', {}, 0) ELSE {Points}
  /\ iter' = 0 /\ balanceIter' = 0
  /\ pc' = [p \in PEs |-> Begins(p)]

StartLevel(grouping, block) ==
  Loop(InitialCenters(grouping, block), [i \in Points |-> 0])

Init ==
  /\ input \in Inputs
  /\ level = 1
  /\ father = [i \in Points |-> 0]
  /\ pc = [p \in PEs |-> "start"]
  /\ sampled = {} /\ iter = 0 /\ balanceIter = 0
  /\ centers = << >> /\ influence = << >>
  /\ assignment = [i \in Points |-> 0]
  /\ upper = [i \in Points |-> Huge] /\ lower = [i \in Points |-> 0]

Start ==
  /\ \A p \in PEs : pc[p] = "start"
  /\ UNCHANGED <<input, level, father>>
  /\ StartLevel(Levels[1], father)

-----------------------------------------------------------------------------
(***************************************************************************)
(* assignBlocks, the part between two collectives.                         *)
(***************************************************************************)
Sq(x) == x * x
EffDist(i, j) == Sq(centers[j] - input.pos[i]) * influence[j]

\* Distance of a center from the box around the local points, with its influence.
BoxDist(p, j) ==
  LET low  == Min({input.pos[i] : i \in LocalPoints(p)})
      high == Max({input.pos[i] : i \in LocalPoints(p)})
  IN  Sq(Max({0, low - centers[j], centers[j] - high})) * influence[j]

\* clusterIndicesAllBlocks: the centers of old block b, closest to the box first.
Candidates(p, b) ==
  LET closer(j, k) == BoxDist(p, j) < BoxDist(p, k) \/ (BoxDist(p, j) = BoxDist(p, k) /\ j < k)
  IN  [c \in 1 .. Cardinality(Range0(b)) |->
         CHOOSE j \in Range0(b) : Cardinality({k \in Range0(b) : closer(k, j)}) = c - 1]

SearchEnds(found, dist) == found.second <= dist

\* One center more, unless the search is over.
LookAt(found, p, i, j) ==
  LET d == EffDist(i, j)
  IN  IF found.over \/ SearchEnds(found, BoxDist(p, j)) THEN [found EXCEPT !.over = TRUE]
      ELSE IF d < found.value
      THEN [found EXCEPT !.block = j, !.value = d, !.second = found.value]
      ELSE [found EXCEPT !.second = Min({found.second, d})]

\* The closest center and the second smallest value, as far as the search went.
Closest(p, i) ==
  LET order == Candidates(p, father[i])
      scan[c \in 0 .. Len(order)] ==
        IF c = 0 THEN [block |-> 0, value |-> Huge, second |-> Huge, over |-> FALSE]
        ELSE LookAt(scan[c - 1], p, i, order[c])
  IN  scan[Len(order)]

\* A point is looked at only if its bounds leave room for another center.
Skipped(i) ==
  \/ lower[i] > upper[i]
  \/ lower[i] > EffDist(i, assignment[i])

AssignBlocks(p) ==
  /\ pc[p] = "assign"
  /\ IF SampledOf(p) = {}
     THEN \* "No local points": back to the caller, past the sums of the others.
          /\ pc' = [pc EXCEPT ![p] = "centers"]
          /\ UNCHANGED <<assignment, upper, lower>>
     ELSE LET looked == {i \in SampledOf(p) : ~ Skipped(i)}
              close == [i \in looked |-> Closest(p, i)]
              tight(i) == IF lower[i] > upper[i] THEN upper[i] ELSE EffDist(i, assignment[i])
          IN  /\ pc' = [pc EXCEPT ![p] = "weights"]
              /\ assignment' = [i \in Points |->
                   IF i \in looked THEN close[i].block ELSE assignment[i]]
              /\ upper' = [i \in Points |-> IF i \in looked THEN close[i].value
                             ELSE IF i \in SampledOf(p) THEN tight(i) ELSE upper[i]]
              /\ lower' = [i \in Points |->
                   IF i \in looked THEN close[i].second ELSE lower[i]]
  /\ UNCHANGED <<input, level, father, sampled, iter, balanceIter, centers, influence>>

-----------------------------------------------------------------------------
(***************************************************************************)
(* The sums of the block weights and what follows from them.               *)
(***************************************************************************)
BlockWeight(j) == Cardinality({i \in sampled : assignment[i] = j})

\* weight <= target * sampled / all * (1 + epsilon)
Fits(j) ==
  100 * BlockWeight(j) * Cardinality(Points)
    <= (100 + EpsPercent) * Target * Cardinality(sampled)

NewInfluence(j) ==
  LET num == BlockWeight(j) * Cardinality(Points)
      den == Target * Cardinality(sampled)
      old == influence[j]
  IN  Max({1, old - old \div 2, Min({(old * num) \div den, old + old \div 2})})

\* (The mutant scales the lower bounds with the point's own block.)
LowerAfterInfluenceMut(i, new) ==
  (lower[i] * new[assignment[i]]) \div influence[assignment[i]]

\* The lower bound must hold for the center whose influence fell most.
LowerAfterInfluence(i, new) ==
  Min({(lower[i] * new[j]) \div influence[j] : j \in NewBlocks})

UpperAfterInfluence(i, new) ==
  CeilDiv(upper[i] * new[assignment[i]], influence[assignment[i]])

BalanceRound ==
  /\ \A p \in PEs : pc[p] = "weights"
  /\ LET new == [j \in NewBlocks |-> NewInfluence(j)]
         balanced == \A j \in NewBlocks : Fits(j)
     IN  /\ influence' = new
         /\ upper' = [i \in Points |-> IF i \in sampled THEN UpperAfterInfluence(i, new)
                                       ELSE upper[i]]
         /\ lower' = [i \in Points |-> IF i \in sampled THEN LowerAfterInfluence(i, new)
                                       ELSE lower[i]]
         /\ IF ~ balanced /\ balanceIter + 1 < BalanceIterations
            THEN pc' = [p \in PEs |-> "assign"] /\ balanceIter' = balanceIter + 1
            ELSE pc' = [p \in PEs |-> "centers"] /\ balanceIter' = 0
  /\ UNCHANGED <<input, level, father, sampled, iter, centers, assignment>>

-----------------------------------------------------------------------------
(***************************************************************************)
(* findCenters and the rest of the loop of computePartition.               *)
(***************************************************************************)
Members(j) == {i \in sampled : assignment[i] = j}

\* An empty block keeps its center.
FindCenter(j) ==
  IF Members(j) = {} THEN centers[j]
  ELSE SumOver(LAMBDA i : input.pos[i], Members(j)) \div Cardinality(Members(j))

\* The least integer r with r * r * b >= a.
RootUp(a, b) == CHOOSE r \in 0 .. a : r * r * b >= a /\ (r = 0 \/ (r - 1) * (r - 1) * b < a)

\* (The mutant takes the point's own center for the largest move.)
LowerAfterMoveMut(i, delta) ==
  LET d == delta[assignment[i]]
      m == Max({influence[j] : j \in NewBlocks})
  IN  IF lower[i] < d * d * m THEN 0
      ELSE Max({0, lower[i] - (2 * d * RootUp(lower[i], m) - d * d) * m})

LowerAfterMove(i, delta) ==
  LET d == Max({delta[j] : j \in NewBlocks})
      m == Max({influence[j] : j \in NewBlocks})
  IN  IF lower[i] < d * d * m THEN 0
      ELSE Max({0, lower[i] - (2 * d * RootUp(lower[i], m) - d * d) * m})

UpperAfterMove(i, delta) ==
  LET d == delta[assignment[i]]
      f == influence[assignment[i]]
  IN  upper[i] + (2 * d * RootUp(upper[i], f) + d * d) * f

Balanced == \A j \in NewBlocks : Fits(j)

MoveCenters ==
  /\ \A p \in PEs : pc[p] = "centers"
  /\ LET new   == [j \in NewBlocks |-> FindCenter(j)]
         delta == [j \in NewBlocks |-> IF new[j] >= centers[j] THEN new[j] - centers[j]
                                       ELSE centers[j] - new[j]]
         moved == Max({delta[j] : j \in NewBlocks})
         again == \/ iter + 1 < SamplingRounds(NumNew)
                  \/ iter + 1 < MaxIterations /\ (moved > Threshold \/ ~ Balanced)
     IN  /\ centers' = new
         /\ upper' = [i \in Points |-> IF i \in sampled THEN UpperAfterMove(i, delta)
                                       ELSE upper[i]]
         /\ lower' = [i \in Points |-> IF i \in sampled THEN LowerAfterMove(i, delta)
                                       ELSE lower[i]]
         /\ iter' = iter + 1
         /\ IF again
            THEN /\ pc' = [p \in PEs |-> "assign"]
                 /\ IF iter + 1 < SamplingRounds(NumNew)
                    THEN sampled' \in Samples(NumNew, sampled, iter + 1)
                    ELSE UNCHANGED sampled
            ELSE /\ pc' = [p \in PEs |-> "done"]
                 /\ UNCHANGED sampled
  /\ UNCHANGED <<input, level, father, balanceIter, influence, assignment>>

\* The blocks are divided again on the next level.
NextLevel ==
  /\ \A p \in PEs : pc[p] = "done"
  /\ level < Len(Levels)
  /\ level' = level + 1 /\ UNCHANGED input
  /\ father' = assignment
  /\ StartLevel(Levels[level + 1], assignment)

\* findLocalCenters: a process without points would add the origin.
LocalCenter(p) ==
  IF LocalPoints(p) = {} THEN 0
  ELSE SumOver(LAMBDA i : input.pos[i], LocalPoints(p)) \div Cardinality(LocalPoints(p))

PartitionIsDistribution ==
  /\ NumNew = Cardinality(PEs)
  /\ \A i \in Points : assignment[i] = input.home[i]

RepartitionCenters ==
  [j \in NewBlocks |-> IF PartitionIsDistribution THEN LocalCenter(j) ELSE FindCenter(j)]

\* computeHierPlusRepart, computeRepartition: the result is the starting point of a
\* k-means without hierarchy; the center of an empty block is NAN, which the next
\* assertion refuses.
Repartition ==
  /\ \A p \in PEs : pc[p] = "done"
  /\ level = Len(Levels)
  /\ IF ~ PartitionIsDistribution /\ \E j \in NewBlocks : Members(j) = {}
     THEN pc' = [p \in PEs |-> "failed"] /\ UNCHANGED <<input, level, father, sampled, iter,
            balanceIter, centers, influence, assignment, upper, lower>>
     ELSE /\ level' = level + 1 /\ UNCHANGED input /\ father' = [i \in Points |-> 0]
          /\ Loop(RepartitionCenters, assignment)

Ended ==
  /\ \/ level >= Len(Levels) /\ \A p \in PEs : pc[p] \in {"done", "failed"}
     \/ \E p \in PEs : pc[p] = "crashed"
  /\ UNCHANGED vars

Next ==
  \/ Start
  \/ \E p \in PEs : AssignBlocks(p)
  \/ BalanceRound
  \/ MoveCenters
  \/ NextLevel
  \/ Repartition
  \/ Ended

Spec == Init /\ [][Next]_vars

-----------------------------------------------------------------------------
\* Whatever the bounds let a process skip, and wherever the box let it stop, the
\* points it has just assigned are with a center of least effective distance among
\* those their old block is divided into (KMeans.cpp:668-757).
ClosestAssigned ==
  \A p \in PEs : pc[p] = "weights" =>
    \A i \in SampledOf(p) : /\ assignment[i] \in Range0(father[i])
                            /\ \A j \in Range0(father[i]) :
                                 EffDist(i, assignment[i]) <= EffDist(i, j)

\* The two assertions of assignBlocks: the upper bound is not below the distance to
\* the own center, the lower bound not above the distance to any other
\* (KMeans.cpp:680, 747), through changes of influence and moves of the centers.
BoundsHold ==
  \A i \in sampled : \A p \in PEs :
    input.home[i] = p /\ pc[p] \in {"assign", "weights", "centers"} /\ upper[i] # Huge =>
      /\ EffDist(i, assignment[i]) <= upper[i]
      /\ \A j \in Range0(father[i]) \ {assignment[i]} : lower[i] <= EffDist(i, j)

\* When it ends every point has been in the sample, and it ends balanced, unless the
\* iterations are used up (KMeans.cpp:1260-1278, 1521).
EndsComplete ==
  (\A p \in PEs : pc[p] = "done") =>
    /\ sampled = Points
    /\ Balanced \/ iter >= MaxIterations

\* A process that waits in the sums of the block weights is not left there by one that
\* has gone on to the sums of the centers (KMeans.cpp:533, 775).  A process does return
\* early when its sample is empty, but then all samples are: with more processes than
\* minSamplingNodes * blocks the first ones are empty everywhere, and a process without
\* points does not get there.
SameSums == ~ \E p, q \in PEs : pc[p] = "weights" /\ pc[q] = "centers"
=============================================================================
