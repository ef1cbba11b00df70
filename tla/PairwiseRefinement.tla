------------------------- MODULE PairwiseRefinement -------------------------
(***************************************************************************)
(* What one sweep of the local refinement promises, without processes and  *)
(* messages: every process has a block of nodes, and in each round the two *)
(* processes of a pair settle in one step which of their nodes change      *)
(* hands.  DistributedFM implements this module.                           *)
(***************************************************************************)
EXTENDS PartGraph, Sequences

CONSTANTS P, Node, EdgeWeight, NodeWeight, Scheme, Capacity, StartOwners

PE == 0 .. (P - 1)

VARIABLES
  start,  \* the owner of every node before the sweep
  block,  \* the nodes of every block now
  round   \* the round every block is in

vars == <<start, block, round>>

StartBlock == [p \in PE |-> {n \in Node : start[n] = p}]

Init ==
  /\ start \in StartOwners
  /\ block = StartBlock
  /\ round = [p \in PE |-> 1]

\* A block without a partner in its round.
Idle(p) ==
  /\ round[p] \in DOMAIN Scheme
  /\ Scheme[round[p]][p] = p
  /\ round' = [round EXCEPT ![p] = @ + 1]
  /\ UNCHANGED <<start, block>>

\* p and q share their nodes out anew; nobody else's block changes.
Exchange(p, q) ==
  \E new \in SUBSET (block[p] \cup block[q]) :
    block' = [block EXCEPT ![p] = new, ![q] = (block[p] \cup block[q]) \ new]

BothFit(p, q) == /\ WeightOf(NodeWeight, block'[p]) <= Capacity
                 /\ WeightOf(NodeWeight, block'[q]) <= Capacity

\* The step of a pair: nothing changes, or the cut falls and both fit.
Refine(p, q) ==
  /\ p # q
  /\ round[p] \in DOMAIN Scheme
  /\ Scheme[round[p]][p] = q
  /\ round[q] = round[p]
  /\ round' = [round EXCEPT ![p] = @ + 1, ![q] = @ + 1]
  /\ \/ block' = block
     \/ /\ Exchange(p, q)
        /\ BothFit(p, q)
        /\ CutSum(EdgeWeight, block') < CutSum(EdgeWeight, block)
  /\ UNCHANGED start

\* The sweep is over.
Returned == (\A p \in PE : round[p] = Len(Scheme) + 1) /\ UNCHANGED vars

Next == \/ \E p \in PE : Idle(p) \/ (\E q \in PE : Refine(p, q))
        \/ Returned

Spec == Init /\ [][Next]_vars

-----------------------------------------------------------------------------
\* A block is larger than the capacity only if it was too large to begin with,
\* and then it has not grown (LocalRefinement.cpp:343).
OverloadNeverGrows ==
  \A p \in PE : \/ WeightOf(NodeWeight, block[p]) <= Capacity
                \/ WeightOf(NodeWeight, block[p])
                     = WeightOf(NodeWeight, StartBlock[p])

\* The blocks always form a partition: every node has exactly one owner.
OneOwner ==
  \A n \in Node : \E p \in PE :
    n \in block[p] /\ \A q \in PE \ {p} : n \notin block[q]
=============================================================================
