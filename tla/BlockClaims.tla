----------------------------- MODULE BlockClaims ----------------------------
(***************************************************************************)
(* The renumbering of the blocks before the local refinement               *)
(* (aux::redistributeFromPartition with renumberPEs): every process wants  *)
(* the number of a block it already holds much of.  In every round each    *)
(* process claims one block, a global sum shows all claims to all          *)
(* processes, and a claimed block goes to the largest claim.  Rounds go on *)
(* until every process has a block.                                        *)
(*                                                                         *)
(* mapped, available and finalMapping are kept by each process, but are    *)
(* computed by all from the same sums, so one copy stands for all of them. *)
(***************************************************************************)
EXTENDS Naturals, FiniteSets

CONSTANTS P,          \* number of processes and of blocks
          BlockSizes  \* the possible numbers of local points of each block

PE == 0 .. (P - 1)
Block == 0 .. (P - 1)

ASSUME ClaimsAssumption ==
  P \in Nat \ {0} /\ BlockSizes \subseteq [PE -> [Block -> Nat]]

VARIABLES
  size,          \* blockSizes of every process before the renumbering
  mapped,        \* mappedPEs
  available,     \* availableIDs
  finalMapping,
  claim,         \* what each process has put into the two global sums
  pc,
  points         \* local points of each block, renumbered at the end

vars == <<size, mapped, available, finalMapping, claim, pc, points>>

NoClaim == [id |-> 0, size |-> 0]

\* The heaviest available blocks of which p has points.  Blocks never become
\* available again, so the code's walk down the sorted list of blocks, which
\* leaves the order of equal sizes open, stops at one of these.
Preferred(p) ==
  {b \in available : size[p][b] > 0 /\ \A c \in available : size[p][c] <= size[p][b]}

Init ==
  /\ size \in BlockSizes
  /\ mapped = {}
  /\ available = Block
  /\ finalMapping = [p \in PE |-> 0]
  /\ claim = [p \in PE |-> NoClaim]
  /\ pc = [p \in PE |-> "claim"]
  /\ points = size

Enter(p, id, weight) ==
  /\ claim' = [claim EXCEPT ![p] = [id |-> id, size |-> weight]]
  /\ pc' = [pc EXCEPT ![p] = "sum"]
  /\ UNCHANGED <<size, mapped, available, finalMapping, points>>

\* A process that has a block repeats its choice; the size is its rank.
ClaimAgain(p) == pc[p] = "claim" /\ p \in mapped /\ Enter(p, finalMapping[p], p)

ClaimPreferred(p) ==
  /\ pc[p] = "claim" /\ p \notin mapped
  /\ \E b \in Preferred(p) : Enter(p, b, size[p][b])

\* All blocks that p has points of are taken: it claims one drawn at random,
\* or the next one available.  The size it sends is its rank.
ClaimAny(p) ==
  /\ pc[p] = "claim" /\ p \notin mapped /\ Preferred(p) = {}
  /\ \E b \in available : Enter(p, b, p)

Claimed == {claim[p].id : p \in PE}

Claimants(b) == {p \in PE : claim[p].id = b}

\* p can be the last of the claims on its block when they are sorted by size.
MayWin(p) == \A q \in Claimants(claim[p].id) : claim[q].size <= claim[p].size

\* (The mutant forgets the process that is last in the sorted list.)
WinnersMut(W) ==
  LET last == CHOOSE b \in Claimed : \A c \in Claimed : c <= b
  IN  /\ \A p \in W : MayWin(p)
      /\ \A b \in Claimed \ {last} : \E p \in W : claim[p].id = b
      /\ \A p, q \in W : claim[p].id = claim[q].id => p = q
      /\ \A p \in W : claim[p].id # last

\* One process for each block that is claimed.  The order of equal claims is
\* open, but it is the same on all processes.
Winners(W) ==
  /\ \A p \in W : MayWin(p)
  /\ \A b \in Claimed : \E p \in W : claim[p].id = b
  /\ \A p, q \in W : claim[p].id = claim[q].id => p = q

\* (The mutant leaves the blocks available.)
TakenMut(W) == {}

Taken(W) == {claim[p].id : p \in W}

\* The global sums, in which every process waits for all others, and the
\* resolution of conflicts.
Resolve ==
  /\ \A p \in PE : pc[p] = "sum"
  /\ \E W \in SUBSET PE :
       /\ Winners(W)
       /\ finalMapping' = [p \in PE |-> IF p \in W THEN claim[p].id
                                                   ELSE finalMapping[p]]
       /\ mapped' = mapped \cup W
       /\ available' = available \ Taken(W)
       /\ pc' = [p \in PE |-> IF mapped' = PE THEN "renumber" ELSE "claim"]
  /\ claim' = [p \in PE |-> NoClaim]
  /\ UNCHANGED <<size, points>>

\* p renumbers its part of the partition: the block that q has claimed becomes
\* block q.
Renumber(p) ==
  /\ pc[p] = "renumber"
  /\ pc' = [pc EXCEPT ![p] = "done"]
  /\ points' = [points EXCEPT ![p] = [q \in Block |-> points[p][finalMapping[q]]]]
  /\ UNCHANGED <<size, mapped, available, finalMapping, claim>>

Returned == (\A p \in PE : pc[p] = "done") /\ UNCHANGED vars

Step(p) == ClaimAgain(p) \/ ClaimPreferred(p) \/ ClaimAny(p) \/ Renumber(p)

Next == (\E p \in PE : Step(p)) \/ Resolve \/ Returned

\* Every process keeps running.
Spec == /\ Init /\ [][Next]_vars
        /\ \A p \in PE : WF_vars(Step(p))
        /\ WF_vars(Resolve)
-----------------------------------------------------------------------------
TypeOK ==
  /\ size \in [PE -> [Block -> Nat]]
  /\ mapped \subseteq PE
  /\ available \subseteq Block
  /\ finalMapping \in [PE -> Block]
  /\ claim \in [PE -> [id : Block, size : Nat]]
  /\ pc \in [PE -> {"claim", "sum", "renumber", "done"}]
  /\ points \in [PE -> [Block -> Nat]]

\* No two processes ever hold the same block, and the blocks nobody holds are
\* exactly the available ones, so that a process that draws one at random finds
\* one and can keep it.
OneBlockEach ==
  /\ \A p, q \in mapped : finalMapping[p] = finalMapping[q] => p = q
  /\ available = Block \ {finalMapping[p] : p \in mapped}

\* When the loop ends, every block number has been given to a process
\* (the assertion of AuxiliaryFunctions.cpp:166 checks the sum only).
MappingComplete ==
  mapped = PE => \A b \in Block : \E p \in PE : finalMapping[p] = b

\* A process that has a block keeps it, although all claims are gathered anew
\* in every round (AuxiliaryFunctions.cpp:89).
MappedStays ==
  [][\A p \in mapped : p \in mapped' /\ finalMapping'[p] = finalMapping[p]]_vars

\* Every round of claims maps at least one process more, whatever the sizes
\* and however ties are broken.
EveryRoundMaps == [][Resolve => mapped' # mapped]_vars

=============================================================================
