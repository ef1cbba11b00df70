------------------------- MODULE MCRefinementSetup -------------------------
(***************************************************************************)
(* What precedes the local refinement: the renumbering of the blocks, and  *)
(* the communication rounds.  A behaviour is one of either; the variables  *)
(* of the other stay as they are after it.                                 *)
(*                                                                         *)
(* Renumbering: three processes with at most MaxPoints points each, every  *)
(* matrix of local sizes in which block 0 and the last block exist, as the *)
(* code asserts.  A process may have no points.  Rounds: every weighted    *)
(* graph of N blocks.                                                      *)
(***************************************************************************)
EXTENDS BlockClaims, CommScheme, FiniteSetsExt

CONSTANT MaxPoints

Rows == {r \in [Block -> 0 .. MaxPoints] :
           MapThenSumSet(LAMBDA b : r[b], Block) <= MaxPoints}

AllSizes ==
  {s \in [PE -> Rows] : \A b \in {0, P - 1} : \E p \in PE : s[p][b] > 0}

\* Every process has the block of its own number.
Renumbered ==
  /\ size = [p \in PE |-> [b \in Block |-> 0]] /\ points = size
  /\ mapped = PE /\ available = {}
  /\ finalMapping = [p \in PE |-> p]
  /\ claim = [p \in PE |-> NoClaim]
  /\ pc = [p \in PE |-> "done"]

\* The scheme of a block graph without edges.
Delivered ==
  /\ weight = [e \in Pair |-> 0] /\ maxDegree = 0
  /\ edgesColor = [e \in {} |-> 0] /\ colored = {} /\ colors = 0
  /\ scheme = <<>> /\ paired = {} /\ stage = "done"

SetupInit == (Init /\ Delivered) \/ (SchemeInit /\ Renumbered)

SetupNext == \/ Next /\ UNCHANGED schemeVars
             \/ SchemeNext /\ UNCHANGED vars

SetupSpec == /\ SetupInit /\ [][SetupNext]_<<vars, schemeVars>>
             /\ WF_schemeVars(SchemeNext /\ UNCHANGED vars)
=============================================================================
