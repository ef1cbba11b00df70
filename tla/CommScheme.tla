----------------------------- MODULE CommScheme -----------------------------
(***************************************************************************)
(* The communication rounds of the local refinement.  The weighted graph   *)
(* of adjacent blocks is edge-coloured greedily, heaviest edge first       *)
(* (GraphUtils::mecGraphColoring), and every colour becomes one round in   *)
(* which each process is paired with the other end of its edge of that     *)
(* colour, or idles (ParcoRepart::getCommunicationPairs_local).  Every     *)
(* process runs this on the same replicated matrix.                        *)
(***************************************************************************)
EXTENDS Naturals, FiniteSets

CONSTANTS N,          \* number of blocks (= number of processes)
          MaxWeight   \* bound on the weight of an edge of the block graph

ASSUME NAssumption == N \in Nat \ {0} /\ MaxWeight \in Nat

Blocks == 0 .. (N - 1)

\* The upper triangle of the matrix: what CSR2EdgeList_local keeps.
Pair == {e \in Blocks \X Blocks : e[1] < e[2]}

VARIABLES
  weight,      \* the block graph: 0 stands for "no edge"; never changes
  maxDegree,   \* longest row of the matrix; never changes
  edgesColor,  \* colour of each edge, Uncolored until it is processed
  colored,     \* the edges entered in retCol so far
  colors,      \* number of colours used so far
  scheme,      \* scheme[round][block]: the partner of the block
  paired,      \* the edges already written into the scheme
  stage

schemeVars == <<weight, maxDegree, edgesColor, colored, colors, scheme, paired, stage>>

Edges == {e \in Pair : weight[e] > 0}

Meets(e, b) == e[1] = b \/ e[2] = b

Adjacent(e, f) == e # f /\ \E b \in Blocks : Meets(e, b) /\ Meets(f, b)

Degree(b) == Cardinality({e \in Edges : Meets(e, b)})

\* A wrong initial colour, too small for the scan to find a free one.
UncoloredMut == maxDegree

\* The initial colour of every edge, larger than any colour that is handed out.
Uncolored == 2 * maxDegree

UsedColors(e) == {edgesColor[f] : f \in {g \in Edges : Adjacent(e, g)}}

\* The scan over the sorted used colours stops at the first gap.
IsFreeColor(c, e) == /\ c \notin UsedColors(e)
                     /\ \A d \in 0 .. (c - 1) : d \in UsedColors(e)

\* The number of colours in use once colour c is.
ColorsWith(c) == IF c >= colors THEN c + 1 ELSE colors

-----------------------------------------------------------------------------
SchemeInit ==
  /\ weight \in [Pair -> 0 .. MaxWeight]
  /\ maxDegree \in 0 .. N
  /\ \A b \in Blocks : Degree(b) <= maxDegree
  /\ \E b \in Blocks : Degree(b) = maxDegree
  /\ edgesColor = [e \in Edges |-> Uncolored]
  /\ colored = {}
  /\ colors = 0
  /\ scheme = <<>>
  /\ paired = {}
  /\ stage = "colour"

\* Without the sort of the edge list.
ColorEdgeMut(e) ==
  /\ stage = "colour"
  /\ e \in Edges \ colored
  /\ \E c \in 0 .. (2 * N) :
       /\ c < Uncolored
       /\ IsFreeColor(c, e)
       /\ edgesColor' = [edgesColor EXCEPT ![e] = c]
       /\ colors' = ColorsWith(c)
  /\ colored' = colored \cup {e}
  /\ UNCHANGED <<weight, maxDegree, scheme, paired, stage>>

\* The edges come in order of falling weight; std::sort leaves the order of
\* equal weights open.  A colour of 2*maxDegree or more fails an assertion
\* (0 .. 2*N only spans all colours, no degree exceeds N).
ColorEdge(e) ==
  /\ stage = "colour"
  /\ e \in Edges \ colored
  /\ \A f \in Edges \ colored : weight[f] <= weight[e]
  /\ \E c \in 0 .. (2 * N) :
       /\ c < Uncolored
       /\ IsFreeColor(c, e)
       /\ edgesColor' = [edgesColor EXCEPT ![e] = c]
       /\ colors' = ColorsWith(c)
  /\ colored' = colored \cup {e}
  /\ UNCHANGED <<weight, maxDegree, scheme, paired, stage>>

\* All rounds start with every block paired with itself.
AllocateScheme ==
  /\ stage = "colour"
  /\ colored = Edges
  /\ scheme' = [r \in 0 .. (colors - 1) |-> [b \in Blocks |-> b]]
  /\ stage' = "pair"
  /\ UNCHANGED <<weight, maxDegree, edgesColor, colored, colors, paired>>

\* Only one direction of the pair is written.
SetPairMut(e) ==
  /\ stage = "pair"
  /\ e \in colored \ paired
  /\ scheme' = [scheme EXCEPT ![edgesColor[e]][e[1]] = e[2]]
  /\ paired' = paired \cup {e}
  /\ UNCHANGED <<weight, maxDegree, edgesColor, colored, colors, stage>>

SetPair(e) ==
  /\ stage = "pair"
  /\ e \in colored \ paired
  /\ scheme' = [scheme EXCEPT ![edgesColor[e]][e[1]] = e[2],
                              ![edgesColor[e]][e[2]] = e[1]]
  /\ paired' = paired \cup {e}
  /\ UNCHANGED <<weight, maxDegree, edgesColor, colored, colors, stage>>

Return ==
  /\ stage = "pair"
  /\ paired = colored
  /\ stage' = "done"
  /\ UNCHANGED <<weight, maxDegree, edgesColor, colored, colors, scheme, paired>>

\* The function has returned, or the assertion "Color too large" has failed.
Stopped ==
  /\ \/ stage = "done"
     \/ /\ stage = "colour"
        /\ \E e \in Edges \ colored :
              \A c \in 0 .. (Uncolored - 1) : ~ IsFreeColor(c, e)
  /\ UNCHANGED schemeVars

SchemeNext == \/ \E e \in Pair : ColorEdge(e) \/ SetPair(e)
        \/ AllocateScheme
        \/ Return
        \/ Stopped

SchemeSpec == SchemeInit /\ [][SchemeNext]_schemeVars /\ WF_schemeVars(SchemeNext)

-----------------------------------------------------------------------------
SchemeTypeOK ==
  /\ weight \in [Pair -> 0 .. MaxWeight]
  /\ maxDegree \in 0 .. N
  /\ edgesColor \in [Edges -> 0 .. (2 * N)]
  /\ colored \subseteq Edges
  /\ paired \subseteq colored
  /\ colors \in Nat
  /\ \A e \in colored : edgesColor[e] < colors
  /\ \/ stage = "colour" /\ paired = {}
     \/ /\ stage \in {"pair", "done"}
        /\ colored = Edges
        /\ scheme \in [0 .. (colors - 1) -> [Blocks -> Blocks]]

\* Two adjacent edges never get the same colour, so no process is asked to
\* refine against two partners in one round (mecGraphColoring looks at the
\* edges of both end points before it picks a colour).
ProperColoring ==
  \A e, f \in colored : Adjacent(e, f) => edgesColor[e] # edgesColor[f]

\* In every round the partner relation is symmetric: the partner of my partner
\* is me.  A round without this leaves a process waiting in a swap for ever;
\* distributedFMStep can check it only when the partner's entry is local.
RoundsArePairings ==
  stage = "done" => \A r \in DOMAIN scheme : \A b \in Blocks :
                   scheme[r][scheme[r][b]] = b

\* Heavy borders first: an edge waits for a later round only because in each
\* earlier round one of its two blocks is busy with a border at least as heavy.
HeavierBordersFirst ==
  \A e \in colored : \A c \in 0 .. (edgesColor[e] - 1) :
     \E f \in colored : /\ Adjacent(e, f)
                        /\ edgesColor[f] = c
                        /\ weight[f] >= weight[e]

\* The colouring never runs out of colours below 2*maxDegree (the assertion
\* "Color too large" cannot fail): the scheme is always delivered.
SchemeDelivered == <>(stage = "done")

=============================================================================
