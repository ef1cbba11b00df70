------------------------------ MODULE CommTree ------------------------------
(***************************************************************************)
(* The tree of processors (CommTree.h, CommTree.cpp).  A node carries its  *)
(* label (the path from the root), the ids of the leaves below it, the     *)
(* number of its direct children and its weights.  A tree is the sequence  *)
(* of its levels, from the root to the leaves.                             *)
(***************************************************************************)
EXTENDS Integers, SequencesExt

Leaf(id, label, w) == [label |-> label, kids |-> <<id>>, n |-> 0, w |-> w]

\* operator+=: the weights add up, the other's leaves come first.
Plus(a, b) ==
  [a EXCEPT !.kids = b.kids \o @, !.n = @ + 1, !.w = [i \in DOMAIN @ |-> @[i] + b.w[i]]]

\* Nodes whose labels agree but for the last entry have the same father; the
\* fathers come in the order of their first children.
PrefixMut(label) == SubSeq(label, 2, Len(label))
Prefix(label) == Front(label)
CreateLevelAbove(below) ==
  LET Family(i) == SelectSeq(below, LAMBDA c : Prefix(c.label) = Prefix(below[i].label))
      Father(i) == FoldLeft(Plus, [below[i] EXCEPT !.label = Prefix(@), !.n = 1], Tail(Family(i)))
      First(i) == \A j \in 1 .. (i - 1) : Prefix(below[j].label) # Prefix(below[i].label)
      firsts == SelectSeq([i \in DOMAIN below |-> i], First)
  IN [f \in DOMAIN firsts |-> Father(firsts[f])]

CreateTreeFromLeaves(leaves) ==
  LET depth == Len(leaves[1].label)
      up[h \in 0 .. depth] == IF h = 0 THEN <<leaves>> ELSE <<CreateLevelAbove(up[h - 1][1])>> \o up[h - 1]
  IN up[depth]

\* A homogeneous tree: levels[i] children at level i; labels count up like a
\* number whose digits have the bases levels.
LevelLabels(levels) ==
  LET numLevels == Len(levels)
      stride[h \in 1 .. numLevels] == IF h = numLevels THEN 1 ELSE stride[h + 1] * levels[h + 1]
      Label(i) == [h \in 1 .. numLevels |-> (i \div stride[h]) % levels[h]]
  IN [i \in 1 .. (stride[1] * levels[1]) |-> Label(i - 1)]
CreateFromLevels(levels) ==
  CreateTreeFromLeaves([i \in DOMAIN LevelLabels(levels) |-> Leaf(i - 1, LevelLabels(levels)[i], <<1>>)])

\* A flat tree whose leaves have the given sizes, one row for each weight.
CreateFlat(sizes) ==
  CreateTreeFromLeaves([i \in DOMAIN sizes[1] |->
                          Leaf(i - 1, <<i - 1>>, [w \in DOMAIN sizes |-> sizes[w][i]])])

Leaves(tree) == Last(tree)
WeightSum(level, w) == FoldLeft(LAMBDA sum, c : sum + c.w[w], 0, level)

\* Proportional weights of the leaves are scaled to the weight of the graph;
\* a weight that is not proportional must have room for it.
AdaptFails(tree, total, isProp) ==
  \E w \in DOMAIN isProp : ~isProp[w] /\ WeightSum(Leaves(tree), w) < total[w]
AdaptWeights(tree, total, isProp) ==
  LET Scaled(c, w) == IF isProp[w] THEN (c.w[w] * total[w]) \div WeightSum(Leaves(tree), w) ELSE c.w[w]
  IN CreateTreeFromLeaves([i \in DOMAIN Leaves(tree) |->
       [Leaves(tree)[i] EXCEPT !.w = [w \in DOMAIN @ |-> Scaled(Leaves(tree)[i], w)]]])

\* How far two labels of a level are apart.
Distance(a, b) == Len(a) - Max({0} \cup {i \in DOMAIN a : SubSeq(a, 1, i) = SubSeq(b, 1, i)})

\* exportAsGraph_local: the complete graph of the leaves and their distances.
ExportAsGraph(leaves) ==
  [i \in DOMAIN leaves |-> [j \in DOMAIN leaves \ {i} |-> Distance(leaves[i].label, leaves[j].label)]]

\* getGrouping: how many nodes of a level each father has.
GetGrouping(level) == LET above == CreateLevelAbove(level) IN [f \in DOMAIN above |-> above[f].n]

\* checkTree with all its tests.
CheckTree(tree) ==
  /\ Len(tree[1]) = 1 /\ Len(tree[1][1].kids) = Len(Leaves(tree))
  /\ \A h \in DOMAIN tree :
       /\ \A c \in ToSet(tree[h]) : Len(c.label) = h - 1 /\ DOMAIN c.w = DOMAIN tree[1][1].w
       /\ \A w \in DOMAIN tree[1][1].w : WeightSum(tree[h], w) = WeightSum(Leaves(tree), w)
=============================================================================
