------------------------------ MODULE EdgeList ------------------------------
(***************************************************************************)
(* GraphUtils::edgeList2CSR: from the edges each process has read to a     *)
(* graph of which each process holds whole nodes.  A pair is one direction *)
(* of an edge; pairs is a function from the processes 0, 1, ... to their   *)
(* sequences of pairs.                                                     *)
(***************************************************************************)
EXTENDS Integers, SequencesExt

Doubled(edges) == FlattenSeq([i \in DOMAIN edges |-> <<edges[i], Reverse(edges[i])>>])

PairLess(a, b) == a[1] < b[1] \/ (a[1] = b[1] /\ a[2] < b[2])

\* The distributed sort leaves as many pairs on a process as it had.
SortShares(pairs) ==
  LET last == Max(DOMAIN pairs)
      until[q \in -1 .. last] == IF q = -1 THEN 0 ELSE until[q - 1] + Len(pairs[q])
      all == SortSeq(FlattenSeq([i \in 1 .. (last + 1) |-> pairs[i - 1]]), PairLess)
  IN [q \in DOMAIN pairs |-> SubSeq(all, until[q - 1] + 1, until[q])]

HasGap(list) == \E i \in 1 .. (Len(list) - 1) : list[i + 1][1] > list[i][1] + 1

OfLastNode(list) == SelectSeq(list, LAMBDA e : e[1] = Last(list)[1])
OfOtherNodes(list) == SelectSeq(list, LAMBDA e : e[1] # Last(list)[1])

\* Every process but the last hands all pairs of its last node to the next
\* one, which puts them before its own; then double pairs are removed.  (On a
\* process with pairs of one node only the code looks for that node beyond
\* the first pair as well, where none is.)
PassLast(pairs) ==
  [q \in DOMAIN pairs |->
     (IF q = 0 THEN <<>> ELSE OfLastNode(pairs[q - 1]))
       \o (IF q = Max(DOMAIN pairs) THEN pairs[q] ELSE OfOtherNodes(pairs[q]))]
InOrder(list) == IsSorted(list, LAMBDA a, b : ~PairLess(b, a))
Unique(list) ==
  LET kept == SelectSeq([i \in DOMAIN list |-> i], LAMBDA i : i = 1 \/ list[i] # list[i - 1])
  IN [i \in DOMAIN kept |-> list[kept[i]]]

\* The number of steps from the first to the last node, over all processes
\* and between them, must be the largest node.
MaxNode(pairs) == Max({e[1] : e \in UNION {ToSet(pairs[q]) : q \in DOMAIN pairs}})
CheckSum(pairs) ==
  FoldFunction(+, 0, [q \in DOMAIN pairs |-> Last(pairs[q])[1] - pairs[q][1][1]]) + Cardinality(DOMAIN pairs) - 1
=============================================================================
