---------------------------- MODULE MultiSection ----------------------------
(***************************************************************************)
(* Multisection (MultiSection.h, MultiSection.cpp): a rectangle is cut     *)
(* into parts of nearly equal weight, and its parts again, until there is  *)
(* one rectangle for each block.  Coordinates are the scaled integers.     *)
(*                                                                         *)
(* A point is a record with its coordinates xy, a tuple, and its weight w. *)
(* A rectangle holds its corners, both inclusive.  The summation of the    *)
(* local projections over the processes is the sum over all points.        *)
(***************************************************************************)
EXTENDS Integers, Sequences, FiniteSetsExt, SequencesExt

Weight(points) == FoldSet(LAMBDA p, sum : sum + p.w, 0, points)

-----------------------------------------------------------------------------
(* Rectangles, and the tree rectCell that holds them.                      *)

Owns(rect, xy) == \A d \in DOMAIN xy : rect.bottom[d] <= xy[d] /\ xy[d] <= rect.top[d]

IsInside(rect, outer) ==
  \A d \in DOMAIN rect.bottom : outer.bottom[d] <= rect.bottom[d] /\ rect.top[d] <= outer.top[d]

Cell(rect) == [rect |-> rect, children |-> <<>>]

\* A rectangle goes to the first child it fits into.
RECURSIVE Insert(_, _)
Insert(cell, rect) ==
  LET fits == {c \in DOMAIN cell.children : IsInside(rect, cell.children[c].rect)}
  IN IF fits = {}
     THEN [cell EXCEPT !.children = Append(@, Cell(rect))]
     ELSE [cell EXCEPT !.children[Min(fits)] = Insert(@, rect)]

\* The leaves in the order of their numbers.
RECURSIVE Leaves(_)
Leaves(cell) ==
  IF cell.children = <<>> THEN <<cell.rect>>
  ELSE FlattenSeq([c \in DOMAIN cell.children |-> Leaves(cell.children[c])])

\* The number of the leaf that the descent for a point ends in.
RECURSIVE ContainingLeaf(_, _)
ContainingLeaf(cell, xy) ==
  IF cell.children = <<>> THEN 0
  ELSE LET c == Min({d \in DOMAIN cell.children : Owns(cell.children[d].rect, xy)})
           before == FlattenSeq([d \in 1 .. (c - 1) |-> Leaves(cell.children[d])])
       IN Len(before) + ContainingLeaf(cell.children[c], xy)

-----------------------------------------------------------------------------
(* Optimal cuts of a line of weights (partition1DOptimal, probe): n slots  *)
(* with the weights in front of each in prefix, a function on 0 .. n.      *)

PrefixSums(weights) ==
  LET prefix[i \in 0 .. Len(weights)] == IF i = 0 THEN 0 ELSE prefix[i - 1] + weights[i]
  IN prefix

\* Can k parts of at most target cover the line?  Each part ends just before
\* the first slot at which the sum is reached, looked for in strides.
Probe(prefix, n, k, target) ==
  LET stride == (n + 1) \div k
      Reached(step, sum) ==
        Min({s \in {Min({step + j * stride, n}) : j \in 0 .. n} : prefix[s] >= sum})
      NextPart(part) ==
        LET step == Reached(part.step, part.sum)
            splitter == Min({i \in (step - stride) .. (step - 1) : prefix[i] >= part.sum} \cup {step}) - 1
        IN [step |-> step, sum |-> prefix[splitter] + target]
      parts[p \in 1 .. k] ==
        IF p = 1 THEN [step |-> stride, sum |-> target]
        ELSE LET before == parts[p - 1]
             IN IF before.sum < prefix[n] THEN NextPart(before) ELSE before
  IN k * target >= prefix[n] /\ parts[k].sum >= prefix[n]

\* The search for the end of the part that starts at slot from.  The lower
\* bound starts at the average and is kept multiplied by k.
RECURSIVE Bisect(_, _, _, _, _)
Bisect(prefix, n, k, from, s) ==
  LET mid == (s.low + s.high) \div 2
      sum == prefix[mid] - prefix[from]
      open == s.kLower <= k * sum /\ sum < s.upper
      covers == Probe(prefix, n, k, sum)
  IN IF s.low >= s.high THEN s
     ELSE Bisect(prefix, n, k, from,
            IF open /\ covers THEN [s EXCEPT !.high = mid, !.upper = sum]
            ELSE IF open THEN [s EXCEPT !.low = mid + 1, !.kLower = k * sum]
            ELSE IF sum >= s.upper THEN [s EXCEPT !.high = mid]
            ELSE [s EXCEPT !.low = mid + 1])

\* The first slot of each of the k parts.
PartIndicesWithout(prefix, n, k, back) ==
  LET found[p \in 1 .. k] ==
        IF p = 1 THEN [first |-> 0, kLower |-> prefix[n], upper |-> prefix[n]]
        ELSE LET last == found[p - 1]
                 s == Bisect(prefix, n, k, last.first,
                             [low |-> last.first, high |-> n, kLower |-> last.kLower, upper |-> last.upper])
             IN [first |-> s.high - back, kLower |-> s.kLower, upper |-> s.upper]
  IN [p \in 1 .. k |-> found[p].first]
PartIndicesMut(prefix, n, k) == PartIndicesWithout(prefix, n, k, 0)
PartIndices(prefix, n, k) == PartIndicesWithout(prefix, n, k, 1)

\* probe never ends when its stride is 0.
ProbeEnds(n, k) == n + 1 >= k

-----------------------------------------------------------------------------
(* One round: every leaf is cut along its longest side.                    *)

Extent(rect, d) == rect.top[d] - rect.bottom[d]
\* The first longest side, 0 if every side is a single cell.
ChosenDim(rect) ==
  LET longest == Max({Extent(rect, d) : d \in DOMAIN rect.top})
  IN IF longest = 0 THEN 0 ELSE Min({d \in DOMAIN rect.top : Extent(rect, d) = longest})

Slot(rect, d, xy) == xy[d] - rect.bottom[d] + 1
Projection(rect, d, points) ==
  [i \in 1 .. (Extent(rect, d) + 1) |->
     Weight({p \in points : Owns(rect, p.xy) /\ Slot(rect, d, p.xy) = i})]

\* The parts of a leaf; each part but the last ends where the next one starts.
Parts(rect, cuts, points) ==
  LET d == ChosenDim(rect)
      line == Projection(rect, d, points)
      prefix == PrefixSums(line)
      n == Len(line)
      first == PartIndices(prefix, n, cuts)
      Beyond(h) == IF h = cuts THEN n ELSE first[h + 1]
  IN [h \in 1 .. cuts |->
        [bottom |-> [rect.bottom EXCEPT ![d] = rect.bottom[d] + first[h]],
         top |-> [rect.top EXCEPT ![d] = rect.bottom[d] + Beyond(h) - 1],
         weight |-> prefix[Beyond(h)] - prefix[first[h]]]]

\* A round fails on every process alike: a leaf without extent has no
\* direction, a line that is too short keeps probe from ending, a line without
\* weight makes it read in front of the sums, and, off the uniform grid, a
\* part without weight is refused.
RoundFails(leaves, cuts, points, uniform) ==
  \E l \in DOMAIN leaves :
     LET d == ChosenDim(leaves[l])
     IN \/ d = 0
        \/ leaves[l].weight = 0
        \/ ~ProbeEnds(Extent(leaves[l], d) + 1, cuts)
        \/ ~uniform /\ \E part \in Range(Parts(leaves[l], cuts, points)) : part.weight = 0

CutRound(root, cuts, points) ==
  LET leaves == Leaves(root)
  IN FoldLeft(LAMBDA cell, rect : Insert(cell, rect), root,
              FlattenSeq([l \in DOMAIN leaves |-> Parts(leaves[l], cuts, points)]))

-----------------------------------------------------------------------------
(* The cuts of each round, the coordinates and the outer rectangle.        *)

\* As many cuts in every dimension, the user's own ones, or bisections.
NumCuts(k, dim, cutsPerDim, bisect) ==
  IF bisect THEN [r \in 1 .. (CHOOSE e \in 0 .. k : 2 ^ e = k) |-> 2]
  ELSE IF cutsPerDim # <<>> THEN cutsPerDim
  ELSE [d \in 1 .. dim |-> CHOOSE c \in 1 .. k : c ^ dim = k]

CutsExist(k, dim, cutsPerDim, bisect) ==
  IF bisect THEN \E e \in 0 .. k : 2 ^ e = k
  ELSE IF cutsPerDim # <<>> THEN Len(cutsPerDim) = dim
  ELSE \E c \in 1 .. k : c ^ dim = k

\* floor((n - 1)^(1/dim) * offset / extent): the place of a coordinate on the
\* integer scale, in exact arithmetic.
Scaled(offset, extent, n, dim) ==
  Max({c \in 0 .. n : (c * extent) ^ dim <= (n - 1) * offset ^ dim})

ScaledMax(n, dim) == Scaled(1, 1, n, dim)

ScalePoints(raw, n, dim) ==
  LET low == [d \in 1 .. dim |-> Min({p.xy[d] : p \in raw})]
      high == [d \in 1 .. dim |-> Max({p.xy[d] : p \in raw})]
  IN [p \in raw |->
        [d \in 1 .. dim |-> Scaled(p.xy[d] - low[d], high[d] - low[d], n, dim)]]

\* The cell of a uniform grid at a global index (indexTo2D, indexTo3D).
IndexToCoords(index, side, dim) ==
  [d \in 1 .. dim |-> (index \div side ^ (dim - d)) % side]

Root(dim, top, points) ==
  Cell([bottom |-> [d \in 1 .. dim |-> 0], top |-> [d \in 1 .. dim |-> top], weight |-> Weight(points)])
=============================================================================
