-------------------------- MODULE InitialPartition --------------------------
(***************************************************************************)
(* The geometric start of ParcoRepart::partitionGraph: P processes with    *)
(* their share of the points agree on a first partition, by a space-       *)
(* filling curve, by multisection or by growing blocks over pixels, or     *)
(* move the points along the curve before k-means (HilbertCurve.cpp,       *)
(* MultiSection.cpp, ParcoRepart.cpp).                                     *)
(*                                                                         *)
(* A process runs alone up to the next collective operation and may throw  *)
(* on the way; the operation happens when all have entered it.  What every *)
(* process computes alike from the result is one action of all.            *)
(***************************************************************************)
EXTENDS MultiSection, SpaceFillingCurve

CONSTANTS
  P,       \* number of processes
  Inputs   \* the points, each with its id, xy, w and home, and the settings

VARIABLES
  input,       \* the input
  pc,          \* where each process is
  held,        \* the points each process holds
  curve,       \* the curve index of each point, and recvThresholds, the index
               \* at which the sorted share of each process starts
  tree, cuts,  \* multisection: the tree of rectangles and the rounds to come
  pixels,      \* pixels: what is left of the density, the blocks, the growing block
  part         \* the resulting block of each point
vars == <<input, pc, held, curve, tree, cuts, pixels, part>>

PE == 0 .. (P - 1)
All == input.points
Dim == input.dim
Chosen(tool) == input.tool = tool
Everybody(where) == \A p \in PE : pc[p] = where
Together(where) == pc' = [p \in PE |-> where]

\* Every process holds a point, and the points span the space.
Init ==
  /\ input \in Inputs
  /\ pc = [p \in PE |-> "start"]
  /\ held = [p \in PE |-> {x \in input.points : x.home = p}]
  /\ curve = <<>> /\ tree = <<>> /\ cuts = <<>> /\ pixels = <<>> /\ part = <<>>

-----------------------------------------------------------------------------
(* The curve.                                                              *)

\* A wrong number of blocks is an error on process 0 only.
Refuses(p) == p = 0 /\ input.k # P /\ input.tool \in {"sfc", "pixel"}

Enter(p) ==
  /\ pc[p] = "start"
  /\ pc' = [pc EXCEPT ![p] = IF Refuses(p) THEN "threw" ELSE "entered"]
  /\ UNCHANGED <<input, held, curve, tree, cuts, pixels, part>>

Indices == [x \in All |-> CurveIndex(x, All, input.depth)]
Sorted(index) ==
  LET Ahead(x) == {y \in All : index[y] < index[x] \/ (index[y] = index[x] /\ y.id < x.id)}
      place == [x \in All |-> Cardinality(Ahead(x)) + 1]
  IN [i \in 1 .. Cardinality(All) |-> CHOOSE x \in All : place[x] = i]

\* The distributed sort leaves as many pairs on a process as it held before.
Before(p) == Cardinality({x \in All : x.home < p})
Share(order, p) == SubSeq(order, Before(p) + 1, Before(p + 1))

\* HilbertCurve::computePartition: each sorted share becomes a block.
CurvePartition ==
  /\ Everybody("entered") /\ Chosen("sfc")
  /\ LET order == Sorted(Indices)
     IN part' = [x \in All |-> IF P = 1 THEN 0 ELSE CHOOSE p \in PE : Contains(Share(order, p), x)]
  /\ Together("done")
  /\ UNCHANGED <<input, held, curve, tree, cuts, pixels>>

\* HilbertCurve::redistribute: sort, tell everybody where the shares start,
\* and tell everybody how many points will come.
Announce ==
  /\ Everybody("entered") /\ Chosen("kmeans")
  /\ \E index \in {Indices} :
       LET order == Sorted(index)
       IN curve' = [index |-> index, starts |-> [p \in PE |-> index[Share(order, p)[1]]]]
  /\ Together("announced")
  /\ UNCHANGED <<input, held, tree, cuts, pixels, part>>

\* A point goes to the last process whose share starts at or before it.
TargetMut(x) == Max({0} \cup {p \in PE : p > 0 /\ curve.starts[p] < curve.index[x]})
Target(x) == Max({0} \cup {p \in PE : p > 0 /\ curve.starts[p] <= curve.index[x]})
Coming(p) == {x \in All : Target(x) = p}

\* A process that will hold nothing throws; the others go on to the exchange.
CheckShare(p) ==
  /\ pc[p] = "announced"
  /\ pc' = [pc EXCEPT ![p] = IF Coming(p) = {} THEN "threw" ELSE "exchanging"]
  /\ UNCHANGED <<input, held, curve, tree, cuts, pixels, part>>

\* Equal weights do not travel: the receiver takes its own first one.
Unweighted == \A x, y \in All : x.w = y.w
Received(p) ==
  IF Unweighted THEN {[x EXCEPT !.w = (CHOOSE y \in held[p] : TRUE).w] : x \in Coming(p)}
  ELSE Coming(p)

Exchange ==
  /\ Everybody("exchanging")
  /\ held' = [p \in PE |-> Received(p)]
  /\ Together("done")
  /\ UNCHANGED <<input, curve, tree, cuts, pixels, part>>

-----------------------------------------------------------------------------
(* Multisection.                                                           *)

Uniform == input.side > 0

\* Off the uniform grid the coordinates are scaled; on it the global index
\* is the place.
PlacesOnGrid ==
  IF Uniform THEN {[x EXCEPT !.xy = IndexToCoords(x.id, input.side, Dim)] : x \in All}
  ELSE LET scaled == ScalePoints(All, Cardinality(All), Dim)
       IN {[x EXCEPT !.xy = scaled[x]] : x \in All}
Top == IF Uniform THEN input.side - 1 ELSE ScaledMax(Cardinality(All), Dim)

\* On the grid the number of blocks must be a power to the dimension, whatever
\* cuts are asked for.
MultisectionFails ==
  IF Uniform
  THEN \/ ~CutsExist(input.k, Dim, <<>>, FALSE)
       \/ input.bisect /\ ~CutsExist(input.k, Dim, <<>>, TRUE)
  ELSE \/ input.k > Cardinality(All)
       \/ ~CutsExist(input.k, Dim, input.cutsPerDim, input.bisect)
       \/ Top < 1

\* initialPartition compares the user's own cuts with the number of blocks.
CutsDisagree == input.cutsPerDim # <<>> /\ FoldLeft(LAMBDA a, b : a * b, 1, input.cutsPerDim) # input.k

StartMultisection ==
  /\ Everybody("entered") /\ Chosen("ms")
  /\ IF CutsDisagree \/ MultisectionFails
     THEN Together("threw") /\ UNCHANGED <<held, tree, cuts>>
     ELSE /\ held' = [p \in PE |-> {x \in PlacesOnGrid : x.home = p}]
          /\ tree' = Root(Dim, Top, All)
          /\ cuts' = NumCuts(input.k, Dim, input.cutsPerDim, input.bisect)
          /\ Together("cutting")
  /\ UNCHANGED <<input, curve, pixels, part>>

Points == UNION Range(held)

Cut ==
  /\ Everybody("cutting") /\ cuts # <<>>
  /\ IF RoundFails(Leaves(tree), Head(cuts), Points, Uniform)
     THEN Together("threw") /\ UNCHANGED <<tree, cuts>>
     ELSE /\ tree' = CutRound(tree, Head(cuts), Points)
          /\ cuts' = Tail(cuts)
          /\ UNCHANGED pc
  /\ UNCHANGED <<input, held, curve, pixels, part>>

\* A root that was never cut has not got a leaf number.  On the uniform grid
\* the tree is the result, with as many leaves as it has got.
SetPartition ==
  /\ Everybody("cutting") /\ cuts = <<>>
  /\ IF Uniform THEN Together("done") /\ UNCHANGED part
     ELSE IF Len(Leaves(tree)) # input.k THEN Together("threw") /\ UNCHANGED part
     ELSE /\ part' = [x \in Points |->
                       IF tree.children = <<>> THEN -1 ELSE ContainingLeaf(tree, x.xy)]
          /\ Together("done")
  /\ UNCHANGED <<input, held, curve, tree, cuts, pixels>>

-----------------------------------------------------------------------------
(* Blocks grown over pixels.                                               *)

Pixel == 0 .. (input.side ^ Dim - 1)
PixelOf(x) ==
  LET Scale(d) == (x.xy[d] * input.side) \div (Max({y.xy[d] : y \in All}) + 1)
      flat[d \in 0 .. Dim] == IF d = 0 THEN 0 ELSE flat[d - 1] * input.side + Scale(d)
  IN flat[Dim]

\* Pixels one step away in the flat index that agree in all but one coordinate.
StepsAway(pixel) == {pixel + s * input.side ^ i : s \in {-1, 1}, i \in 0 .. (Dim - 1)} \cap Pixel
NeighbourPixelsMut(pixel) == StepsAway(pixel)
NeighbourPixels(pixel) ==
  {n \in StepsAway(pixel) :
     LET at == IndexToCoords(pixel, input.side, Dim)
         to == IndexToCoords(n, input.side, Dim)
     IN Cardinality({d \in 1 .. Dim : at[d] # to[d]}) = 1}

\* Two hundredths of imbalance are allowed on top of n / k rounded down.
MaxBlockSize == ((Cardinality(All) \div input.k) * 102) \div 100

SumDensity ==
  /\ Everybody("entered") /\ Chosen("pixel")
  /\ \E place \in {[x \in All |-> PixelOf(x)]} :
     pixels' = [left |-> [i \in Pixel |-> Cardinality({x \in All : place[x] = i})],
                place |-> place, of |-> [i \in Pixel |-> -1], block |-> 0, size |-> -1, border |-> {}]
  /\ Together("growing")
  /\ UNCHANGED <<input, held, curve, tree, cuts, part>>

Free(set) == {i \in set : pixels.left[i] # -1}
Densest == Min({i \in Free(Pixel) : \A j \in Free(Pixel) : pixels.left[j] <= pixels.left[i]})
Taken(i, size, border) ==
  [left |-> [pixels.left EXCEPT ![i] = -1], of |-> [pixels.of EXCEPT ![i] = pixels.block],
   place |-> pixels.place, block |-> pixels.block, size |-> size, border |-> border]
Growing == Everybody("growing") /\ pixels.block < input.k

\* A block starts at the densest pixel left, whatever its size.
Seed ==
  /\ Growing /\ pixels.size = -1 /\ Free(Pixel) # {}
  /\ pixels' = Taken(Densest, pixels.left[Densest], Free(NeighbourPixels(Densest)))
  /\ UNCHANGED <<input, pc, held, curve, tree, cuts, part>>

Fits(i) == pixels.left[i] + pixels.size <= MaxBlockSize

\* The best pixel of the border that still fits joins the block; better ones
\* that are too big leave the border.  Which pixels are better is a matter of
\* real-valued weights and left open.
Grow ==
  /\ Growing /\ pixels.size # -1
  /\ \E i \in pixels.border, dropped \in SUBSET {j \in pixels.border : ~Fits(j)} :
       /\ Fits(i)
       /\ pixels' = Taken(i, pixels.size + pixels.left[i],
                          (pixels.border \ (dropped \cup {i})) \cup Free(NeighbourPixels(i)))
  /\ UNCHANGED <<input, pc, held, curve, tree, cuts, part>>

CloseBlock ==
  /\ Growing /\ pixels.size # -1 /\ \A i \in pixels.border : ~Fits(i)
  /\ pixels' = [pixels EXCEPT !.block = @ + 1, !.size = -1, !.border = {}]
  /\ UNCHANGED <<input, pc, held, curve, tree, cuts, part>>

\* When the blocks or the pixels are used up, orphans go to the last block.
SetPixelPartition ==
  /\ Everybody("growing")
  /\ pixels.block = input.k \/ (pixels.size = -1 /\ Free(Pixel) = {})
  /\ part' = [x \in All |->
                LET block == pixels.of[pixels.place[x]] IN IF block = -1 THEN input.k - 1 ELSE block]
  /\ Together("done")
  /\ UNCHANGED <<input, held, curve, tree, cuts, pixels>>

-----------------------------------------------------------------------------
(* The pixel graph (MultiLevel::pixeledCoarsen): the input graph with all  *)
(* points of a pixel taken together.  Every process keeps its edges in     *)
(* input.edges, a symmetric set of pairs of ids.                           *)

\* Here coordinates are measured from the least one.
PixelAt(xy) ==
  LET Low(d) == Min({y.xy[d] : y \in All})
      High(d) == Max({y.xy[d] : y \in All})
      Scale(d) == ((xy[d] - Low(d)) * input.side) \div (High(d) - Low(d) + 1)
      flat[d \in 0 .. Dim] == IF d = 0 THEN 0 ELSE flat[d - 1] * input.side + Scale(d)
  IN flat[Dim]

\* An entry for each facet two pixels share.
NoEdges == [e \in {<<i, j>> \in Pixel \X Pixel : j \in NeighbourPixels(i)} |-> 0]

\* The points next to its own ones whose coordinates a process asks for.
Halo(p) == {y \in All \ held[p] : \E x \in held[p] : <<x.id, y.id>> \in input.edges}

\* With two dimensions the third coordinate of the other end of an edge is read
\* behind the least coordinates, where anything may be.  A number is taken from
\* itself and leaves nothing; of what is none the build makes either nothing,
\* too, or a negative index, which is refused as too large.
Stray == IF Dim = 2 THEN {"nothing", "negative"} ELSE {"nothing"}
HasEdges(p) == \E x \in held[p] : \E e \in input.edges : e[1] = x.id

\* What a process counts: its points in each pixel, its edges between pixels
\* that share a facet, and those it must leave out.
CountLocallyWith(p, halo) ==
  LET known == held[p] \cup halo
      ends == {<<PixelAt(e[1].xy), PixelAt(e[2].xy), e>> :
                 e \in {<<x, y>> \in held[p] \X known : <<x.id, y.id>> \in input.edges}}
      between == {e \in ends : e[1] # e[2]}
  IN [density |-> [i \in Pixel |-> Cardinality({x \in held[p] : PixelAt(x.xy) = i})],
      edges |-> [f \in DOMAIN NoEdges |-> Cardinality({e \in between : <<e[1], e[2]>> = f})],
      left |-> Cardinality({e \in between : <<e[1], e[2]>> \notin DOMAIN NoEdges})]
CountLocallyMut(p) == CountLocallyWith(p, {})
CountLocally(p) == CountLocallyWith(p, Halo(p))

CountEdges ==
  /\ Everybody("entered") /\ Chosen("pixelgraph")
  /\ \E stray \in [PE -> Stray] :
       pc' = [p \in PE |-> IF stray[p] = "negative" /\ HasEdges(p) THEN "threw" ELSE "summing"]
  /\ UNCHANGED <<input, held, curve, tree, cuts, pixels, part>>

\* All processes sum up.  Pixels without an edge between them get one that
\* weighs next to nothing, Light.
Light == -1
SumPixelGraph ==
  /\ Everybody("summing")
  /\ \E counts \in {[p \in PE |-> CountLocally(p)]} :
       LET Sum(F(_)) == FoldFunction(+, 0, [p \in PE |-> F(counts[p])])
           Whole(w) == IF w = 0 THEN Light ELSE w
       IN pixels' = [density |-> [i \in Pixel |-> Sum(LAMBDA c : c.density[i])],
                     edges |-> [e \in DOMAIN NoEdges |-> Whole(Sum(LAMBDA c : c.edges[e]))],
                     left |-> Sum(LAMBDA c : c.left)]
  /\ Together("done")
  /\ UNCHANGED <<input, held, curve, tree, cuts, part>>

-----------------------------------------------------------------------------

\* The program stops when all processes are done, or one threw and the others
\* have come as far as they can without it.
Ended ==
  /\ Everybody("done") \/ \E p \in PE : pc[p] = "threw"
  /\ \A p \in PE : pc[p] \notin {"start", "announced"}
  /\ UNCHANGED vars

Next ==
  \/ \E p \in PE : Enter(p) \/ CheckShare(p)
  \/ CurvePartition \/ Announce \/ Exchange
  \/ StartMultisection \/ Cut \/ SetPartition
  \/ CountEdges \/ SumPixelGraph \/ SumDensity \/ Seed \/ Grow \/ CloseBlock \/ SetPixelPartition
  \/ Ended

Spec == Init /\ [][Next]_vars

-----------------------------------------------------------------------------
(* Properties.                                                             *)

\* The least weight of a heaviest part over all ways to cut a line in k.
BestBottleneck(line, k) ==
  LET prefix == PrefixSums(line)
      Ends == {f \in [0 .. k -> 0 .. Len(line)] :
                 f[0] = 0 /\ f[k] = Len(line) /\ \A h \in 1 .. k : f[h - 1] <= f[h]}
  IN Min({Max({prefix[f[h]] - prefix[f[h - 1]] : h \in 1 .. k}) : f \in Ends})

\* Every rectangle of the multisection tree weighs what the points in it
\* weigh, its parts share its points without gap or overlap, and no other
\* cuts of its longest side would make the heaviest part lighter.  (A part
\* without weight, which only the uniform grid lets pass, is inserted below
\* its neighbour and ends the run.)
RECURSIVE WellCut(_)
WellCut(cell) ==
  LET kids == cell.children
      OwnersOf(x) == {c \in DOMAIN kids : Owns(kids[c].rect, x.xy)}
  IN /\ cell.rect.weight = Weight({x \in Points : Owns(cell.rect, x.xy)})
     /\ kids # <<>> =>
          /\ \A x \in Points : Owns(cell.rect, x.xy) => Cardinality(OwnersOf(x)) = 1
          /\ Max({kids[c].rect.weight : c \in DOMAIN kids}) =
               BestBottleneck(Projection(cell.rect, ChosenDim(cell.rect), Points), Len(kids))
          /\ \A c \in DOMAIN kids : WellCut(kids[c])
SectionsOptimal ==
  tree # <<>> /\ (\A rect \in Range(Leaves(tree)) : rect.weight > 0) => WellCut(tree)

\* Moving the points along the curve leaves every point whole on exactly one
\* process, in the order of the curve from process to process; and the curve
\* is one: points in neighbouring cells of it lie in cells that touch, and
\* the way back from an index leads to a corner of the cell.
CellOf(x) ==
  [d \in 1 .. Dim |->
     Min({((x.xy[d] - Min({y.xy[d] : y \in All})) * 2 ^ input.depth) \div Extents(All, Dim)[d],
          2 ^ input.depth - 1})]
Steps(a, b) == FoldFunction(LAMBDA s, sum : s + sum, 0,
                 [d \in 1 .. Dim |-> IF a[d] < b[d] THEN b[d] - a[d] ELSE a[d] - b[d]])
IsCurve ==
  \A x \in All :
    /\ \A y \in All : curve.index[y] = curve.index[x] + 1 => Steps(CellOf(x), CellOf(y)) = 1
    /\ LET corner == HilbertIndex2Point(curve.index[x], input.depth, Dim, 2 ^ input.depth)
       IN \A d \in 1 .. Dim : corner[d] - CellOf(x)[d] \in {0, 1}
CurveOrder ==
  Chosen("kmeans") /\ Everybody("done") =>
    /\ UNION Range(held) = All
    /\ \A p, q \in PE : p < q => \A x \in held[p], y \in held[q] : curve.index[x] < curve.index[y]
    /\ IsCurve

\* Only points that share a place of the curve can leave a process without
\* points, which stops the program.
OnlyTiesStarve ==
  Chosen("kmeans") /\ (\E p \in PE : pc[p] = "threw") =>
    \E x, y \in All : x # y /\ curve.index[x] = curve.index[y]

\* The pixel graph is the input graph, contracted, whoever holds its points:
\* every point and every edge between two pixels is counted once from each
\* side, the graph is symmetric, and an edge runs between the pixels of two
\* joined points as often as points are joined -- if the processes find numbers
\* behind the least coordinates (MultiLevel.cpp:969).
PixelGraphCounts ==
  Chosen("pixelgraph") /\ Everybody("done") =>
    LET At(id) == PixelAt((CHOOSE x \in All : x.id = id).xy)
        Crossing == {e \in input.edges : At(e[1]) # At(e[2])}
        Weight1(w) == IF w = Light THEN 0 ELSE w
        edges == pixels.edges
    IN /\ FoldFunction(+, 0, pixels.density) = Cardinality(All)
       /\ FoldFunction(LAMBDA w, sum : Weight1(w) + sum, pixels.left, edges) = Cardinality(Crossing)
       /\ \A e \in DOMAIN edges :
            /\ edges[<<e[2], e[1]>>] = edges[e]
            /\ Steps(IndexToCoords(e[1], input.side, Dim), IndexToCoords(e[2], input.side, Dim)) = 1
            /\ Weight1(edges[e]) = Cardinality({f \in Crossing : At(f[1]) = e[1] /\ At(f[2]) = e[2]})

\* While it grows, a block over the pixels hangs together, and it has more
\* points than a share with its tolerance only if its first pixel alone has.
Touch(i, j) == Steps(IndexToCoords(i, input.side, Dim), IndexToCoords(j, input.side, Dim)) = 1
PixelBlocksCompact ==
  Chosen("pixel") /\ pixels # <<>> =>
    LET own == {i \in Pixel : pixels.of[i] = pixels.block}
        size == Cardinality({x \in All : pixels.of[pixels.place[x]] = pixels.block})
    IN /\ \A half \in (SUBSET own) \ {{}, own} : \E i \in half, j \in own \ half : Touch(i, j)
       /\ size > MaxBlockSize => Cardinality(own) = 1
=============================================================================
