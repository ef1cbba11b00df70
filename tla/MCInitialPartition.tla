------------------------- MODULE MCInitialPartition -------------------------
(***************************************************************************)
(* Three processes partition points of small grids by multisection, along  *)
(* the curve and by pixels, and coarsen their graphs by pixels.            *)
(***************************************************************************)
EXTENDS InitialPartition

\* Points at the places of a sequence, with weights and homes by number.
At(places, weight, home) ==
  {[id |-> i - 1, xy |-> places[i], w |-> weight[i], home |-> home[i]] : i \in DOMAIN places}
Grid(side) == [i \in 1 .. (side * side) |-> <<(i - 1) \div side, (i - 1) % side>>]
Cube == [i \in 1 .. 8 |-> <<(i - 1) \div 4, ((i - 1) \div 2) % 2, (i - 1) % 2>>]
Even(n) == [i \in 1 .. n |-> 1]
Skewed(n) == [i \in 1 .. n |-> 1 + (i % 3)]
\* Shares of equal size, or all but two points on the first process.
Spread(n) == [i \in 1 .. n |-> ((i - 1) * P) \div n]
Crowded(n) == [i \in 1 .. n |-> IF i > n - P + 1 THEN i - (n - P + 1) ELSE 0]

Input(tool, points, dim, k, depth, side, cutsPerDim, bisect) ==
  [tool |-> tool, points |-> points, dim |-> dim, k |-> k, depth |-> depth, side |-> side,
   cutsPerDim |-> cutsPerDim, bisect |-> bisect, edges |-> {}]

Cuts == {<<4, <<>>, FALSE>>, <<4, <<>>, TRUE>>, <<6, <<2, 3>>, FALSE>>, <<6, <<3, 2>>, FALSE>>,
         <<6, <<2, 2>>, FALSE>>, <<8, <<>>, TRUE>>, <<9, <<>>, FALSE>>, <<3, <<>>, TRUE>>,
         <<4, <<3, 2>>, FALSE>>, <<9, <<2, 2, 2>>, FALSE>>}
Sections ==
  {Input("ms", At(Grid(3), weight, Spread(9)), 2, c[1], 0, side, c[2], c[3]) :
     weight \in {f \in [1 .. 9 -> {1, 2, 5}] : f[1] = 1 /\ f[2] = f[4] /\ f[3] = f[8] /\ f[9] = f[6] /\ f[5] = f[7]},
     c \in Cuts, side \in {0, 3}}
  \cup {Input("ms", At(Cube, weight, Spread(8)), 3, c[1], 0, side, c[2], c[3]) :
          weight \in {Even(8), Skewed(8)}, side \in {0, 2},
          c \in {<<8, <<>>, FALSE>>, <<4, <<2, 2, 1>>, FALSE>>, <<4, <<>>, TRUE>>}}

\* Six places of a four by four grid that span it.
Places == {<< <<0, 0>>, <<0, a>>, <<1, b>>, <<2, c>>, <<3, 1>>, <<3, 3>> >> : a, b, c \in 1 .. 3}
Curves ==
  {Input("kmeans", At(places, weight, home), 2, P, depth, 0, <<>>, FALSE) :
     places \in Places, weight \in {Even(6), Skewed(6)}, home \in {Spread(6), Crowded(6)}, depth \in {1, 2}}
  \cup {Input(tool, At(Grid(4), Even(16), Spread(16)), 2, k, 2, 0, <<>>, FALSE) :
          tool \in {"kmeans", "sfc"}, k \in {P, P + 1}}
  \cup {Input("kmeans", At(Cube, Skewed(8), Spread(8)), 3, P, 1, 0, <<>>, FALSE)}

Pixels ==
  {Input("pixel", At(places, Even(6), Spread(6)), 2, k, 0, side, <<>>, FALSE) :
     places \in Places, k \in {P, P + 1}, side \in {2, 3}}
  \cup {Input("pixel", At(Cube, Even(8), Spread(8)), 3, P, 0, 2, <<>>, FALSE)}

\* Edges in both directions: given links, a chain, or all points of a grid that
\* touch, be it at a corner.
Joined(points, links) == {e \in {<<x.id, y.id>> : x, y \in points} : e \in links \/ <<e[2], e[1]>> \in links}
Chain(n) == {<<i, i + 1>> : i \in 0 .. (n - 2)}
Near(points) ==
  {<<x.id, y.id>> : <<x, y>> \in
     {<<a, b>> \in points \X points : a # b /\ \A d \in DOMAIN a.xy : a.xy[d] - b.xy[d] \in -1 .. 1}}
PixelGraphs ==
  {[Input("pixelgraph", points, 2, P, 0, side, <<>>, FALSE) EXCEPT !.edges = Joined(points, links)] :
     points \in {At(places, Even(6), home) : places \in Places, home \in {Spread(6), Crowded(6)}},
     links \in {Chain(6), Chain(6) \cup {<<0, 5>>, <<1, 4>>, <<0, 3>>}}, side \in {2, 3}}
  \cup {[Input("pixelgraph", g[1], g[2], P, 0, side, <<>>, FALSE) EXCEPT !.edges = Near(g[1])] :
     side \in {2, 3},
     g \in {<<At(Grid(4), Even(16), Spread(16)), 2>>, <<At(Cube, Even(8), [i \in 1 .. 8 |-> i % P]), 3>>}}

MCInputs == Sections \cup Curves \cup Pixels \cup PixelGraphs
=============================================================================
