---------------------------- MODULE StructuredMesh ----------------------------
(***************************************************************************)
(* Structured grids (MeshGenerator.cpp).  n gives the number of points on  *)
(* each of three axes, the last one 1 in the plane; a place is a tuple of  *)
(* steps along the axes, each as long as the generator's offset there.     *)
(***************************************************************************)
EXTENDS Integers, SequencesExt

NumPoints(n) == n[1] * n[2] * n[3]
Plane(n) == n[2] * n[3]
NumEdges(n) == 3 * NumPoints(n) - n[1] * n[2] - n[1] * n[3] - n[2] * n[3]

Index2Point(i, n) == <<i \div Plane(n), (i % Plane(n)) \div n[3], (i % Plane(n)) % n[3]>>
Dist3DSquared(a, b) ==
  (a[1] - b[1]) * (a[1] - b[1]) + (a[2] - b[2]) * (a[2] - b[2]) + (a[3] - b[3]) * (a[3] - b[3])

\* Steps that leave the grid at one side come back at the other.
IsNeighbour(i, j, n) ==
  j \in 0 .. (NumPoints(n) - 1) /\ Dist3DSquared(Index2Point(i, n), Index2Point(j, n)) <= 1
RowOf(i, n, steps) ==
  SelectSeq([s \in DOMAIN steps |-> i + steps[s]], LAMBDA j : IsNeighbour(i, j, n))

\* In the plane the steps along the last axis are those along the second.
Steps(n) ==
  LET all == <<1, -1, Plane(n), -Plane(n), n[3], -n[3]>>
  IN IF n[3] = 1 THEN SubSeq(all, 1, 4) ELSE all
MeshRows(begin, end, n) == [i \in 1 .. (end - begin) |-> RowOf(begin + i - 1, n, Steps(n))]

\* The coordinates of a process are counted up from its first point.
NextPlace(at, n) ==
  LET z == <<at[1], at[2], at[3] + 1>>
      y == IF z[3] >= n[3] THEN <<z[1], z[2] + 1, 0>> ELSE z
  IN IF y[2] >= n[2] THEN <<y[1] + 1, 0, y[3]>> ELSE y
MeshPlaces(begin, end, n) ==
  LET place[i \in 1 .. (end - begin)] == IF i = 1 THEN Index2Point(begin, n) ELSE NextPlace(place[i - 1], n)
  IN [i \in 1 .. (end - begin) |-> place[i]]

\* In the plane the places are written to copies of the caller's vectors,
\* which stay zero.
MeshPoints(begin, end, n, dim) ==
  [i \in 1 .. (end - begin) |->
     [at |-> IF dim = 2 THEN <<0, 0>> ELSE MeshPlaces(begin, end, n)[i],
      row |-> MeshRows(begin, end, n)[i]]]

\* createStructured3DMesh_seq: one process, loops over the axes, every step.
SequentialPoints(n) ==
  [i \in 1 .. NumPoints(n) |->
     [at |-> Index2Point(i - 1, n),
      row |-> RowOf(i - 1, n, <<1, -1, n[3], -n[3], Plane(n), -Plane(n)>>)]]
===============================================================================
