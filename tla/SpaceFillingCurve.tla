-------------------------- MODULE SpaceFillingCurve --------------------------
(***************************************************************************)
(* The Hilbert curves of HilbertCurve.cpp, in exact arithmetic.            *)
(*                                                                         *)
(* A position is a tuple of integers between 0 and unit, which stand for   *)
(* the reals between 0 and 1.  A curve is a sequence of subcubes in the    *)
(* order it visits them: for each the half it occupies on every axis (0    *)
(* low, 1 high), and where the coordinates inside it come from, axis by    *)
(* axis, reversed or not.                                                  *)
(***************************************************************************)
EXTENDS Integers, Sequences, FiniteSetsExt, Functions

Curve2D == <<
  [half |-> <<0, 0>>, from |-> <<2, 1>>, reversed |-> {}],
  [half |-> <<0, 1>>, from |-> <<1, 2>>, reversed |-> {}],
  [half |-> <<1, 1>>, from |-> <<1, 2>>, reversed |-> {}],
  [half |-> <<1, 0>>, from |-> <<2, 1>>, reversed |-> {1, 2}] >>

Curve3D == <<
  [half |-> <<0, 0, 0>>, from |-> <<3, 1, 2>>, reversed |-> {}],
  [half |-> <<0, 1, 0>>, from |-> <<2, 3, 1>>, reversed |-> {}],
  [half |-> <<1, 1, 0>>, from |-> <<2, 3, 1>>, reversed |-> {}],
  [half |-> <<1, 0, 0>>, from |-> <<1, 2, 3>>, reversed |-> {1, 2}],
  [half |-> <<1, 0, 1>>, from |-> <<1, 2, 3>>, reversed |-> {1, 2}],
  [half |-> <<1, 1, 1>>, from |-> <<2, 3, 1>>, reversed |-> {2, 3}],
  [half |-> <<0, 1, 1>>, from |-> <<2, 3, 1>>, reversed |-> {2, 3}],
  [half |-> <<0, 0, 1>>, from |-> <<3, 1, 2>>, reversed |-> {1, 3}] >>

Curve(dim) == IF dim = 2 THEN Curve2D ELSE Curve3D

Half(x, unit) == IF 2 * x < unit THEN 0 ELSE 1

SubSquare(at, unit) ==
  CHOOSE q \in DOMAIN Curve(Len(at)) :
    \A d \in DOMAIN at : Curve(Len(at))[q].half[d] = Half(at[d], unit)

\* The position inside its subcube, blown up to the whole cube.
InsideReversing(at, unit, axes) ==
  LET sub == Curve(Len(at))[SubSquare(at, unit)]
      Blown(d) == 2 * at[d] - sub.half[d] * unit
  IN [d \in DOMAIN at |->
        IF d \in sub.reversed \cap axes THEN unit - Blown(sub.from[d]) ELSE Blown(sub.from[d])]
InsideMut(at, unit) == InsideReversing(at, unit, {1})
Inside(at, unit) == InsideReversing(at, unit, DOMAIN at)

\* getHilbertIndex2D, getHilbertIndex3D and their vector forms: the index
\* as a number below (2^dim)^depth.
HilbertIndex(at, unit, depth) ==
  LET walk[level \in 0 .. depth] ==
        IF level = 0 THEN [at |-> at, index |-> 0]
        ELSE LET up == walk[level - 1]
             IN [at |-> Inside(up.at, unit),
                 index |-> up.index * 2 ^ Len(at) + SubSquare(up.at, unit) - 1]
  IN walk[depth].index

\* Hilbert2DIndex2Point and Hilbert3DIndex2Point: the corner at which the
\* curve enters a cell, found from the innermost subcube outwards.  An entry
\* of from says where a coordinate goes back to.
Outside(p, sub, unit) ==
  [d \in DOMAIN p |->
     LET axis == CHOOSE e \in DOMAIN p : sub.from[e] = d
         inner == IF axis \in sub.reversed THEN unit - p[axis] ELSE p[axis]
     IN (inner + sub.half[d] * unit) \div 2]
HilbertIndex2Point(index, depth, dim, unit) ==
  LET Digit(level) == ((index \div (2 ^ dim) ^ (depth - level)) % (2 ^ dim)) + 1
      point[level \in 1 .. (depth + 1)] ==
        IF level > depth THEN [d \in 1 .. dim |-> 0]
        ELSE Outside(point[level + 1], Curve(dim)[Digit(level)], unit)
  IN point[1]

\* A point scaled with the extent of all points (getHilbertIndexVector): the
\* unit is the product of the extents, so that no division is needed.
Extents(points, dim) ==
  [d \in 1 .. dim |-> Max({p.xy[d] : p \in points}) - Min({p.xy[d] : p \in points})]

CurveIndex(p, points, depth) ==
  LET dim == Len(p.xy)
      extent == Extents(points, dim)
      unit == FoldFunction(LAMBDA e, product : e * product, 1, extent)
      at == [d \in 1 .. dim |->
               ((p.xy[d] - Min({q.xy[d] : q \in points})) * unit) \div extent[d]]
  IN HilbertIndex(at, unit, depth)
=============================================================================
