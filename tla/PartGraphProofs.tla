-------------------------- MODULE PartGraphProofs --------------------------
(***************************************************************************)
(* What the operators of PartGraph return.  They are folds of the          *)
(* community modules over CHOOSE: in a different notation, functions that  *)
(* satisfy the recursive equation Sums.  Such a function exists and is the *)
(* only one, because of the well-founded order of the finite subsets; so   *)
(* the sum over a set does not depend on the order of its elements nor on  *)
(* how it is split, weights and cuts are integers that add up over         *)
(* disjoint sets, a cut survives the contraction of the graph, and a gain  *)
(* of twoWayLocalFM comes with two blocks that fit.  The last lemmas do    *)
(* for recursion on the natural numbers what the first do for sums, and    *)
(* say what Max and Min of a finite set and the ranks in an order are.     *)
(***************************************************************************)
EXTENDS PartGraph, FiniteSetTheorems, WellFoundedInduction, TLAPS

Pick(S) == CHOOSE x \in S : TRUE

\* h sums f over every subset of D, as the fold of the community modules does.
Sums(h, f, D) ==
  h = [t \in SUBSET D |-> IF t = {} THEN 0 ELSE f[Pick(t)] + h[t \ {Pick(t)}]]

Sum(f, D) == (CHOOSE h : Sums(h, f, D))[D]

\* The element picked is one of the set.
LEMMA PickIn == \A t : t # {} => Pick(t) \in t
  BY DEF Pick

\* Every set of finite sets that is not empty has a smallest one.
LEMMA SmallestSet ==
  ASSUME NEW D, IsFiniteSet(D), NEW B \in SUBSET (SUBSET D), B # {}
  PROVE  \E t \in B : \A u \in SUBSET t : u # t => u \notin B
  <1>1. IsWellFoundedOn(StrictSubsetOrdering(D), FiniteSubsetsOf(D))
    BY FS_StrictSubsetOrderingWellFounded
  <1>2. B \subseteq FiniteSubsetsOf(D)
    BY FS_Subset DEF FiniteSubsetsOf
  <1>3. PICK t \in B : \A u \in B : ~ (<<u, t>> \in StrictSubsetOrdering(D))
    BY <1>1, <1>2, WFMin
  <1>4. \A u \in SUBSET t : u # t => u \notin B
    BY <1>3 DEF StrictSubsetOrdering
  <1>5. QED
    BY <1>4

\* All functions that satisfy the equation agree.
LEMMA SumsUnique ==
  ASSUME NEW D, NEW T \in SUBSET D, IsFiniteSet(T), NEW f, NEW h, NEW k,
         Sums(h, f, D), Sums(k, f, T)
  PROVE  h[T] = k[T]
  <1> DEFINE B == {t \in SUBSET T : h[t] # k[t]}
  <1>1. SUFFICES ASSUME B # {} PROVE FALSE
    OBVIOUS
  <1>2. PICK t \in B : \A u \in SUBSET t : u # t => u \notin B
    <2>1. B \in SUBSET (SUBSET T)
      OBVIOUS
    <2> HIDE DEF B
    <2>2. QED
      BY <1>1, <2>1, SmallestSet
  <1>3. t # {}
    BY DEF Sums
  <1>4. h[t \ {Pick(t)}] = k[t \ {Pick(t)}]
    BY <1>2, <1>3, PickIn
  <1>5. h[t] = f[Pick(t)] + h[t \ {Pick(t)}] /\ k[t] = f[Pick(t)] + k[t \ {Pick(t)}]
    BY <1>3 DEF Sums
  <1>6. QED
    BY <1>4, <1>5

\* There is a function that satisfies the equation.
LEMMA SumsExist ==
  ASSUME NEW D, IsFiniteSet(D), NEW f
  PROVE  \E h : Sums(h, f, D)
  <1> DEFINE B == {t \in SUBSET D : ~ \E h : Sums(h, f, t)}
  <1>1. SUFFICES ASSUME B # {} PROVE FALSE
    OBVIOUS
  <1>2. PICK T \in B : \A u \in SUBSET T : u # T => u \notin B
    <2>1. B \in SUBSET (SUBSET D)
      OBVIOUS
    <2> HIDE DEF B
    <2>2. QED
      BY <1>1, <2>1, SmallestSet
  <1> DEFINE H == [u \in SUBSET T |-> CHOOSE h : Sums(h, f, u)]
             Value(u) == f[Pick(u)] + H[u \ {Pick(u)}][u \ {Pick(u)}]
             G == [u \in SUBSET T |-> IF u = {} THEN 0 ELSE Value(u)]
  <1>3. \A u \in SUBSET T : u # T => Sums(H[u], f, u)
    BY <1>2
  <1>4. T \in SUBSET D /\ \A u \in SUBSET T : IsFiniteSet(u)
    BY FS_Subset
  <1>5. \A u \in SUBSET T : u # {} => /\ u \ {Pick(u)} \in SUBSET T
                                     /\ u \ {Pick(u)} # T
    BY PickIn
  <1> HIDE DEF H
  <1>6. ASSUME NEW u \in SUBSET T, u # T PROVE G[u] = H[u][u]
    <2>1. Sums(H[u], f, u)
      BY <1>3, <1>6
    <2>2. CASE u = {}
      BY <2>1, <2>2 DEF Sums
    <2>3. CASE u # {}
      <3> DEFINE v == u \ {Pick(u)}
      <3>1. v \in SUBSET T /\ v # T /\ IsFiniteSet(v) /\ v \in SUBSET u
        BY <2>3, <1>4, <1>5
      <3>2. Sums(H[v], f, v)
        BY <1>3, <3>1
      <3>3. H[u][v] = H[v][v]
        <4> HIDE DEF v
        <4>1. QED
          BY <2>1, <3>1, <3>2, SumsUnique
      <3>4. H[u][u] = f[Pick(u)] + H[u][v]
        BY <2>1, <2>3 DEF Sums
      <3>5. QED
        BY <3>3, <3>4, <2>3
    <2>4. QED
      BY <2>2, <2>3
  <1>7. \A u \in SUBSET T : G[u] = IF u = {} THEN 0 ELSE f[Pick(u)] + G[u \ {Pick(u)}]
    <2> SUFFICES ASSUME NEW u \in SUBSET T, u # {}
                 PROVE  G[u] = f[Pick(u)] + G[u \ {Pick(u)}]
      OBVIOUS
    <2>1. G[u \ {Pick(u)}] = H[u \ {Pick(u)}][u \ {Pick(u)}]
      BY <1>5, <1>6
    <2>2. G[u] = Value(u)
      OBVIOUS
    <2> HIDE DEF G
    <2>3. QED
      BY <2>1, <2>2
  <1>8. G = [u \in SUBSET T |-> G[u]]
    OBVIOUS
  <1> HIDE DEF G
  <1>9. Sums(G, f, T)
    BY <1>7, <1>8 DEF Sums
  <1>10. QED
    BY <1>2, <1>9

\* The empty sum.
LEMMA SumEmpty == \A f : Sum(f, {}) = 0
  <1> SUFFICES ASSUME NEW f PROVE Sum(f, {}) = 0
    OBVIOUS
  <1>1. IsFiniteSet({})
    BY FS_EmptySet
  <1> DEFINE h == CHOOSE h : Sums(h, f, {})
  <1>2. Sums(h, f, {})
    BY <1>1, SumsExist
  <1> HIDE DEF h
  <1>3. h[{}] = 0
    BY <1>2 DEF Sums
  <1>4. QED
    BY <1>3 DEF Sum, h

\* The sum starts with the element picked.
LEMMA SumPick ==
  ASSUME NEW D, IsFiniteSet(D), D # {}, NEW f
  PROVE  Sum(f, D) = f[Pick(D)] + Sum(f, D \ {Pick(D)})
  <1> DEFINE R == D \ {Pick(D)}
             h == CHOOSE h : Sums(h, f, D)
             k == CHOOSE k : Sums(k, f, R)
  <1>1. IsFiniteSet(R) /\ R \in SUBSET D
    BY FS_Subset
  <1>2. Sums(h, f, D)
    BY SumsExist
  <1>3. h[D] = f[Pick(D)] + h[R]
    BY <1>2 DEF Sums
  <1>4. Sum(f, D) = h[D] /\ Sum(f, R) = k[R]
    BY DEF Sum
  <1> HIDE DEF R
  <1>5. Sums(k, f, R)
    BY <1>1, SumsExist
  <1> HIDE DEF h, k
  <1>6. h[R] = k[R]
    BY <1>1, <1>2, <1>5, SumsUnique
  <1>7. QED
    BY <1>3, <1>4, <1>6 DEF R

\* Two functions that agree on a set have the same sum over it.
LEMMA SumSame ==
  ASSUME NEW D, IsFiniteSet(D), NEW f, NEW g, \A x \in D : f[x] = g[x]
  PROVE  Sum(f, D) = Sum(g, D)
  <1>1. \A h : Sums(h, f, D) => Sums(h, g, D)
    <2> SUFFICES ASSUME NEW h, Sums(h, f, D) PROVE Sums(h, g, D)
      OBVIOUS
    <2>1. \A t \in SUBSET D : t # {} => f[Pick(t)] = g[Pick(t)]
      BY PickIn
    <2>2. QED
      BY <2>1 DEF Sums
  <1> DEFINE h == CHOOSE h : Sums(h, f, D)
             k == CHOOSE k : Sums(k, g, D)
  <1>2. Sums(h, g, D) /\ Sums(k, g, D)
    BY <1>1, SumsExist
  <1>3. Sum(f, D) = h[D] /\ Sum(g, D) = k[D]
    BY DEF Sum
  <1>4. D \in SUBSET D
    OBVIOUS
  <1> HIDE DEF h, k
  <1>5. QED
    BY <1>2, <1>3, <1>4, SumsUnique

\* A sum of integers is an integer.
LEMMA SumType ==
  ASSUME NEW D, IsFiniteSet(D), NEW f, \A x \in D : f[x] \in Int
  PROVE  Sum(f, D) \in Int
  <1> DEFINE B == {t \in SUBSET D : Sum(f, t) \notin Int}
  <1>1. SUFFICES ASSUME B # {} PROVE FALSE
    OBVIOUS
  <1>2. PICK t \in B : \A u \in SUBSET t : u # t => u \notin B
    <2>1. B \in SUBSET (SUBSET D)
      OBVIOUS
    <2> HIDE DEF B
    <2>2. QED
      BY <1>1, <2>1, SmallestSet
  <1>3. t # {}
    BY SumEmpty
  <1>4. Pick(t) \in t /\ Pick(t) \in D /\ IsFiniteSet(t)
    BY <1>3, PickIn, FS_Subset
  <1>5. Sum(f, t \ {Pick(t)}) \in Int
    BY <1>2, <1>4
  <1>6. Sum(f, t) = f[Pick(t)] + Sum(f, t \ {Pick(t)})
    BY <1>3, <1>4, SumPick
  <1>7. QED
    BY <1>4, <1>5, <1>6

\* The order in which the elements are added does not matter.
LEMMA SumRemove ==
  ASSUME NEW D, IsFiniteSet(D), NEW f, \A x \in D : f[x] \in Int, NEW y \in D
  PROVE  Sum(f, D) = f[y] + Sum(f, D \ {y})
  <1> DEFINE B == {t \in SUBSET D : \E x \in t : Sum(f, t) # f[x] + Sum(f, t \ {x})}
  <1>1. SUFFICES ASSUME B # {} PROVE FALSE
    OBVIOUS
  <1>2. PICK t \in B : \A u \in SUBSET t : u # t => u \notin B
    <2>1. B \in SUBSET (SUBSET D)
      OBVIOUS
    <2> HIDE DEF B
    <2>2. QED
      BY <1>1, <2>1, SmallestSet
  <1>3. PICK x \in t : Sum(f, t) # f[x] + Sum(f, t \ {x})
    OBVIOUS
  <1> DEFINE c == Pick(t)
             r == (t \ {c}) \ {x}
  <1>4. c \in t /\ c \in D /\ x \in D /\ t # {} /\ IsFiniteSet(t)
    BY PickIn, FS_Subset
  <1>5. Sum(f, t) = f[c] + Sum(f, t \ {c})
    BY <1>4, SumPick
  <1>6. x # c
    BY <1>3, <1>5
  <1>7. Sum(f, t \ {c}) = f[x] + Sum(f, r)
    <2>1. t \ {c} \in SUBSET t /\ t \ {c} # t /\ t \ {c} \in SUBSET D /\ x \in t \ {c}
      BY <1>4, <1>6
    <2>2. QED
      BY <1>2, <2>1
  <1>8. Sum(f, t \ {x}) = f[c] + Sum(f, r)
    <2>1. t \ {x} \in SUBSET t /\ t \ {x} # t /\ t \ {x} \in SUBSET D /\ c \in t \ {x}
      BY <1>4, <1>6
    <2>2. Sum(f, t \ {x}) = f[c] + Sum(f, (t \ {x}) \ {c})
      <3> HIDE DEF c
      <3>1. QED
        BY <1>2, <2>1
    <2>3. (t \ {x}) \ {c} = r
      OBVIOUS
    <2> HIDE DEF c, r
    <2>4. QED
      BY <2>2, <2>3
  <1>9. Sum(f, r) \in Int
    <2>1. r \in SUBSET D /\ IsFiniteSet(r)
      BY FS_Subset
    <2> HIDE DEF r
    <2>2. QED
      BY <2>1, SumType
  <1> HIDE DEF c, r
  <1>10. QED
    BY <1>3, <1>4, <1>5, <1>7, <1>8, <1>9

\* Sums add up over disjoint sets.
LEMMA SumUnion ==
  ASSUME NEW D, IsFiniteSet(D), NEW E, IsFiniteSet(E), D \cap E = {},
         NEW f, \A x \in D \cup E : f[x] \in Int
  PROVE  Sum(f, D \cup E) = Sum(f, D) + Sum(f, E)
  <1> DEFINE B == {t \in SUBSET D : Sum(f, t \cup E) # Sum(f, t) + Sum(f, E)}
  <1>1. SUFFICES ASSUME B # {} PROVE FALSE
    OBVIOUS
  <1>2. PICK t \in B : \A u \in SUBSET t : u # t => u \notin B
    <2>1. B \in SUBSET (SUBSET D)
      OBVIOUS
    <2> HIDE DEF B
    <2>2. QED
      BY <1>1, <2>1, SmallestSet
  <1>3. Sum(f, E) \in Int
    BY SumType
  <1>4. t # {}
    <2>1. {} \cup E = E
      OBVIOUS
    <2>2. QED
      BY <1>3, <2>1, SumEmpty
  <1> DEFINE x == Pick(t)
             r == t \ {x}
  <1>5. x \in t /\ x \notin E /\ IsFiniteSet(t) /\ IsFiniteSet(r) /\ r \in SUBSET D /\ r # t
        /\ r \in SUBSET t
    BY <1>4, PickIn, FS_Subset
  <1>6. Sum(f, r \cup E) = Sum(f, r) + Sum(f, E)
    BY <1>2, <1>5
  <1>7. Sum(f, t) = f[x] + Sum(f, r)
    BY <1>4, <1>5, SumPick
  <1>8. Sum(f, t \cup E) = f[x] + Sum(f, r \cup E)
    <2>1. IsFiniteSet(t \cup E) /\ (t \cup E) \ {x} = r \cup E /\ x \in t \cup E
          /\ \A y \in t \cup E : f[y] \in Int
      BY <1>5, FS_Union
    <2>2. QED
      BY <2>1, SumRemove
  <1>9. Sum(f, r) \in Int /\ f[x] \in Int
    BY <1>5, SumType
  <1> HIDE DEF x, r
  <1>10. QED
    BY <1>2, <1>3, <1>6, <1>7, <1>8, <1>9

\* A sum of zeros.
LEMMA SumZero ==
  ASSUME NEW D, IsFiniteSet(D), NEW f, \A x \in D : f[x] = 0
  PROVE  Sum(f, D) = 0
  <1> DEFINE B == {t \in SUBSET D : Sum(f, t) # 0}
  <1>1. SUFFICES ASSUME B # {} PROVE FALSE
    OBVIOUS
  <1>2. PICK t \in B : \A u \in SUBSET t : u # t => u \notin B
    <2>1. B \in SUBSET (SUBSET D)
      OBVIOUS
    <2> HIDE DEF B
    <2>2. QED
      BY <1>1, <2>1, SmallestSet
  <1>3. t # {}
    BY SumEmpty
  <1>4. Pick(t) \in t /\ Pick(t) \in D /\ IsFiniteSet(t)
    BY <1>3, PickIn, FS_Subset
  <1>5. Sum(f, t \ {Pick(t)}) = 0
    BY <1>2, <1>4
  <1>6. Sum(f, t) = f[Pick(t)] + Sum(f, t \ {Pick(t)})
    BY <1>3, <1>4, SumPick
  <1>7. QED
    BY <1>4, <1>5, <1>6

\* The image of a finite set is finite.
LEMMA FiniteImage ==
  ASSUME NEW D, IsFiniteSet(D), NEW b
  PROVE  IsFiniteSet({b[x] : x \in D})
  <1> DEFINE Img(t) == {b[x] : x \in t}
             B == {t \in SUBSET D : ~ IsFiniteSet(Img(t))}
  <1>1. SUFFICES ASSUME B # {} PROVE FALSE
    <2>1. D \in SUBSET D
      OBVIOUS
    <2>2. QED
      BY <2>1
  <1>2. PICK t \in B : \A u \in SUBSET t : u # t => u \notin B
    <2>1. B \in SUBSET (SUBSET D)
      OBVIOUS
    <2> HIDE DEF B
    <2>2. QED
      BY <1>1, <2>1, SmallestSet
  <1>3. t # {}
    <2>1. Img({}) = {}
      OBVIOUS
    <2>2. QED
      BY <2>1, FS_EmptySet
  <1>4. PICK x \in t : TRUE
    BY <1>3
  <1>5. IsFiniteSet(Img(t \ {x}))
    BY <1>2, <1>4
  <1>6. Img(t) = Img(t \ {x}) \cup {b[x]}
    BY <1>4
  <1>7. IsFiniteSet(Img(t \ {x}) \cup {b[x]})
    <2> HIDE DEF Img
    <2>1. QED
      BY <1>5, FS_AddElement
  <1>8. QED
    BY <1>6, <1>7

\* A sum is the same under other names of the elements.
LEMMA SumRename ==
  ASSUME NEW D, IsFiniteSet(D), NEW b,
         \A x, y \in D : b[x] = b[y] => x = y,
         NEW f, NEW g, \A x \in D : f[x] = g[b[x]] /\ f[x] \in Int
  PROVE  Sum(f, D) = Sum(g, {b[x] : x \in D})
  <1> DEFINE Img(t) == {b[x] : x \in t}
             B == {t \in SUBSET D : Sum(f, t) # Sum(g, Img(t))}
  <1>1. SUFFICES ASSUME B # {} PROVE FALSE
    <2>1. D \in SUBSET D
      OBVIOUS
    <2>2. QED
      BY <2>1
  <1>2. PICK t \in B : \A u \in SUBSET t : u # t => u \notin B
    <2>1. B \in SUBSET (SUBSET D)
      OBVIOUS
    <2> HIDE DEF B
    <2>2. QED
      BY <1>1, <2>1, SmallestSet
  <1>3. t # {}
    <2>1. Img({}) = {}
      OBVIOUS
    <2>2. QED
      BY <2>1, SumEmpty
  <1> DEFINE x == Pick(t)
  <1>4. x \in t /\ x \in D /\ t \subseteq D /\ IsFiniteSet(t)
    BY <1>3, PickIn, FS_Subset
  <1>5. Sum(f, t) = f[x] + Sum(f, t \ {x})
    BY <1>3, <1>4, SumPick
  <1> HIDE DEF x
  <1>6. Sum(f, t \ {x}) = Sum(g, Img(t \ {x}))
    BY <1>2, <1>4
  <1>7. Sum(g, Img(t)) = g[b[x]] + Sum(g, Img(t) \ {b[x]})
    <2>1. IsFiniteSet(Img(t))
      BY <1>4, FiniteImage
    <2>2. \A y \in Img(t) : g[y] \in Int
      BY <1>4
    <2>3. b[x] \in Img(t)
      BY <1>4
    <2> HIDE DEF Img
    <2>4. QED
      BY <2>1, <2>2, <2>3, SumRemove
  <1>8. Img(t) \ {b[x]} = Img(t \ {x})
    BY <1>4
  <1>9. f[x] = g[b[x]]
    BY <1>4
  <1>10. Sum(f, t) = Sum(g, Img(t))
    <2> HIDE DEF Img
    <2>1. QED
      BY <1>5, <1>6, <1>7, <1>8, <1>9
  <1>11. QED
    BY <1>10

\* The sum of a pointwise sum.
LEMMA SumAdd ==
  ASSUME NEW D, IsFiniteSet(D), NEW f, NEW g, NEW h,
         \A x \in D : f[x] \in Int /\ g[x] \in Int /\ h[x] = f[x] + g[x]
  PROVE  Sum(h, D) = Sum(f, D) + Sum(g, D)
  <1> DEFINE B == {t \in SUBSET D : Sum(h, t) # Sum(f, t) + Sum(g, t)}
  <1>1. SUFFICES ASSUME B # {} PROVE FALSE
    OBVIOUS
  <1>2. PICK t \in B : \A u \in SUBSET t : u # t => u \notin B
    <2>1. B \in SUBSET (SUBSET D)
      OBVIOUS
    <2> HIDE DEF B
    <2>2. QED
      BY <1>1, <2>1, SmallestSet
  <1>3. t # {}
    <2>1. Sum(h, {}) = 0 /\ Sum(f, {}) = 0 /\ Sum(g, {}) = 0
      BY SumEmpty
    <2>2. Sum(h, {}) = Sum(f, {}) + Sum(g, {})
      BY <2>1, SMT
    <2>3. Sum(h, t) # Sum(f, t) + Sum(g, t)
      OBVIOUS
    <2>4. QED
      BY <2>2, <2>3
  <1> DEFINE x == Pick(t)
             r == t \ {x}
  <1>4. x \in t /\ x \in D /\ IsFiniteSet(t) /\ IsFiniteSet(r) /\ r \in SUBSET t /\ r # t
        /\ r \in SUBSET D
    BY <1>3, PickIn, FS_Subset
  <1>5. Sum(h, r) = Sum(f, r) + Sum(g, r)
    BY <1>2, <1>4
  <1>6. /\ Sum(h, t) = h[x] + Sum(h, r)
        /\ Sum(f, t) = f[x] + Sum(f, r)
        /\ Sum(g, t) = g[x] + Sum(g, r)
    BY <1>3, <1>4, SumPick
  <1>7. Sum(f, r) \in Int /\ Sum(g, r) \in Int
    BY <1>4, SumType
  <1>8. f[x] \in Int /\ g[x] \in Int /\ h[x] = f[x] + g[x]
    BY <1>4
  <1> HIDE DEF x, r
  <1>9. QED
    BY <1>2, <1>5, <1>6, <1>7, <1>8

\* In a finite set that is not empty some element has the largest value.
LEMMA FiniteMax ==
  ASSUME NEW D, IsFiniteSet(D), D # {}, NEW f, \A x \in D : f[x] \in Int
  PROVE  \E x \in D : \A y \in D : f[y] <= f[x]
  <1> DEFINE B == {t \in SUBSET D : t # {} /\ ~ \E x \in t : \A y \in t : f[y] <= f[x]}
  <1>1. SUFFICES ASSUME B # {} PROVE FALSE
    OBVIOUS
  <1>2. PICK t \in B : \A u \in SUBSET t : u # t => u \notin B
    <2>1. B \in SUBSET (SUBSET D)
      OBVIOUS
    <2> HIDE DEF B
    <2>2. QED
      BY <1>1, <2>1, SmallestSet
  <1>3. PICK c \in t : TRUE
    OBVIOUS
  <1>4. t \subseteq D /\ c \in D /\ f[c] \in Int
    OBVIOUS
  <1>5. CASE t \ {c} = {}
    <2>1. \A y \in t : y = c
      BY <1>5
    <2>2. \A y \in t : f[y] <= f[c]
      BY <1>4, <2>1
    <2>3. QED
      BY <2>2
  <1>6. CASE t \ {c} # {}
    <2>1. PICK d \in t \ {c} : \A y \in t \ {c} : f[y] <= f[d]
      BY <1>2, <1>6
    <2>2. f[d] \in Int /\ d \in t /\ \A y \in t : f[y] \in Int
      OBVIOUS
    <2>3. CASE f[c] <= f[d]
      <3>1. \A y \in t : f[y] <= f[d]
        BY <2>1, <2>3
      <3>2. QED
        BY <2>2, <3>1
    <2>4. CASE f[d] <= f[c]
      <3>1. \A y \in t : f[y] <= f[c]
        BY <1>4, <2>1, <2>2, <2>4
      <3>2. QED
        BY <3>1
    <2>5. QED
      BY <1>4, <2>2, <2>3, <2>4
  <1>7. QED
    BY <1>5, <1>6

\* The weights of PartGraph are such sums.
LEMMA WeightIsSum ==
  ASSUME NEW nw, NEW S
  PROVE  WeightOf(nw, S) = Sum(nw, S)
  <1>1. WeightOf(nw, S) =
          (CHOOSE h : h = [t \in SUBSET S |->
             IF t = {} THEN 0
             ELSE nw[CHOOSE x \in t : TRUE] + h[t \ {CHOOSE x \in t : TRUE}]])[S]
    BY Zenon DEF WeightOf, MapThenSumSet, MapThenFoldSet
  <1>2. QED
    BY <1>1, Zenon DEF Sum, Sums, Pick

CutEdges(w, A, B) == {e \in A \X B : w[e[1]][e[2]] > 0}

Weights(w, D) == [e \in D |-> w[e[1]][e[2]]]

\* A sum over matrix entries in a different notation.
EntriesOf(w, D) == MapThenSumSet(LAMBDA e : w[e[1]][e[2]], D)

LEMMA EntriesSum ==
  ASSUME NEW w, NEW D
  PROVE  EntriesOf(w, D) = Sum(Weights(w, D), D)
  <1> DEFINE f == Weights(w, D)
             Cuts(h) == h = [t \in SUBSET D |->
               IF t = {} THEN 0
               ELSE w[(CHOOSE x \in t : TRUE)[1]][(CHOOSE x \in t : TRUE)[2]]
                      + h[t \ {CHOOSE x \in t : TRUE}]]
             k == CHOOSE h : Cuts(h)
  <1>1. EntriesOf(w, D) = k[D]
    BY Zenon DEF EntriesOf, MapThenSumSet, MapThenFoldSet
  <1>2. \A h : Cuts(h) <=> Sums(h, f, D)
    <2>1. \A t \in SUBSET D : t # {} =>
            f[Pick(t)] = w[(CHOOSE x \in t : TRUE)[1]][(CHOOSE x \in t : TRUE)[2]]
      <3> SUFFICES ASSUME NEW t \in SUBSET D, t # {}
                   PROVE  f[Pick(t)] = w[Pick(t)[1]][Pick(t)[2]]
        BY DEF Pick
      <3>1. Pick(t) \in D
        BY PickIn
      <3>2. QED
        BY <3>1 DEF Weights
    <2> SUFFICES ASSUME NEW h
                 PROVE  Cuts(h) <=> Sums(h, f, D)
      OBVIOUS
    <2> DEFINE Value(t) == IF t = {} THEN 0
                 ELSE w[(CHOOSE x \in t : TRUE)[1]][(CHOOSE x \in t : TRUE)[2]]
                        + h[t \ {CHOOSE x \in t : TRUE}]
               Other(t) == IF t = {} THEN 0 ELSE f[Pick(t)] + h[t \ {Pick(t)}]
    <2>2. \A t \in SUBSET D : Value(t) = Other(t)
      <3> HIDE DEF f
      <3>1. QED
        BY <2>1 DEF Pick
    <2>3. Cuts(h) <=> h = [t \in SUBSET D |-> Value(t)]
      OBVIOUS
    <2>4. Sums(h, f, D) <=> h = [t \in SUBSET D |-> Other(t)]
      BY DEF Sums
    <2> HIDE DEF Value, Other
    <2>5. [t \in SUBSET D |-> Value(t)] = [t \in SUBSET D |-> Other(t)]
      BY <2>2
    <2>6. QED
      BY <2>3, <2>4, <2>5
  <1>3. k = CHOOSE h : Sums(h, f, D)
    <2> HIDE DEF Cuts, f
    <2>1. QED
      BY <1>2
  <1>4. QED
    BY <1>1, <1>3 DEF Sum

\* A cut is the sum of the weights of the edges between the two sets.
LEMMA CutIsSum ==
  ASSUME NEW w, NEW A, NEW B, IsFiniteSet(A), IsFiniteSet(B),
         NEW D, D = CutEdges(w, A, B)
  PROVE  /\ IsFiniteSet(D)
         /\ CutBetween(w, A, B) = Sum(Weights(w, D), D)
  <1>1. IsFiniteSet(D)
    <2>1. IsFiniteSet(A \X B)
      BY FS_Product
    <2>2. QED
      BY <2>1, FS_Subset DEF CutEdges
  <1>2. CutBetween(w, A, B) = EntriesOf(w, D)
    BY Zenon DEF CutEdges, CutBetween, EntriesOf
  <1>3. QED
    BY <1>1, <1>2, EntriesSum

\* Cuts are integers.
LEMMA CutType ==
  ASSUME NEW w, NEW A, NEW B, IsFiniteSet(A), IsFiniteSet(B),
         \A n \in A, m \in B : w[n][m] \in Int
  PROVE  CutBetween(w, A, B) \in Int
  <1> DEFINE D == CutEdges(w, A, B)
  <1>1. IsFiniteSet(D) /\ CutBetween(w, A, B) = Sum(Weights(w, D), D)
    BY CutIsSum
  <1>2. \A e \in D : Weights(w, D)[e] \in Int
    BY DEF CutEdges, Weights
  <1> HIDE DEF D
  <1>3. QED
    BY <1>1, <1>2, SumType

\* Weights are integers.
LEMMA WeightType ==
  ASSUME NEW nw, NEW S, IsFiniteSet(S), \A n \in S : nw[n] \in Int
  PROVE  WeightOf(nw, S) \in Int
  BY WeightIsSum, SumType

\* The weight of two disjoint sets.
LEMMA WeightUnion ==
  ASSUME NEW nw, NEW S, IsFiniteSet(S), NEW T, IsFiniteSet(T), S \cap T = {},
         \A n \in S \cup T : nw[n] \in Int
  PROVE  WeightOf(nw, S \cup T) = WeightOf(nw, S) + WeightOf(nw, T)
  BY WeightIsSum, SumUnion

\* The weight of one element more.
LEMMA WeightAdd ==
  ASSUME NEW nw, NEW S, IsFiniteSet(S), NEW x, x \notin S, \A n \in S \cup {x} : nw[n] \in Int
  PROVE  /\ WeightOf(nw, S \cup {x}) = WeightOf(nw, S) + nw[x]
         /\ WeightOf(nw, S) \in Int
  <1>1. IsFiniteSet(S \cup {x}) /\ x \in S \cup {x} /\ (S \cup {x}) \ {x} = S
    BY FS_AddElement
  <1>2. Sum(nw, S \cup {x}) = nw[x] + Sum(nw, S)
    <2> DEFINE D == S \cup {x}
    <2> HIDE DEF D
    <2>1. Sum(nw, D) = nw[x] + Sum(nw, D \ {x})
      BY <1>1, SumRemove DEF D
    <2>2. QED
      BY <1>1, <2>1 DEF D
  <1>3. Sum(nw, S) \in Int /\ nw[x] \in Int
    BY SumType
  <1>4. QED
    BY <1>2, <1>3, WeightIsSum

\* The weight of one element less.
LEMMA WeightDrop ==
  ASSUME NEW nw, NEW S, IsFiniteSet(S), NEW x \in S, \A n \in S : nw[n] \in Int
  PROVE  /\ WeightOf(nw, S \ {x}) = WeightOf(nw, S) - nw[x]
         /\ WeightOf(nw, S \ {x}) \in Int
  <1>1. IsFiniteSet(S \ {x}) /\ \A n \in S \ {x} : nw[n] \in Int
    BY FS_Subset
  <1>2. Sum(nw, S) = nw[x] + Sum(nw, S \ {x})
    BY SumRemove
  <1>3. Sum(nw, S \ {x}) \in Int /\ nw[x] \in Int
    BY <1>1, SumType
  <1>4. Sum(nw, S \ {x}) = Sum(nw, S) - nw[x]
    BY <1>2, <1>3
  <1>5. QED
    BY <1>3, <1>4, WeightIsSum

\* Nothing weighs nothing.
LEMMA WeightEmpty == \A nw : WeightOf(nw, {}) = 0
  BY WeightIsSum, SumEmpty

\* The weight of one node.
LEMMA WeightSingle ==
  ASSUME NEW nw, NEW n, nw[n] \in Int
  PROVE  WeightOf(nw, {n}) = nw[n]
  <1>1. WeightOf(nw, {} \cup {n}) = WeightOf(nw, {}) + nw[n]
    BY FS_EmptySet, WeightAdd
  <1>2. {} \cup {n} = {n}
    OBVIOUS
  <1>3. QED
    BY <1>1, <1>2, WeightEmpty

\* Edges of weight 0 do not count.
LEMMA CutFull ==
  ASSUME NEW w, NEW A, NEW B, IsFiniteSet(A), IsFiniteSet(B),
         \A n \in A, m \in B : w[n][m] \in Nat
  PROVE  CutBetween(w, A, B) = Sum(Weights(w, A \X B), A \X B)
  <1> DEFINE D == CutEdges(w, A, B)
             Z == (A \X B) \ D
             f == Weights(w, A \X B)
  <1>1. IsFiniteSet(A \X B) /\ IsFiniteSet(D) /\ IsFiniteSet(Z)
    <2>1. IsFiniteSet(A \X B)
      BY FS_Product
    <2>2. D \subseteq A \X B /\ Z \subseteq A \X B
      BY DEF CutEdges
    <2> HIDE DEF D, Z
    <2>3. QED
      BY <2>1, <2>2, FS_Subset
  <1>2. CutBetween(w, A, B) = Sum(Weights(w, D), D)
    BY CutIsSum
  <1>3. \A e \in D : Weights(w, D)[e] = f[e]
    BY DEF Weights, CutEdges
  <1>4. \A e \in Z : f[e] = 0
    <2> SUFFICES ASSUME NEW e \in Z PROVE f[e] = 0
      OBVIOUS
    <2>1. e \in A \X B /\ e[1] \in A /\ e[2] \in B /\ f[e] = w[e[1]][e[2]]
      BY DEF Weights
    <2>2. ~ (w[e[1]][e[2]] > 0) /\ w[e[1]][e[2]] \in Nat
      BY <2>1 DEF CutEdges
    <2>3. QED
      BY <2>1, <2>2
  <1>5. \A e \in D \cup Z : f[e] \in Int
    BY DEF Weights, CutEdges
  <1>6. D \cup Z = A \X B /\ D \cap Z = {}
    BY DEF CutEdges
  <1> HIDE DEF D, Z, f
  <1>7. Sum(Weights(w, D), D) = Sum(f, D)
    BY <1>1, <1>3, SumSame
  <1>8. Sum(f, Z) = 0
    BY <1>1, <1>4, SumZero
  <1>9. Sum(f, D \cup Z) = Sum(f, D) + Sum(f, Z)
    BY <1>1, <1>5, <1>6, SumUnion
  <1>10. Sum(f, D) \in Int
    BY <1>1, <1>5, SumType
  <1>11. Sum(f, A \X B) = Sum(f, D)
    <2>1. Sum(f, A \X B) = Sum(f, D \cup Z)
      BY <1>6, Zenon
    <2>2. QED
      BY <1>8, <1>9, <1>10, <2>1
  <1>12. QED
    BY <1>2, <1>7, <1>11 DEF f

\* Over all pairs of two sets it is the cut, here also between sets that overlap.
LEMMA EntriesCut ==
  ASSUME NEW w, NEW A, NEW B, IsFiniteSet(A), IsFiniteSet(B),
         \A n \in A, m \in B : w[n][m] \in Nat
  PROVE  EntriesOf(w, A \X B) = CutBetween(w, A, B)
  BY EntriesSum, CutFull

\* The cut around one node is the weight of its row.
LEMMA CutRow ==
  ASSUME NEW w, NEW n, NEW B, IsFiniteSet(B), \A m \in B : w[n][m] \in Nat
  PROVE  CutBetween(w, {n}, B) = WeightOf(w[n], B)
  <1> DEFINE f == Weights(w, {n} \X B)
             b == [m \in B |-> <<n, m>>]
  <1>1. IsFiniteSet({n})
    BY FS_Singleton
  <1>2. CutBetween(w, {n}, B) = Sum(f, {n} \X B)
    BY <1>1, CutFull
  <1>3. \A m \in B : w[n][m] = f[b[m]] /\ w[n][m] \in Int
    BY DEF Weights
  <1>4. \A x, y \in B : b[x] = b[y] => x = y
    OBVIOUS
  <1>5. {b[m] : m \in B} = {n} \X B
    OBVIOUS
  <1> HIDE DEF f, b
  <1>6. Sum(w[n], B) = Sum(f, {b[m] : m \in B})
    BY <1>3, <1>4, SumRename
  <1>7. QED
    BY <1>2, <1>5, <1>6, WeightIsSum

\* The cut is additive in either set.
LEMMA CutUnion ==
  ASSUME NEW w, NEW A, NEW B, NEW C, IsFiniteSet(A), IsFiniteSet(B), IsFiniteSet(C),
         A \cap B = {}, \A n \in A \cup B, m \in C : w[n][m] \in Nat,
         \A n \in A \cup B, m \in C : w[m][n] \in Nat
  PROVE  /\ CutBetween(w, A \cup B, C) = CutBetween(w, A, C) + CutBetween(w, B, C)
         /\ CutBetween(w, C, A \cup B) = CutBetween(w, C, A) + CutBetween(w, C, B)
  <1>1. ASSUME NEW X, NEW Y, NEW XY, XY = X \cup Y, X \cap Y = {},
               IsFiniteSet(X), IsFiniteSet(Y), \A e \in XY : w[e[1]][e[2]] \in Int
        PROVE  Sum(Weights(w, XY), XY) = Sum(Weights(w, X), X) + Sum(Weights(w, Y), Y)
    <2> DEFINE f == Weights(w, XY)
    <2>1. \A e \in X : f[e] = Weights(w, X)[e]
      BY <1>1 DEF Weights
    <2>2. \A e \in Y : f[e] = Weights(w, Y)[e]
      BY <1>1 DEF Weights
    <2>3. \A e \in X \cup Y : f[e] \in Int
      BY <1>1 DEF Weights
    <2> HIDE DEF f
    <2>4. Sum(f, X \cup Y) = Sum(f, X) + Sum(f, Y)
      BY <1>1, <2>3, SumUnion
    <2>5. Sum(f, X) = Sum(Weights(w, X), X) /\ Sum(f, Y) = Sum(Weights(w, Y), Y)
      BY <1>1, <2>1, <2>2, SumSame
    <2>6. QED
      BY <1>1, <2>4, <2>5 DEF f
  <1>2. IsFiniteSet(A \cup B)
    BY FS_Union
  <1>3. /\ CutBetween(w, A \cup B, C) = Sum(Weights(w, (A \cup B) \X C), (A \cup B) \X C)
        /\ CutBetween(w, A, C) = Sum(Weights(w, A \X C), A \X C)
        /\ CutBetween(w, B, C) = Sum(Weights(w, B \X C), B \X C)
        /\ CutBetween(w, C, A \cup B) = Sum(Weights(w, C \X (A \cup B)), C \X (A \cup B))
        /\ CutBetween(w, C, A) = Sum(Weights(w, C \X A), C \X A)
        /\ CutBetween(w, C, B) = Sum(Weights(w, C \X B), C \X B)
    <2>1. /\ \A n \in A \cup B, m \in C : w[n][m] \in Nat
          /\ \A n \in C, m \in A \cup B : w[n][m] \in Nat
      OBVIOUS
    <2>2. CutBetween(w, A \cup B, C) = Sum(Weights(w, (A \cup B) \X C), (A \cup B) \X C)
      BY <1>2, CutFull
    <2>3. CutBetween(w, C, A \cup B) = Sum(Weights(w, C \X (A \cup B)), C \X (A \cup B))
      BY <1>2, CutFull
    <2>4. QED
      BY <2>2, <2>3, CutFull
  <1>4. /\ IsFiniteSet(A \X C) /\ IsFiniteSet(B \X C)
        /\ IsFiniteSet(C \X A) /\ IsFiniteSet(C \X B)
    BY FS_Product
  <1>5. /\ (A \cup B) \X C = (A \X C) \cup (B \X C)
        /\ (A \X C) \cap (B \X C) = {}
        /\ C \X (A \cup B) = (C \X A) \cup (C \X B)
        /\ (C \X A) \cap (C \X B) = {}
    BY Zenon
  <1>6. /\ \A e \in (A \cup B) \X C : w[e[1]][e[2]] \in Int
        /\ \A e \in C \X (A \cup B) : w[e[1]][e[2]] \in Int
    OBVIOUS
  <1>7. Sum(Weights(w, (A \cup B) \X C), (A \cup B) \X C) =
          Sum(Weights(w, A \X C), A \X C) + Sum(Weights(w, B \X C), B \X C)
    BY <1>1, <1>4, <1>5, <1>6
  <1>8. Sum(Weights(w, C \X (A \cup B)), C \X (A \cup B)) =
          Sum(Weights(w, C \X A), C \X A) + Sum(Weights(w, C \X B), C \X B)
    BY <1>1, <1>4, <1>5, <1>6
  <1>9. QED
    BY <1>3, <1>7, <1>8

\* In a symmetric graph the cut is the same from either side.
LEMMA CutSymmetric ==
  ASSUME NEW w, NEW A, NEW B, IsFiniteSet(A), IsFiniteSet(B),
         \A n \in A, m \in B : w[n][m] \in Nat /\ w[m][n] = w[n][m]
  PROVE  CutBetween(w, A, B) = CutBetween(w, B, A)
  <1> DEFINE D == A \X B
             E == B \X A
             f == Weights(w, D)
             g == Weights(w, E)
             b == [e \in D |-> <<e[2], e[1]>>]
  <1>1. CutBetween(w, A, B) = Sum(f, D) /\ CutBetween(w, B, A) = Sum(g, E) /\ IsFiniteSet(D)
    <2>1. \A n \in B, m \in A : w[n][m] \in Nat
      OBVIOUS
    <2>2. QED
      BY <2>1, CutFull, FS_Product
  <1>2. \A e \in D : f[e] = g[b[e]] /\ f[e] \in Int
    <2> TAKE e \in D
    <2>1. e[1] \in A /\ e[2] \in B /\ b[e] = <<e[2], e[1]>> /\ b[e] \in E
      OBVIOUS
    <2>2. f[e] = w[e[1]][e[2]] /\ g[b[e]] = w[e[2]][e[1]]
      BY <2>1 DEF Weights
    <2>3. QED
      BY <2>1, <2>2
  <1>3. \A x, y \in D : b[x] = b[y] => x = y
    OBVIOUS
  <1>4. {b[e] : e \in D} = E
    <2>1. ASSUME NEW e \in E PROVE \E d \in D : b[d] = e
      <3>1. <<e[2], e[1]>> \in D /\ b[<<e[2], e[1]>>] = e
        OBVIOUS
      <3> HIDE DEF b, D
      <3>2. QED
        BY <3>1
    <2>2. \A e \in D : b[e] \in E
      OBVIOUS
    <2> HIDE DEF b, D, E
    <2>3. QED
      BY <2>1, <2>2
  <1> HIDE DEF D, E, f, g, b
  <1>5. Sum(f, D) = Sum(g, {b[e] : e \in D})
    BY <1>1, <1>2, <1>3, SumRename
  <1>6. QED
    BY <1>1, <1>4, <1>5

\* Moving a node out of A into B takes its edges to B out of the cut and brings those to
\* the rest of A into it.
LEMMA CutMove ==
  ASSUME NEW w, NEW A, NEW B, IsFiniteSet(A), IsFiniteSet(B), NEW n \in A, n \notin B,
         \A x, y \in A \cup B : w[x][y] \in Nat /\ w[x][y] = w[y][x]
  PROVE  /\ CutBetween(w, A, B) - CutBetween(w, A \ {n}, B \cup {n}) =
              WeightOf(w[n], B) - WeightOf(w[n], A \ {n})
         /\ WeightOf(w[n], B) \in Int /\ WeightOf(w[n], A \ {n}) \in Int
         /\ CutBetween(w, A, B) \in Int /\ CutBetween(w, A \ {n}, B \cup {n}) \in Int
  <1> DEFINE R == A \ {n}
  <1>1. IsFiniteSet(R) /\ IsFiniteSet({n}) /\ R \cup {n} = A /\ R \cap {n} = {}
        /\ B \cap {n} = {} /\ R \subseteq A
    BY FS_Subset, FS_Singleton
  <1> HIDE DEF R
  <1>2. CutBetween(w, R \cup {n}, B) = CutBetween(w, R, B) + CutBetween(w, {n}, B)
    BY <1>1, CutUnion
  <1>3. CutBetween(w, R, B \cup {n}) = CutBetween(w, R, B) + CutBetween(w, R, {n})
    <2> DEFINE N == {n}
    <2>1. /\ \A x \in B \cup N, y \in R : w[x][y] \in Nat
          /\ \A x \in B \cup N, y \in R : w[y][x] \in Nat
      BY <1>1
    <2>2. IsFiniteSet(R) /\ IsFiniteSet(N) /\ B \cap N = {}
      BY <1>1
    <2> HIDE DEF N
    <2>3. /\ CutBetween(w, B \cup N, R) = CutBetween(w, B, R) + CutBetween(w, N, R)
          /\ CutBetween(w, R, B \cup N) = CutBetween(w, R, B) + CutBetween(w, R, N)
      BY <2>1, <2>2, CutUnion
    <2>4. QED
      BY <2>3 DEF N
  <1>4. CutBetween(w, R, {n}) = CutBetween(w, {n}, R)
    BY <1>1, CutSymmetric
  <1>5. CutBetween(w, {n}, B) = WeightOf(w[n], B) /\ CutBetween(w, {n}, R) = WeightOf(w[n], R)
    BY <1>1, CutRow
  <1>6. CutBetween(w, R, B) \in Int /\ WeightOf(w[n], B) \in Int /\ WeightOf(w[n], R) \in Int
    BY <1>1, CutType, WeightType
  <1>7. CutBetween(w, A, B) = CutBetween(w, R, B) + WeightOf(w[n], B)
    BY <1>1, <1>2, <1>5
  <1>8. CutBetween(w, R, B \cup {n}) = CutBetween(w, R, B) + WeightOf(w[n], R)
    BY <1>3, <1>4, <1>5
  <1>9. /\ CutBetween(w, A, B) - CutBetween(w, R, B \cup {n})
             = WeightOf(w[n], B) - WeightOf(w[n], R)
        /\ CutBetween(w, A, B) \in Int /\ CutBetween(w, R, B \cup {n}) \in Int
    BY <1>6, <1>7, <1>8
  <1>10. QED
    BY <1>6, <1>9 DEF R

\* What the two-way refinement promises.
LEMMA OutcomeType ==
  ASSUME NEW w, NEW nw, NEW F, NEW S, NEW cand, NEW sizeF, NEW sizeS, NEW cap,
         IsFiniteSet(F), IsFiniteSet(S), IsFiniteSet(cand),
         \A n \in F \cup cand, m \in S \cup cand : w[n][m] \in Int,
         NEW out \in FMOutcomes(w, nw, F, S, cand, sizeF, sizeS, cap)
  PROVE  out.gain \in Int /\ out.toSecond \subseteq cand
  <1>1. CASE out = [gain |-> 0, toSecond |-> cand \cap S]
    BY <1>1
  <1>2. CASE out # [gain |-> 0, toSecond |-> cand \cap S]
    <2>1. PICK T \in SUBSET cand :
            out = [gain |-> CutBetween(w, F, S)
                     - CutBetween(w, (F \cup cand) \ T, (S \ cand) \cup T),
                   toSecond |-> T]
      BY <1>2 DEF FMOutcomes
    <2>2. CutBetween(w, F, S) \in Int
      BY CutType
    <2>3. CutBetween(w, (F \cup cand) \ T, (S \ cand) \cup T) \in Int
      <3> DEFINE X == (F \cup cand) \ T
                 Y == (S \ cand) \cup T
      <3>1. IsFiniteSet(F \cup cand) /\ IsFiniteSet(S \cup cand)
        BY FS_Union
      <3>2. X \subseteq F \cup cand /\ Y \subseteq S \cup cand
        OBVIOUS
      <3>3. IsFiniteSet(X) /\ IsFiniteSet(Y)
        BY <3>1, <3>2, FS_Subset
      <3>4. \A n \in X, m \in Y : w[n][m] \in Int
        BY <3>2
      <3> HIDE DEF X, Y
      <3>5. CutBetween(w, X, Y) \in Int
        BY <3>3, <3>4, CutType
      <3>6. QED
        BY <3>5 DEF X, Y
    <2>4. QED
      BY <2>1, <2>2, <2>3
  <1>3. QED
    BY <1>1, <1>2

\* A gain comes with an exchange after which both blocks fit.
LEMMA OutcomeFits ==
  ASSUME NEW w, NEW nw, NEW F, NEW S, NEW cand, NEW sizeF, NEW sizeS, NEW cap,
         NEW out \in FMOutcomes(w, nw, F, S, cand, sizeF, sizeS, cap),
         out.gain > 0
  PROVE  LET T == out.toSecond
             shift == WeightOf(nw, T \ S) - WeightOf(nw, (cand \cap S) \ T)
         IN  sizeF - shift <= cap /\ sizeS + shift <= cap
  <1> DEFINE gain(T)  == CutBetween(w, F, S)
                        - CutBetween(w, (F \cup cand) \ T, (S \ cand) \cup T)
             shift(T) == WeightOf(nw, T \ S) - WeightOf(nw, (cand \cap S) \ T)
             Better == {T \in SUBSET cand : /\ ~ (sizeF >= cap /\ sizeS >= cap)
                                            /\ gain(T) > 0
                                            /\ sizeF - shift(T) <= cap
                                            /\ sizeS + shift(T) <= cap}
  <1>1. out # [gain |-> 0, toSecond |-> cand \cap S]
    OBVIOUS
  <1>2. out \in {[gain |-> gain(T), toSecond |-> T] : T \in Better}
    BY <1>1, Zenon DEF FMOutcomes
  <1> HIDE DEF gain, shift
  <1>3. PICK T \in Better : out = [gain |-> gain(T), toSecond |-> T]
    BY <1>2
  <1>4. out.toSecond = T /\ sizeF - shift(T) <= cap /\ sizeS + shift(T) <= cap
    BY <1>3
  <1>5. QED
    BY <1>4 DEF shift

\* The gain of an outcome is what the cut between the two blocks falls by.
LEMMA OutcomeGain ==
  ASSUME NEW w, NEW nw, NEW F, NEW S, NEW cand, NEW sizeF, NEW sizeS, NEW cap,
         IsFiniteSet(F), IsFiniteSet(S), F \cap S = {}, cand \subseteq F \cup S,
         \A n \in F, m \in S : w[n][m] \in Int,
         NEW out \in FMOutcomes(w, nw, F, S, cand, sizeF, sizeS, cap)
  PROVE  out.gain = CutBetween(w, F, S)
           - CutBetween(w, (F \cup cand) \ out.toSecond, (S \ cand) \cup out.toSecond)
  <1> DEFINE gain(T) == CutBetween(w, F, S)
                          - CutBetween(w, (F \cup cand) \ T, (S \ cand) \cup T)
  <1>1. CASE out = [gain |-> 0, toSecond |-> cand \cap S]
    <2> DEFINE T == cand \cap S
    <2>1. out.gain = 0 /\ out.toSecond = T
      BY <1>1
    <2>2. (F \cup cand) \ T = F /\ (S \ cand) \cup T = S
      OBVIOUS
    <2>3. CutBetween(w, F, S) \in Int
      BY CutType
    <2> HIDE DEF T
    <2>4. CutBetween(w, (F \cup cand) \ T, (S \ cand) \cup T) = CutBetween(w, F, S)
      BY <2>2, Zenon
    <2>5. CutBetween(w, F, S)
            - CutBetween(w, (F \cup cand) \ T, (S \ cand) \cup T) = 0
      BY <2>3, <2>4
    <2>6. QED
      BY <2>1, <2>5
  <1>2. CASE \E T \in SUBSET cand : out = [gain |-> gain(T), toSecond |-> T]
    <2>1. PICK T \in SUBSET cand : out = [gain |-> gain(T), toSecond |-> T]
      BY <1>2
    <2> HIDE DEF gain
    <2>2. out.gain = gain(T) /\ out.toSecond = T
      BY <2>1
    <2>3. out.gain = gain(out.toSecond)
      BY <2>2
    <2>4. QED
      BY <2>3 DEF gain
  <1>3. QED
    <2> HIDE DEF gain
    <2>1. out \in {[gain |-> 0, toSecond |-> cand \cap S]}
             \/ \E T \in SUBSET cand : out = [gain |-> gain(T), toSecond |-> T]
      BY DEF FMOutcomes, gain
    <2>2. QED
      BY <1>1, <1>2, <2>1

\* A sum of natural numbers is one, and it is not 0 if one of them is not.
LEMMA SumPositive ==
  ASSUME NEW D, IsFiniteSet(D), NEW f, \A x \in D : f[x] \in Nat
  PROVE  /\ Sum(f, D) \in Nat
         /\ Sum(f, D) > 0 <=> \E x \in D : f[x] > 0
  <1> DEFINE B == {t \in SUBSET D : Sum(f, t) \notin Nat}
  <1>1. B = {}
    <2>1. SUFFICES ASSUME B # {} PROVE FALSE
      OBVIOUS
    <2>2. PICK t \in B : \A u \in SUBSET t : u # t => u \notin B
      <3>1. B \in SUBSET (SUBSET D)
        OBVIOUS
      <3> HIDE DEF B
      <3>2. QED
        BY <2>1, <3>1, SmallestSet
    <2>3. t \in SUBSET D /\ IsFiniteSet(t)
      BY FS_Subset
    <2>4. t # {}
      BY SumEmpty
    <2>5. Pick(t) \in t
      BY <2>4, PickIn
    <2>6. Sum(f, t \ {Pick(t)}) \in Nat
      BY <2>2, <2>5
    <2>7. Sum(f, t) = f[Pick(t)] + Sum(f, t \ {Pick(t)})
      BY <2>3, <2>4, SumPick
    <2>8. f[Pick(t)] \in Nat
      BY <2>3, <2>5
    <2>9. QED
      BY <2>6, <2>7, <2>8
  <1>2. \A t \in SUBSET D : Sum(f, t) \in Nat
    BY <1>1
  <1> HIDE DEF B
  <1>3. ASSUME NEW y \in D, f[y] > 0 PROVE Sum(f, D) > 0
    <2>1. Sum(f, D) = f[y] + Sum(f, D \ {y})
      BY SumRemove
    <2>2. Sum(f, D \ {y}) \in Nat /\ f[y] \in Nat
      BY <1>2
    <2>3. QED
      BY <1>3, <2>1, <2>2
  <1>4. ASSUME \A x \in D : ~ f[x] > 0 PROVE Sum(f, D) = 0
    <2>1. \A x \in D : f[x] = 0
      BY <1>4
    <2>2. QED
      BY <2>1, SumZero
  <1>5. Sum(f, D) \in Nat
    BY <1>2
  <1>6. QED
    BY <1>3, <1>4, <1>5

\* A sum may be taken part by part.
LEMMA SumParts ==
  ASSUME NEW D, IsFiniteSet(D), NEW f, \A x \in D : f[x] \in Int,
         NEW K, IsFiniteSet(K), NEW part, \A k \in K : part[k] \in SUBSET D,
         \A x \in D : \E k \in K : x \in part[k],
         \A k, l \in K : k # l => part[k] \cap part[l] = {},
         NEW g, \A k \in K : g[k] = Sum(f, part[k])
  PROVE  Sum(f, D) = Sum(g, K)
  <1> DEFINE All(t) == UNION {part[k] : k \in t}
             B == {t \in SUBSET K : Sum(f, All(t)) # Sum(g, t)}
  <1>1. B = {}
    <2>1. SUFFICES ASSUME B # {} PROVE FALSE
      OBVIOUS
    <2>2. PICK t \in B : \A u \in SUBSET t : u # t => u \notin B
      <3>1. B \in SUBSET (SUBSET K)
        OBVIOUS
      <3> HIDE DEF B
      <3>2. QED
        BY <2>1, <3>1, SmallestSet
    <2>3. t \in SUBSET K /\ IsFiniteSet(t)
      BY FS_Subset
    <2>4. t # {}
      <3>1. All({}) = {}
        OBVIOUS
      <3>2. Sum(f, All({})) = 0 /\ Sum(g, {}) = 0
        BY <3>1, SumEmpty
      <3>3. QED
        BY <3>2
    <2> DEFINE y == Pick(t)
               r == t \ {y}
               X == part[y]
               Y == All(r)
    <2>5. y \in t /\ y \in K /\ r \in SUBSET t /\ r # t
      BY <2>3, <2>4, PickIn
    <2>6. Sum(f, Y) = Sum(g, r)
      BY <2>2, <2>5
    <2>7. All(t) = X \cup Y /\ X \cap Y = {} /\ X \subseteq D /\ Y \subseteq D
      <3>1. \A k \in r : k \in K /\ k # y
        BY <2>5
      <3>2. t = r \cup {y}
        BY <2>5
      <3>3. All(t) = X \cup Y
        BY <3>2
      <3>4. X \cap Y = {}
        BY <2>5, <3>1
      <3>5. QED
        BY <2>5, <3>1, <3>3, <3>4
    <2>8. g[y] = Sum(f, X)
      BY <2>5
    <2>9. Sum(g, t) = g[y] + Sum(g, r)
      BY <2>3, <2>4, SumPick
    <2>10. Sum(f, All(t)) # Sum(g, t)
      OBVIOUS
    <2> HIDE DEF X, Y, All, y, r
    <2>11. IsFiniteSet(X) /\ IsFiniteSet(Y) /\ \A x \in X \cup Y : f[x] \in Int
      BY <2>7, FS_Subset
    <2>12. Sum(f, X \cup Y) = Sum(f, X) + Sum(f, Y)
      BY <2>7, <2>11, SumUnion
    <2>13. QED
      BY <2>6, <2>7, <2>8, <2>9, <2>10, <2>12
  <1>2. All(K) = D
    OBVIOUS
  <1>3. Sum(f, All(K)) = Sum(g, K)
    BY <1>1
  <1> HIDE DEF All
  <1>4. QED
    BY <1>2, <1>3

\* There is a positive cut between two sets if and only if there is an edge.
LEMMA CutPositive ==
  ASSUME NEW w, NEW A, NEW B, IsFiniteSet(A), IsFiniteSet(B),
         \A n \in A, m \in B : w[n][m] \in Nat
  PROVE  /\ CutBetween(w, A, B) \in Nat
         /\ CutBetween(w, A, B) > 0 <=> \E n \in A, m \in B : w[n][m] > 0
  <1> DEFINE D == A \X B
             f == Weights(w, D)
  <1>1. CutBetween(w, A, B) = Sum(f, D)
    BY CutFull
  <1>2. IsFiniteSet(D)
    BY FS_Product
  <1>3. \A e \in D : f[e] = w[e[1]][e[2]] /\ f[e] \in Nat
    BY DEF Weights
  <1>4. (\E e \in D : f[e] > 0) <=> \E n \in A, m \in B : w[n][m] > 0
    <2>1. ASSUME NEW n \in A, NEW m \in B PROVE <<n, m>> \in D /\ f[<<n, m>>] = w[n][m]
      BY DEF Weights
    <2>2. \A e \in D : e[1] \in A /\ e[2] \in B /\ f[e] = w[e[1]][e[2]]
      BY <1>3
    <2> HIDE DEF D, f
    <2>3. QED
      BY <2>1, <2>2
  <1> HIDE DEF D, f
  <1>5. QED
    BY <1>1, <1>2, <1>3, <1>4, SumPositive

\* The nodes that map takes to c, and to any node of C.
Fibre(map, c) == {n \in DOMAIN map : map[n] = c}
Over(map, C) == {n \in DOMAIN map : map[n] \in C}

\* In a contracted graph a cut is what it is in the graph itself.
LEMMA CutFibres ==
  ASSUME NEW w, NEW v, NEW map, IsFiniteSet(DOMAIN map),
         \A n, m \in DOMAIN map : w[n][m] \in Nat,
         NEW A, NEW B, IsFiniteSet(A), IsFiniteSet(B),
         \A c \in A, d \in B : v[c][d] = CutBetween(w, Fibre(map, c), Fibre(map, d))
  PROVE  CutBetween(v, A, B) = CutBetween(w, Over(map, A), Over(map, B))
  <1> DEFINE X == Over(map, A)
             Y == Over(map, B)
             D == X \X Y
             f == Weights(w, D)
             b == [e \in D |-> <<map[e[1]], map[e[2]]>>]
             K == A \X B
             g == Weights(v, K)
  <1>1. X \subseteq DOMAIN map /\ Y \subseteq DOMAIN map
    BY DEF Over
  <1>2. IsFiniteSet(X) /\ IsFiniteSet(Y)
    <2> HIDE DEF X, Y
    <2>1. QED
      BY <1>1, FS_Subset
  <1>3. IsFiniteSet(D) /\ IsFiniteSet(K)
    BY <1>2, FS_Product
  <1>4. CutBetween(w, X, Y) = Sum(f, D)
    <2>1. \A n \in X, m \in Y : w[n][m] \in Nat
      BY <1>1
    <2> HIDE DEF X, Y
    <2>2. QED
      BY <1>2, <2>1, CutFull
  <1>5. \A e \in D : f[e] \in Int
    <2>1. \A e \in D : f[e] = w[e[1]][e[2]] /\ e[1] \in DOMAIN map /\ e[2] \in DOMAIN map
      BY <1>1 DEF Weights
    <2> HIDE DEF f, D
    <2>2. QED
      BY <2>1
  <1>6. \A e \in D : b[e] \in K
    BY DEF Over
  <1>7. ASSUME NEW k \in K PROVE g[k] = Sum(f, {e \in D : b[e] = k}) /\ g[k] \in Nat
    <2> DEFINE M == Fibre(map, k[1])
               N == Fibre(map, k[2])
    <2>1. k[1] \in A /\ k[2] \in B /\ k = <<k[1], k[2]>>
      OBVIOUS
    <2>2. M \subseteq X /\ N \subseteq Y /\ M \subseteq DOMAIN map /\ N \subseteq DOMAIN map
      BY <2>1 DEF Fibre, Over
    <2>3. {e \in D : b[e] = k} = M \X N
      <3>1. ASSUME NEW e \in D PROVE b[e] = k <=> e \in M \X N
        <4>1. b[e] = <<map[e[1]], map[e[2]]>> /\ e = <<e[1], e[2]>>
              /\ e[1] \in DOMAIN map /\ e[2] \in DOMAIN map
          BY <1>1
        <4>2. b[e] = k <=> map[e[1]] = k[1] /\ map[e[2]] = k[2]
          BY <2>1, <4>1
        <4>3. QED
          BY <4>1, <4>2 DEF Fibre
      <3>2. M \X N \subseteq D
        BY <2>2
      <3> HIDE DEF b, D, M, N
      <3>3. QED
        BY <3>1, <3>2
    <2>4. g[k] = v[k[1]][k[2]] /\ v[k[1]][k[2]] = CutBetween(w, M, N)
      BY <2>1 DEF Weights
    <2>5. IsFiniteSet(M) /\ IsFiniteSet(N) /\ \A n \in M, m \in N : w[n][m] \in Nat
      <3> HIDE DEF M, N
      <3>1. QED
        BY <2>2, FS_Subset
    <2>6. CutBetween(w, M, N) = Sum(Weights(w, M \X N), M \X N) /\ CutBetween(w, M, N) \in Nat
      <3> HIDE DEF M, N
      <3>1. QED
        BY <2>5, CutFull, CutPositive
    <2>7. Sum(Weights(w, M \X N), M \X N) = Sum(f, M \X N)
      <3>1. IsFiniteSet(M \X N)
        BY <2>5, FS_Product
      <3>2. \A e \in M \X N : Weights(w, M \X N)[e] = f[e]
        BY <2>2 DEF Weights
      <3> HIDE DEF f, M, N
      <3>3. QED
        BY <3>1, <3>2, SumSame
    <2> HIDE DEF M, N, g, f, D, b
    <2>8. QED
      BY <2>3, <2>4, <2>6, <2>7
  <1>8. Sum(f, D) = Sum(g, K)
    <2> DEFINE part == [k \in K |-> {e \in D : b[e] = k}]
    <2>1. \A k \in K : part[k] \in SUBSET D /\ g[k] = Sum(f, part[k])
      BY <1>7
    <2>2. \A e \in D : \E k \in K : e \in part[k]
      BY <1>6
    <2>3. \A k, l \in K : k # l => part[k] \cap part[l] = {}
      OBVIOUS
    <2> HIDE DEF f, D, g, K, b, part
    <2>4. QED
      BY <1>3, <1>5, <2>1, <2>2, <2>3, SumParts
  <1>9. CutBetween(v, A, B) = Sum(g, K)
    <2>1. \A c \in A, d \in B : v[c][d] \in Nat
      <3>1. \A c \in A, d \in B : <<c, d>> \in K /\ g[<<c, d>>] = v[c][d]
        BY DEF Weights
      <3> HIDE DEF g, K
      <3>2. QED
        BY <1>7, <3>1
    <2>2. QED
      BY <2>1, CutFull
  <1>10. QED
    BY <1>4, <1>8, <1>9

Leaving(w, block) ==
  [p \in DOMAIN block |-> CutBetween(w, block[p], (DOMAIN w) \ block[p])]

\* The cut of a partition is the sum of what leaves its blocks.
LEMMA CutSumIsSum ==
  ASSUME NEW w, NEW block, NEW D, D = DOMAIN block, IsFiniteSet(D)
  PROVE  CutSum(w, block) = Sum(Leaving(w, block), D)
  <1> DEFINE f == Leaving(w, block)
             Cut(p) == CutBetween(w, block[p], (DOMAIN w) \ block[p])
             Cuts(h) == h = [t \in SUBSET D |->
               IF t = {} THEN 0
               ELSE Cut(CHOOSE x \in t : TRUE) + h[t \ {CHOOSE x \in t : TRUE}]]
             k == CHOOSE h : Cuts(h)
  <1>1. CutSum(w, block) = k[D]
    BY Zenon DEF CutSum, MapThenSumSet, MapThenFoldSet
  <1>2. \A h : Cuts(h) <=> Sums(h, f, D)
    <2>1. \A t \in SUBSET D : t # {} => f[Pick(t)] = Cut(CHOOSE x \in t : TRUE)
      <3> SUFFICES ASSUME NEW t \in SUBSET D, t # {}
                   PROVE  f[Pick(t)] = Cut(Pick(t))
        BY DEF Pick
      <3>1. Pick(t) \in D
        BY PickIn
      <3>2. QED
        BY <3>1 DEF Leaving
    <2> SUFFICES ASSUME NEW h
                 PROVE  Cuts(h) <=> Sums(h, f, D)
      OBVIOUS
    <2> DEFINE Value(t) == IF t = {} THEN 0
                 ELSE Cut(CHOOSE x \in t : TRUE) + h[t \ {CHOOSE x \in t : TRUE}]
               Other(t) == IF t = {} THEN 0 ELSE f[Pick(t)] + h[t \ {Pick(t)}]
    <2>2. \A t \in SUBSET D : Value(t) = Other(t)
      <3> HIDE DEF f, Cut
      <3>1. QED
        BY <2>1 DEF Pick
    <2>3. Cuts(h) <=> h = [t \in SUBSET D |-> Value(t)]
      OBVIOUS
    <2>4. Sums(h, f, D) <=> h = [t \in SUBSET D |-> Other(t)]
      BY DEF Sums
    <2> HIDE DEF Value, Other, Cuts, Cut, f
    <2>5. [t \in SUBSET D |-> Value(t)] = [t \in SUBSET D |-> Other(t)]
      BY <2>2
    <2>6. QED
      BY <2>3, <2>4, <2>5
  <1> HIDE DEF Cuts, f
  <1>3. \E h : Cuts(h)
    BY <1>2, SumsExist
  <1>4. Sums(k, f, D)
    BY <1>2, <1>3
  <1>5. k[D] = Sum(f, D)
    <2> DEFINE j == CHOOSE h : Sums(h, f, D)
    <2>1. Sums(j, f, D)
      BY <1>4
    <2>2. Sum(f, D) = j[D] /\ D \in SUBSET D
      BY DEF Sum
    <2> HIDE DEF j, k
    <2>3. QED
      BY <1>4, <2>1, <2>2, SumsUnique
  <1>6. QED
    BY <1>1, <1>5 DEF f

\* What leaves two blocks: the edges between them, from both sides, and what
\* leaves both together.
LEMMA LeavingTwo ==
  ASSUME NEW w, IsFiniteSet(DOMAIN w),
         \A n, m \in DOMAIN w : w[n][m] \in Nat /\ w[n][m] = w[m][n],
         NEW X, NEW Y, NEW U, X \subseteq DOMAIN w, Y \subseteq DOMAIN w, X \cap Y = {},
         U = X \cup Y
  PROVE  /\ CutBetween(w, X, (DOMAIN w) \ X) + CutBetween(w, Y, (DOMAIN w) \ Y)
              = 2 * CutBetween(w, X, Y) + CutBetween(w, U, (DOMAIN w) \ U)
         /\ CutBetween(w, X, Y) \in Int
         /\ CutBetween(w, U, (DOMAIN w) \ U) \in Int
         /\ CutBetween(w, X, (DOMAIN w) \ X) \in Int
         /\ CutBetween(w, Y, (DOMAIN w) \ Y) \in Int
  <1> DEFINE Rest == (DOMAIN w) \ U
             OffX == (DOMAIN w) \ X
             OffY == (DOMAIN w) \ Y
  <1>1. /\ OffX = Y \cup Rest /\ OffY = X \cup Rest
        /\ Y \cap Rest = {} /\ X \cap Rest = {} /\ Rest \subseteq DOMAIN w
    OBVIOUS
  <1>2. IsFiniteSet(X) /\ IsFiniteSet(Y) /\ IsFiniteSet(Rest) /\ IsFiniteSet(U)
    BY <1>1, FS_Subset
  <1>3. /\ \A n, m \in X \cup Y : w[n][m] \in Nat /\ w[n][m] = w[m][n]
        /\ \A n \in X \cup Y, m \in Rest : w[n][m] \in Nat /\ w[m][n] \in Nat
        /\ \A n, m \in Rest : w[n][m] \in Nat
        /\ \A n \in Rest, m \in X \cup Y : w[n][m] \in Nat
    OBVIOUS
  <1> HIDE DEF Rest, OffX, OffY
  <1>4. CutBetween(w, X, OffX) = CutBetween(w, X, Y) + CutBetween(w, X, Rest)
    <2>1. \A n \in Y \cup Rest, m \in X : w[n][m] \in Nat /\ w[m][n] \in Nat
      BY <1>3
    <2>2. /\ CutBetween(w, Y \cup Rest, X) = CutBetween(w, Y, X) + CutBetween(w, Rest, X)
          /\ CutBetween(w, X, Y \cup Rest) = CutBetween(w, X, Y) + CutBetween(w, X, Rest)
      BY <1>1, <1>2, <2>1, CutUnion
    <2>3. QED
      BY <1>1, <2>2, Zenon
  <1>5. CutBetween(w, Y, OffY) = CutBetween(w, Y, X) + CutBetween(w, Y, Rest)
    <2>1. \A n \in X \cup Rest, m \in Y : w[n][m] \in Nat /\ w[m][n] \in Nat
      BY <1>3
    <2>2. /\ CutBetween(w, X \cup Rest, Y) = CutBetween(w, X, Y) + CutBetween(w, Rest, Y)
          /\ CutBetween(w, Y, X \cup Rest) = CutBetween(w, Y, X) + CutBetween(w, Y, Rest)
      BY <1>1, <1>2, <2>1, CutUnion
    <2>3. QED
      BY <1>1, <2>2, Zenon
  <1>6. CutBetween(w, U, Rest) = CutBetween(w, X, Rest) + CutBetween(w, Y, Rest)
    BY <1>1, <1>2, <1>3, CutUnion
  <1>7. CutBetween(w, X, Y) = CutBetween(w, Y, X)
    BY <1>2, <1>3, CutSymmetric
  <1>8. /\ CutBetween(w, X, Y) \in Nat /\ CutBetween(w, X, Rest) \in Nat
        /\ CutBetween(w, Y, Rest) \in Nat
    BY <1>2, <1>3, CutPositive
  <1>9. QED
    BY <1>4, <1>5, <1>6, <1>7, <1>8 DEF Rest, OffX, OffY

\* When two blocks share their nodes out anew, the cut of the partition changes by
\* what the cut between them does, counted from both sides.
LEMMA CutSumShare ==
  ASSUME NEW w, IsFiniteSet(DOMAIN w),
         \A n, m \in DOMAIN w : w[n][m] \in Nat /\ w[n][m] = w[m][n],
         NEW D, IsFiniteSet(D), NEW block \in [D -> SUBSET DOMAIN w],
         NEW other \in [D -> SUBSET DOMAIN w],
         NEW p \in D, NEW q \in D, p # q,
         \A r \in D : r # p /\ r # q => other[r] = block[r],
         block[p] \cap block[q] = {}, other[p] \cap other[q] = {},
         block[p] \cup block[q] = other[p] \cup other[q]
  PROVE  /\ CutSum(w, other) = CutSum(w, block)
              - 2 * (CutBetween(w, block[p], block[q]) - CutBetween(w, other[p], other[q]))
         /\ CutSum(w, other) \in Int /\ CutSum(w, block) \in Int
         /\ CutBetween(w, block[p], block[q]) \in Int
         /\ CutBetween(w, other[p], other[q]) \in Int
  <1> DEFINE R == (D \ {p}) \ {q}
             U == block[p] \cup block[q]
             f == Leaving(w, block)
             g == Leaving(w, other)
  <1> DEFINE Leaves(X, Y, Z) ==
        /\ CutBetween(w, X, (DOMAIN w) \ X) + CutBetween(w, Y, (DOMAIN w) \ Y)
              = 2 * CutBetween(w, X, Y) + CutBetween(w, Z, (DOMAIN w) \ Z)
        /\ CutBetween(w, X, Y) \in Int
        /\ CutBetween(w, Z, (DOMAIN w) \ Z) \in Int
        /\ CutBetween(w, X, (DOMAIN w) \ X) \in Int
        /\ CutBetween(w, Y, (DOMAIN w) \ Y) \in Int
  <1>0. \A X, Y : X \subseteq DOMAIN w /\ Y \subseteq DOMAIN w /\ X \cap Y = {}
           => Leaves(X, Y, X \cup Y)
    BY LeavingTwo
  <1> HIDE DEF Leaves
  <1>1. CutSum(w, block) = Sum(f, D) /\ CutSum(w, other) = Sum(g, D)
    BY CutSumIsSum
  <1>2. /\ \A r \in D : f[r] = CutBetween(w, block[r], (DOMAIN w) \ block[r])
        /\ \A r \in D : g[r] = CutBetween(w, other[r], (DOMAIN w) \ other[r])
    BY DEF Leaving
  <1>3. \A r \in D : f[r] \in Int /\ g[r] \in Int
    <2>1. ASSUME NEW X, X \subseteq DOMAIN w
          PROVE  CutBetween(w, X, (DOMAIN w) \ X) \in Int
      <3>1. IsFiniteSet(X) /\ IsFiniteSet((DOMAIN w) \ X)
        BY <2>1, FS_Subset
      <3>2. \A n \in X, m \in (DOMAIN w) \ X : w[n][m] \in Int
        BY <2>1
      <3>3. QED
        BY <3>1, <3>2, CutType
    <2>2. \A r \in D : block[r] \subseteq DOMAIN w /\ other[r] \subseteq DOMAIN w
      OBVIOUS
    <2> HIDE DEF f, g
    <2>3. \A r \in D : /\ CutBetween(w, block[r], (DOMAIN w) \ block[r]) \in Int
                       /\ CutBetween(w, other[r], (DOMAIN w) \ other[r]) \in Int
      BY <2>1, <2>2, Zenon
    <2>4. QED
      BY <1>2, <2>3, Zenon
  <1>4. \A r \in R : f[r] = g[r]
    <2> HIDE DEF f, g
    <2>1. QED
      BY <1>2
  <1> HIDE DEF f, g
  <1>5. Sum(f, R) = Sum(g, R) /\ Sum(f, R) \in Int
    <2>1. IsFiniteSet(R) /\ R \subseteq D
      BY FS_Subset
    <2> HIDE DEF R
    <2>2. QED
      BY <1>3, <1>4, <2>1, SumSame, SumType
  <1>6. Sum(f, D) = f[p] + (f[q] + Sum(f, R)) /\ Sum(g, D) = g[p] + (g[q] + Sum(g, R))
    <2>1. IsFiniteSet(D \ {p}) /\ q \in D \ {p} /\ D \ {p} \subseteq D
      BY FS_Subset
    <2>2. Sum(f, D) = f[p] + Sum(f, D \ {p}) /\ Sum(g, D) = g[p] + Sum(g, D \ {p})
      BY <1>3, SumRemove
    <2>3. Sum(f, D \ {p}) = f[q] + Sum(f, R) /\ Sum(g, D \ {p}) = g[q] + Sum(g, R)
      BY <1>3, <2>1, SumRemove
    <2>4. QED
      BY <2>2, <2>3
  <1> HIDE DEF R
  <1> DEFINE V == (DOMAIN w) \ U
             A == block[p]
             B == block[q]
             C == other[p]
             E == other[q]
  <1>7. /\ A \subseteq DOMAIN w /\ B \subseteq DOMAIN w /\ A \cap B = {} /\ U = A \cup B
        /\ C \subseteq DOMAIN w /\ E \subseteq DOMAIN w /\ C \cap E = {} /\ U = C \cup E
        /\ f[p] = CutBetween(w, A, (DOMAIN w) \ A) /\ f[q] = CutBetween(w, B, (DOMAIN w) \ B)
        /\ g[p] = CutBetween(w, C, (DOMAIN w) \ C) /\ g[q] = CutBetween(w, E, (DOMAIN w) \ E)
    BY <1>2
  <1> HIDE DEF U, A, B, C, E
  <1>8. /\ f[p] + f[q] = 2 * CutBetween(w, A, B) + CutBetween(w, U, V)
        /\ CutBetween(w, A, B) \in Int /\ CutBetween(w, U, V) \in Int
    <2>1. Leaves(A, B, A \cup B)
      BY <1>0, <1>7
    <2>2. QED
      BY <1>7, <2>1 DEF Leaves
  <1>10. /\ g[p] + g[q] = 2 * CutBetween(w, C, E) + CutBetween(w, U, V)
         /\ CutBetween(w, C, E) \in Int
    <2>1. Leaves(C, E, C \cup E)
      BY <1>0, <1>7
    <2>2. QED
      BY <1>7, <2>1 DEF Leaves
  <1> HIDE DEF V
  <1>9. f[p] \in Int /\ f[q] \in Int /\ g[p] \in Int /\ g[q] \in Int
    BY <1>3
  <1>11. /\ Sum(g, D) = Sum(f, D) - 2 * (CutBetween(w, A, B) - CutBetween(w, C, E))
         /\ Sum(f, D) \in Int /\ Sum(g, D) \in Int
    BY <1>5, <1>6, <1>8, <1>9, <1>10
  <1>12. QED
    BY <1>1, <1>8, <1>10, <1>11 DEF A, B, C, E

\* Every set of natural numbers that is not empty has a least one.
LEMMA LeastNatural ==
  ASSUME NEW T \in SUBSET Nat, T # {}
  PROVE  \E m \in T : \A k \in T : m <= k
  <1>1. PICK n \in T : TRUE
    OBVIOUS
  <1> DEFINE D == 0 .. n
             B == {0 .. k : k \in {k \in T : k <= n}}
  <1>2. IsFiniteSet(D)
    BY FS_Interval
  <1>3. B \in SUBSET (SUBSET D) /\ B # {}
    BY <1>1
  <1>4. PICK t \in B : \A u \in SUBSET t : u # t => u \notin B
    <2> HIDE DEF B, D
    <2>1. QED
      BY <1>2, <1>3, SmallestSet
  <1>5. PICK m \in T : m <= n /\ t = 0 .. m
    BY <1>4
  <1>6. ASSUME NEW k \in T, ~ (m <= k) PROVE FALSE
    <2>1. k \in Nat /\ m \in Nat /\ n \in Nat /\ k <= n /\ k < m
      BY <1>5, <1>6
    <2>2. 0 .. k \in B
      BY <2>1
    <2>3. 0 .. k \in SUBSET t /\ 0 .. k # t
      <3>1. m \in t /\ m \notin 0 .. k
        BY <1>5, <2>1
      <3>2. QED
        BY <1>5, <2>1, <3>1
    <2>4. QED
      BY <1>4, <2>2, <2>3
  <1>7. QED
    BY <1>6

\* h takes a, G[a], G[G[a]] and so on, n times.
Iterates(h, n, S, a, G) ==
  h \in [0 .. n -> S] /\ h[0] = a /\ \A k \in 0 .. (n - 1) : h[k + 1] = G[h[k]]

\* f takes them all.
Repeats(f, S, a, G) ==
  f \in [Nat -> S] /\ f[0] = a /\ \A k \in Nat : f[k + 1] = G[f[k]]

\* A function can be applied again and again.
LEMMA IterationExists ==
  ASSUME NEW S, NEW a \in S, NEW G \in [S -> S]
  PROVE  \E f : Repeats(f, S, a, G)
  <1>1. ASSUME NEW n \in Nat PROVE \E h : Iterates(h, n, S, a, G)
    <2> DEFINE T == {k \in Nat : ~ \E h : Iterates(h, k, S, a, G)}
    <2>1. SUFFICES ASSUME T # {} PROVE FALSE
      OBVIOUS
    <2>2. PICK m \in T : \A k \in T : m <= k
      <3>1. T \in SUBSET Nat
        OBVIOUS
      <3> HIDE DEF T
      <3>2. QED
        BY <2>1, <3>1, LeastNatural
    <2>3. CASE m = 0
      <3>1. Iterates([i \in 0 .. 0 |-> a], 0, S, a, G)
        BY DEF Iterates
      <3>2. QED
        BY <2>3, <3>1
    <2>4. CASE m # 0
      <3>1. m - 1 \in Nat /\ m - 1 \notin T /\ m \in Nat
        BY <2>2, <2>4
      <3>2. PICK h : Iterates(h, m - 1, S, a, G)
        BY <3>1
      <3> DEFINE g == [i \in 0 .. m |-> IF i = m THEN G[h[m - 1]] ELSE h[i]]
      <3>3. h \in [0 .. (m - 1) -> S] /\ h[0] = a
            /\ \A k \in 0 .. ((m - 1) - 1) : h[k + 1] = G[h[k]]
        BY <3>2 DEF Iterates
      <3>4. \A i \in 0 .. m : i # m => i \in 0 .. (m - 1)
        BY <3>1
      <3>5. h[m - 1] \in S
        BY <3>1, <3>3
      <3>6. g \in [0 .. m -> S]
        BY <3>3, <3>4, <3>5
      <3>7. g[0] = a
        BY <2>4, <3>1, <3>3
      <3>8. ASSUME NEW k \in 0 .. (m - 1) PROVE g[k + 1] = G[g[k]]
        <4>1. k \in Int /\ k # m /\ k \in 0 .. m /\ k + 1 \in 0 .. m
          BY <3>1
        <4>2. g[k] = h[k]
          BY <4>1
        <4>3. CASE k + 1 = m
          <5>1. k = m - 1 /\ g[k + 1] = G[h[m - 1]]
            BY <3>1, <4>1, <4>3
          <5>2. QED
            BY <4>2, <5>1
        <4>4. CASE k + 1 # m
          <5>1. k \in 0 .. ((m - 1) - 1) /\ g[k + 1] = h[k + 1]
            BY <3>1, <4>1, <4>4
          <5>2. QED
            BY <3>3, <4>2, <5>1
        <4>5. QED
          BY <4>3, <4>4
      <3> HIDE DEF g
      <3>9. Iterates(g, m, S, a, G)
        BY <3>6, <3>7, <3>8 DEF Iterates
      <3>10. QED
        BY <3>9
    <2>5. QED
      BY <2>3, <2>4
  <1>2. ASSUME NEW n \in Nat, NEW m \in Nat, NEW g, NEW h,
               Iterates(g, n, S, a, G), Iterates(h, m, S, a, G), NEW i \in Nat, i <= n, i <= m
        PROVE  g[i] = h[i]
    <2> DEFINE T == {k \in Nat : k <= n /\ k <= m /\ g[k] # h[k]}
    <2>1. SUFFICES ASSUME T # {} PROVE FALSE
      BY <1>2
    <2>2. PICK k \in T : \A j \in T : k <= j
      <3>1. T \in SUBSET Nat
        OBVIOUS
      <3> HIDE DEF T
      <3>2. QED
        BY <2>1, <3>1, LeastNatural
    <2>3. /\ g[0] = h[0]
          /\ \A j \in 0 .. (n - 1) : g[j + 1] = G[g[j]]
          /\ \A j \in 0 .. (m - 1) : h[j + 1] = G[h[j]]
      BY <1>2 DEF Iterates
    <2>4. k # 0 /\ k \in Nat /\ k <= n /\ k <= m /\ g[k] # h[k]
      BY <2>3
    <2>5. k - 1 \in Nat /\ k - 1 \in 0 .. (n - 1) /\ k - 1 \in 0 .. (m - 1)
          /\ (k - 1) + 1 = k /\ k - 1 <= n /\ k - 1 <= m /\ ~ (k <= k - 1)
      BY <2>4
    <2>6. g[k - 1] = h[k - 1]
      BY <2>2, <2>5
    <2> HIDE DEF T
    <2>7. g[k] = G[g[k - 1]] /\ h[k] = G[h[k - 1]]
      BY <2>3, <2>5
    <2>8. QED
      BY <2>4, <2>6, <2>7
  <1> DEFINE H == [n \in Nat |-> CHOOSE h : Iterates(h, n, S, a, G)]
             f == [n \in Nat |-> H[n][n]]
  <1>3. \A n \in Nat : Iterates(H[n], n, S, a, G)
    BY <1>1
  <1> HIDE DEF H
  <1>4. ASSUME NEW n \in Nat PROVE f[n] \in S
    <2>1. H[n] \in [0 .. n -> S] /\ n \in 0 .. n
      BY <1>3 DEF Iterates
    <2>2. QED
      BY <2>1
  <1>5. f[0] = a
    BY <1>3 DEF Iterates
  <1>6. ASSUME NEW n \in Nat PROVE f[n + 1] = G[f[n]]
    <2>1. n + 1 \in Nat /\ n \in 0 .. ((n + 1) - 1) /\ n <= n + 1 /\ n <= n
      OBVIOUS
    <2>2. H[n + 1][n + 1] = G[H[n + 1][n]]
      <3>1. Iterates(H[n + 1], n + 1, S, a, G)
        BY <1>3, <2>1
      <3>2. QED
        BY <2>1, <3>1 DEF Iterates
    <2>3. H[n + 1][n] = H[n][n]
      BY <1>2, <1>3, <2>1
    <2>4. QED
      BY <2>1, <2>2, <2>3
  <1>7. f \in [Nat -> S]
    BY <1>4
  <1> HIDE DEF f
  <1>8. Repeats(f, S, a, G)
    BY <1>5, <1>6, <1>7 DEF Repeats
  <1>9. QED
    BY <1>8

\* The larger one of two integers.
LEMMA MaxTwo ==
  ASSUME NEW a \in Int, NEW b \in Int
  PROVE  Max({a, b}) = IF a >= b THEN a ELSE b
  <1>1. Max({a, b}) \in {a, b} /\ \A y \in {a, b} : Max({a, b}) >= y
    <2>1. \E x \in {a, b} : \A y \in {a, b} : x >= y
      BY SMT
    <2>2. QED
      BY <2>1 DEF Max
  <1>2. QED
    BY <1>1

\* A sum of which two summands change.
LEMMA SumChangeTwo ==
  ASSUME NEW D, IsFiniteSet(D), NEW f, NEW g, \A x \in D : f[x] \in Int /\ g[x] \in Int,
         NEW y \in D, NEW z \in D, y # z, \A x \in D : x # y /\ x # z => g[x] = f[x]
  PROVE  /\ Sum(g, D) = Sum(f, D) + (g[y] - f[y]) + (g[z] - f[z])
         /\ Sum(g, D) \in Int /\ Sum(f, D) \in Int
  <1> DEFINE R == (D \ {y}) \ {z}
  <1>1. IsFiniteSet(D \ {y}) /\ z \in D \ {y} /\ IsFiniteSet(R)
    BY FS_Subset
  <1>2. Sum(f, D) = f[y] + Sum(f, D \ {y}) /\ Sum(g, D) = g[y] + Sum(g, D \ {y})
    BY SumRemove
  <1>3. Sum(f, D \ {y}) = f[z] + Sum(f, R) /\ Sum(g, D \ {y}) = g[z] + Sum(g, R)
    BY <1>1, SumRemove
  <1>4. \A x \in R : g[x] = f[x] /\ f[x] \in Int
    OBVIOUS
  <1> HIDE DEF R
  <1>5. Sum(f, R) = Sum(g, R) /\ Sum(f, R) \in Int
    BY <1>1, <1>4, SumSame, SumType
  <1>6. f[y] \in Int /\ f[z] \in Int /\ g[y] \in Int /\ g[z] \in Int
    OBVIOUS
  <1>7. QED
    BY <1>2, <1>3, <1>5, <1>6

NoEdges(w, A, B) == \A n \in A, m \in B : w[n][m] = 0

\* When two sets share their nodes anew, the cut to nodes beyond the second one does
\* not matter, as long as no edge leads there from a node that changes sides.
LEMMA CutBeyond ==
  ASSUME NEW w, NEW U, IsFiniteSet(U),
         \A n, m \in U : w[n][m] \in Nat /\ w[n][m] = w[m][n],
         NEW F \in SUBSET U, NEW S \in SUBSET U, NEW R \in SUBSET U,
         F \cap R = {}, S \cap R = {}, F \cap S = {},
         NEW G \in SUBSET U, NEW T \in SUBSET U,
         G \cup T = F \cup S, G \cap T = {},
         NoEdges(w, F \ G, R), NoEdges(w, G \ F, R)
  PROVE  /\ CutBetween(w, F, S \cup R) - CutBetween(w, G, T \cup R)
              = CutBetween(w, F, S) - CutBetween(w, G, T)
         /\ CutBetween(w, F, S) \in Int /\ CutBetween(w, G, T) \in Int
  <1> DEFINE K == F \cap G
             d == F \ G
             a == G \ F
  <1>1. /\ F = K \cup d /\ G = K \cup a /\ K \cap d = {} /\ K \cap a = {}
        /\ K \in SUBSET U /\ d \in SUBSET U /\ a \in SUBSET U /\ T \cap R = {}
    OBVIOUS
  <1>2. /\ IsFiniteSet(F) /\ IsFiniteSet(S) /\ IsFiniteSet(R) /\ IsFiniteSet(G) /\ IsFiniteSet(T)
        /\ IsFiniteSet(K) /\ IsFiniteSet(d) /\ IsFiniteSet(a)
    BY <1>1, FS_Subset
  <1>3. /\ \A n \in d, m \in R : w[n][m] = 0
        /\ \A n \in a, m \in R : w[n][m] = 0
    BY DEF NoEdges
  <1> HIDE DEF K, d, a
  <1>4. \A X \in SUBSET U, Y \in SUBSET U : \A n \in X, m \in Y : w[n][m] \in Nat /\ w[m][n] \in Nat
    OBVIOUS
  <1>5. ASSUME NEW X \in SUBSET U, NEW Y \in SUBSET U, Y \cap R = {}
        PROVE  CutBetween(w, X, Y \cup R) = CutBetween(w, X, Y) + CutBetween(w, X, R)
    <2>1. IsFiniteSet(X) /\ IsFiniteSet(Y)
      BY FS_Subset
    <2>2. \A n \in Y \cup R, m \in X : w[n][m] \in Nat /\ w[m][n] \in Nat
      BY <1>4
    <2>3. /\ CutBetween(w, Y \cup R, X) = CutBetween(w, Y, X) + CutBetween(w, R, X)
          /\ CutBetween(w, X, Y \cup R) = CutBetween(w, X, Y) + CutBetween(w, X, R)
      BY <1>2, <1>5, <2>1, <2>2, CutUnion
    <2>4. QED
      BY <2>3
  <1>6. ASSUME NEW X \in SUBSET U, NEW Y \in SUBSET U, X \cap Y = {}
        PROVE  CutBetween(w, X \cup Y, R) = CutBetween(w, X, R) + CutBetween(w, Y, R)
    <2>1. IsFiniteSet(X) /\ IsFiniteSet(Y)
      BY FS_Subset
    <2>2. \A n \in X \cup Y, m \in R : w[n][m] \in Nat /\ w[m][n] \in Nat
      BY <1>4
    <2>3. QED
      BY <1>2, <1>6, <2>1, <2>2, CutUnion
  <1>7. ASSUME NEW X \in SUBSET U, \A n \in X, m \in R : w[n][m] = 0
        PROVE  CutBetween(w, X, R) = 0
    <2>1. IsFiniteSet(X)
      BY FS_Subset
    <2>2. \A n \in X, m \in R : w[n][m] \in Nat
      BY <1>4
    <2>3. /\ CutBetween(w, X, R) \in Nat
          /\ CutBetween(w, X, R) > 0 <=> \E n \in X, m \in R : w[n][m] > 0
      BY <1>2, <2>1, <2>2, CutPositive
    <2>4. ~ \E n \in X, m \in R : w[n][m] > 0
      BY <1>7
    <2>5. QED
      BY <2>3, <2>4
  <1>8. CutBetween(w, d, R) = 0 /\ CutBetween(w, a, R) = 0
    BY <1>1, <1>3, <1>7
  <1>9. /\ CutBetween(w, F, R) = CutBetween(w, K, R) + CutBetween(w, d, R)
        /\ CutBetween(w, G, R) = CutBetween(w, K, R) + CutBetween(w, a, R)
    <2>1. CutBetween(w, K \cup d, R) = CutBetween(w, K, R) + CutBetween(w, d, R)
      BY <1>1, <1>6
    <2>2. CutBetween(w, K \cup a, R) = CutBetween(w, K, R) + CutBetween(w, a, R)
      BY <1>1, <1>6
    <2>3. QED
      BY <1>1, <2>1, <2>2, Zenon
  <1>10. /\ CutBetween(w, F, S \cup R) = CutBetween(w, F, S) + CutBetween(w, F, R)
         /\ CutBetween(w, G, T \cup R) = CutBetween(w, G, T) + CutBetween(w, G, R)
    BY <1>1, <1>5
  <1>11. ASSUME NEW X \in SUBSET U, NEW Y \in SUBSET U PROVE CutBetween(w, X, Y) \in Int
    <2>1. IsFiniteSet(X) /\ IsFiniteSet(Y)
      BY FS_Subset
    <2>2. \A n \in X, m \in Y : w[n][m] \in Int
      BY <1>4
    <2>3. QED
      BY <2>1, <2>2, CutType
  <1>12. /\ CutBetween(w, F, S) \in Int /\ CutBetween(w, G, T) \in Int
         /\ CutBetween(w, K, R) \in Int
    BY <1>1, <1>11
  <1>13. QED
    BY <1>8, <1>9, <1>10, <1>12

\* The cut of a partition is an integer.
LEMMA CutSumType ==
  ASSUME NEW w, IsFiniteSet(DOMAIN w), \A n, m \in DOMAIN w : w[n][m] \in Int,
         NEW D, IsFiniteSet(D), NEW block \in [D -> SUBSET DOMAIN w]
  PROVE  CutSum(w, block) \in Int
  <1>1. CutSum(w, block) = Sum(Leaving(w, block), D)
    BY CutSumIsSum
  <1>2. \A x \in D : Leaving(w, block)[x] \in Int
    <2> SUFFICES ASSUME NEW x \in D PROVE CutBetween(w, block[x], (DOMAIN w) \ block[x]) \in Int
      BY DEF Leaving
    <2>1. /\ IsFiniteSet(block[x]) /\ IsFiniteSet((DOMAIN w) \ block[x])
          /\ block[x] \subseteq DOMAIN w
      BY FS_Subset
    <2>2. \A n \in block[x], m \in (DOMAIN w) \ block[x] : w[n][m] \in Int
      BY <2>1
    <2>3. QED
      BY <2>1, <2>2, CutType
  <1>3. QED
    BY <1>1, <1>2, SumType

Entries(w, A, B) == {w[n][m] : n \in A, m \in B}

\* Finitely many rows of a matrix have finitely many entries.
LEMMA FiniteEntries ==
  ASSUME NEW w, NEW A, NEW B, IsFiniteSet(A), IsFiniteSet(B)
  PROVE  IsFiniteSet(Entries(w, A, B))
  <1> DEFINE D == A \X B
  <1>1. PICK f : f = [e \in D |-> w[e[1]][e[2]]]
    OBVIOUS
  <1>2. IsFiniteSet(D)
    BY FS_Product
  <1> HIDE DEF D
  <1>3. IsFiniteSet({f[e] : e \in D})
    BY <1>2, FiniteImage
  <1>4. {f[e] : e \in D} = Entries(w, A, B)
    <2>1. \A n \in A, m \in B : <<n, m>> \in D /\ f[<<n, m>>] = w[n][m]
      BY <1>1 DEF D
    <2>2. \A e \in D : \E n \in A, m \in B : e = <<n, m>>
      BY DEF D
    <2>3. \A y : y \in Entries(w, A, B) <=> \E n \in A, m \in B : y = w[n][m]
      BY DEF Entries
    <2>4. \A y : y \in {f[e] : e \in D} <=> \E e \in D : y = f[e]
      BY Zenon
    <2>5. ASSUME NEW y PROVE (\E e \in D : y = f[e]) <=> (\E n \in A, m \in B : y = w[n][m])
      <3>1. ASSUME NEW e \in D PROVE \E n \in A, m \in B : f[e] = w[n][m]
        <4>1. PICK n \in A, m \in B : e = <<n, m>>
          BY <2>2
        <4>2. QED
          BY <2>1, <4>1
      <3>2. ASSUME NEW n \in A, NEW m \in B PROVE \E e \in D : f[e] = w[n][m]
        BY <2>1
      <3>3. QED
        BY <3>1, <3>2
    <2>6. QED
      BY <2>3, <2>4, <2>5
  <1>5. QED
    BY <1>3, <1>4

\* The sum of multiples.
LEMMA SumScale ==
  ASSUME NEW D, IsFiniteSet(D), NEW f, NEW g, NEW c \in Int,
         \A x \in D : f[x] \in Int /\ g[x] = c * f[x]
  PROVE  Sum(g, D) = c * Sum(f, D)
  <1> DEFINE B == {t \in SUBSET D : Sum(g, t) # c * Sum(f, t)}
  <1>1. SUFFICES ASSUME B # {} PROVE FALSE
    OBVIOUS
  <1>2. PICK t \in B : \A u \in SUBSET t : u # t => u \notin B
    <2>1. B \in SUBSET (SUBSET D)
      OBVIOUS
    <2> HIDE DEF B
    <2>2. QED
      BY <1>1, <2>1, SmallestSet
  <1>3. t # {}
    <2>1. Sum(g, {}) = 0 /\ Sum(f, {}) = 0
      BY SumEmpty
    <2>2. Sum(g, {}) = c * Sum(f, {})
      BY <2>1, SMT
    <2>3. Sum(g, t) # c * Sum(f, t)
      OBVIOUS
    <2>4. QED
      BY <2>2, <2>3
  <1> DEFINE x == Pick(t)
             r == t \ {x}
  <1>4. x \in t /\ x \in D /\ IsFiniteSet(t) /\ IsFiniteSet(r) /\ r \in SUBSET t /\ r # t
        /\ r \in SUBSET D
    BY <1>3, PickIn, FS_Subset
  <1>5. Sum(g, r) = c * Sum(f, r)
    BY <1>2, <1>4
  <1>6. Sum(g, t) = g[x] + Sum(g, r) /\ Sum(f, t) = f[x] + Sum(f, r)
    BY <1>3, <1>4, SumPick
  <1>7. Sum(f, r) \in Int
    BY <1>4, SumType
  <1>8. f[x] \in Int /\ g[x] = c * f[x] /\ Sum(g, t) # c * Sum(f, t)
    BY <1>4
  <1> HIDE DEF x, r, B
  <1>9. c * (f[x] + Sum(f, r)) = c * f[x] + c * Sum(f, r)
    BY <1>7, <1>8
  <1>10. QED
    BY <1>5, <1>6, <1>8, <1>9

\* Each term of a sum lies in a range, and so does the sum.
LEMMA SumBetween ==
  ASSUME NEW D, IsFiniteSet(D), NEW f, NEW lo \in Int, NEW hi \in Int,
         \A x \in D : f[x] \in Int /\ lo <= f[x] /\ f[x] <= hi
  PROVE  /\ Cardinality(D) \in Nat
         /\ Cardinality(D) * lo <= Sum(f, D) /\ Sum(f, D) <= Cardinality(D) * hi
  <1> DEFINE Fine(t) == Cardinality(t) * lo <= Sum(f, t) /\ Sum(f, t) <= Cardinality(t) * hi
             B == {t \in SUBSET D : ~ Fine(t)}
  <1>0. Cardinality(D) \in Nat
    BY FS_CardinalityType
  <1>1. SUFFICES ASSUME B # {} PROVE FALSE
    <2>1. Fine(D)
      BY <1>1
    <2>2. QED
      BY <1>0, <2>1
  <1>2. PICK t \in B : \A u \in SUBSET t : u # t => u \notin B
    <2>1. B \in SUBSET (SUBSET D)
      OBVIOUS
    <2> HIDE DEF B
    <2>2. QED
      BY <1>1, <2>1, SmallestSet
  <1>3. t # {}
    <2>1. Sum(f, {}) = 0 /\ Cardinality({}) = 0
      BY SumEmpty, FS_EmptySet
    <2>2. Fine({})
      BY <2>1, SMT
    <2>3. ~ Fine(t)
      OBVIOUS
    <2> HIDE DEF Fine
    <2>4. QED
      BY <2>2, <2>3
  <1> DEFINE x == Pick(t)
             r == t \ {x}
  <1>4. x \in t /\ x \in D /\ IsFiniteSet(t) /\ IsFiniteSet(r) /\ r \in SUBSET t /\ r # t
        /\ r \in SUBSET D
    BY <1>3, PickIn, FS_Subset
  <1>5. Fine(r) /\ ~ Fine(t)
    <2>1. r \notin B /\ t \in B
      BY <1>2, <1>4
    <2> HIDE DEF Fine, r
    <2>2. QED
      BY <1>4, <2>1
  <1>6. Sum(f, t) = f[x] + Sum(f, r)
    BY <1>3, <1>4, SumPick
  <1>7. Sum(f, r) \in Int /\ Cardinality(r) \in Nat
    BY <1>4, SumType, FS_CardinalityType
  <1>8. Cardinality(t) = Cardinality(r) + 1
    <2>1. Cardinality(t \ {x}) = Cardinality(t) - 1 /\ Cardinality(t) \in Nat
      BY <1>4, FS_RemoveElement, FS_CardinalityType
    <2>2. QED
      BY <2>1, <1>7
  <1>9. f[x] \in Int /\ lo <= f[x] /\ f[x] <= hi
    BY <1>4
  <1> HIDE DEF x, r, B
  <1>10. \A k \in Nat : (k + 1) * lo = k * lo + lo /\ (k + 1) * hi = k * hi + hi
    OBVIOUS
  <1>11. QED
    BY <1>5, <1>6, <1>7, <1>8, <1>9, <1>10

\* What flows from one element of a set to another cancels out.
LEMMA SumCancels ==
  ASSUME NEW A, IsFiniteSet(A), NEW N, \A n \in A : N[n] \in SUBSET A,
         \A n, m \in A : m \in N[n] <=> n \in N[m],
         NEW v, \A n \in A : v[n] \in Int,
         NEW flow, \A n \in A : flow[n] = Sum([m \in N[n] |-> v[m] - v[n]], N[n])
  PROVE  Sum(flow, A) = 0
  <1> DEFINE D == {e \in A \X A : e[2] \in N[e[1]]}
             f == [e \in D |-> v[e[2]] - v[e[1]]]
             g == [e \in D |-> v[e[1]] - v[e[2]]]
             z == [e \in D |-> 0]
             part == [n \in A |-> {e \in D : e[1] = n}]
             b == [e \in D |-> <<e[2], e[1]>>]
  <1>1. IsFiniteSet(D)
    <2>1. IsFiniteSet(A \X A)
      BY FS_Product
    <2>2. QED
      BY <2>1, FS_Subset
  <1>2. \A e \in D : f[e] \in Int /\ g[e] \in Int /\ z[e] = f[e] + g[e]
    OBVIOUS
  <1>3. ASSUME NEW n \in A PROVE flow[n] = Sum(f, part[n])
    <2> DEFINE c == [m \in N[n] |-> <<n, m>>]
               h == [m \in N[n] |-> v[m] - v[n]]
    <2>1. IsFiniteSet(N[n])
      BY FS_Subset
    <2>2. {c[m] : m \in N[n]} = part[n]
      <3>1. ASSUME NEW m \in N[n] PROVE c[m] \in part[n]
        OBVIOUS
      <3>2. ASSUME NEW e \in part[n] PROVE \E m \in N[n] : e = c[m]
        <4>1. e \in A \X A /\ e[2] \in N[n] /\ e[1] = n
          BY <3>2
        <4>2. e = <<n, e[2]>>
          BY <4>1
        <4>3. QED
          BY <4>1, <4>2
      <3> HIDE DEF c, part, D
      <3>3. QED
        BY <3>1, <3>2
    <2>3. \A m, k \in N[n] : c[m] = c[k] => m = k
      OBVIOUS
    <2>4. \A m \in N[n] : h[m] = f[c[m]] /\ h[m] \in Int
      <3>1. ASSUME NEW m \in N[n] PROVE h[m] = f[c[m]] /\ h[m] \in Int
        <4>1. m \in A /\ <<n, m>> \in D
          BY <1>3, <3>1
        <4>2. f[<<n, m>>] = v[m] - v[n] /\ v[m] \in Int /\ v[n] \in Int
          BY <4>1
        <4>3. QED
          BY <4>2
      <3>2. QED
        BY <3>1
    <2>5. Sum(h, N[n]) = Sum(f, {c[m] : m \in N[n]})
      <3> HIDE DEF c, h, f
      <3>1. QED
        BY <2>1, <2>3, <2>4, SumRename
    <2>6. QED
      BY <2>2, <2>5
  <1>4. Sum(f, D) = Sum(flow, A)
    <2>1. \A n \in A : part[n] \in SUBSET D
      OBVIOUS
    <2>2. \A e \in D : \E n \in A : e \in part[n]
      <3>1. ASSUME NEW e \in D PROVE e[1] \in A /\ e \in part[e[1]]
        OBVIOUS
      <3>2. QED
        BY <3>1
    <2>3. \A n, m \in A : n # m => part[n] \cap part[m] = {}
      OBVIOUS
    <2> HIDE DEF D, f, part
    <2>4. QED
      BY <1>1, <1>2, <1>3, <2>1, <2>2, <2>3, SumParts
  <1>5. Sum(f, D) = Sum(g, D)
    <2>1. {b[e] : e \in D} = D
      <3>1. ASSUME NEW e \in D
            PROVE  b[e] \in D /\ b[b[e]] = e
        <4>1. e[1] \in A /\ e[2] \in A /\ e = <<e[1], e[2]>>
          OBVIOUS
        <4>2. e[1] \in N[e[2]]
          BY <4>1
        <4>3. <<e[2], e[1]>> \in D
          BY <4>1, <4>2
        <4>4. b[e] = <<e[2], e[1]>>
          OBVIOUS
        <4>5. b[<<e[2], e[1]>>] = <<e[1], e[2]>>
          BY <4>3
        <4>6. QED
          BY <4>1, <4>3, <4>4, <4>5
      <3> HIDE DEF b, D
      <3>2. QED
        BY <3>1
    <2>2. \A e, d \in D : b[e] = b[d] => e = d
      <3>1. ASSUME NEW e \in D, NEW d \in D, b[e] = b[d] PROVE e = d
        <4>1. e = <<e[1], e[2]>> /\ d = <<d[1], d[2]>>
          OBVIOUS
        <4>2. e[2] = d[2] /\ e[1] = d[1]
          BY <3>1
        <4>3. QED
          BY <4>1, <4>2
      <3>2. QED
        BY <3>1
    <2>3. \A e \in D : f[e] = g[b[e]]
      <3>1. ASSUME NEW e \in D PROVE f[e] = g[b[e]]
        <4>1. b[e] \in D /\ b[e] = <<e[2], e[1]>>
          BY <2>1
        <4>2. g[<<e[2], e[1]>>] = v[e[2]] - v[e[1]]
          BY <4>1
        <4>3. QED
          BY <4>1, <4>2
      <3>2. QED
        BY <3>1
    <2>4. \A e \in D : f[e] = g[b[e]] /\ f[e] \in Int
      BY <1>2, <2>3
    <2> HIDE DEF D, f, g, b, z
    <2>5. PICK d : d = D
      OBVIOUS
    <2>6. Sum(f, d) = Sum(g, {b[e] : e \in d})
      BY ONLY <1>1, <2>2, <2>4, <2>5, SumRename
    <2>7. QED
      BY <2>1, <2>5, <2>6
  <1>6. Sum(z, D) = 0
    BY <1>1, SumZero
  <1> HIDE DEF D, f, g, z, part, b
  <1>7. Sum(z, D) = Sum(f, D) + Sum(g, D)
    BY <1>1, <1>2, SumAdd
  <1>8. Sum(f, D) \in Int
    BY <1>1, <1>2, SumType
  <1>9. QED
    BY <1>4, <1>5, <1>6, <1>7, <1>8

\* A function defined by recursion on an interval.
LEMMA RecursionExists ==
  ASSUME NEW S, NEW a \in S, NEW G \in [S -> S], NEW k \in Nat
  PROVE  \E h : Iterates(h, k, S, a, G)
  <1>1. PICK f \in [Nat -> S] : f[0] = a /\ \A r \in Nat : f[r + 1] = G[f[r]]
    BY IterationExists DEF Repeats
  <1>2. [r \in 0 .. k |-> f[r]] \in [0 .. k -> S]
    BY <1>1
  <1>3. Iterates([r \in 0 .. k |-> f[r]], k, S, a, G)
    BY <1>1, <1>2 DEF Iterates
  <1>4. QED
    BY <1>3

\* Max and Min of a finite set of integers that is not empty are its bounds.
LEMMA Extremes ==
  ASSUME NEW S, IsFiniteSet(S), S # {}, S \subseteq Int
  PROVE  /\ Max(S) \in S /\ \A x \in S : x <= Max(S)
         /\ Min(S) \in S /\ \A x \in S : Min(S) <= x
  <1>1. PICK g : g = [x \in S |-> x]
    OBVIOUS
  <1>2. PICK h : h = [x \in S |-> - x]
    OBVIOUS
  <1>3. \E x \in S : \A y \in S : g[y] <= g[x]
    <2>1. \A x \in S : g[x] \in Int
      BY <1>1
    <2>2. QED
      BY <2>1, FiniteMax
  <1>4. \E x \in S : \A y \in S : h[y] <= h[x]
    <2>1. \A x \in S : h[x] \in Int
      BY <1>2
    <2>2. QED
      BY <2>1, FiniteMax
  <1>5. \E x \in S : \A y \in S : x >= y
    BY <1>1, <1>3
  <1>6. \E x \in S : \A y \in S : x <= y
    BY <1>2, <1>4
  <1>7. Max(S) \in S /\ \A y \in S : Max(S) >= y
    BY ONLY <1>5, Zenon DEF Max
  <1>8. Min(S) \in S /\ \A y \in S : Min(S) =< y
    BY ONLY <1>6, Zenon DEF Min
  <1>9. QED
    BY <1>7, <1>8

\* The same of the values of a function on a finite set.
LEMMA ExtremeValues ==
  ASSUME NEW D, IsFiniteSet(D), D # {}, NEW f, \A x \in D : f[x] \in Int
  PROVE  /\ \E x \in D : Max({f[y] : y \in D}) = f[x]
         /\ \A x \in D : f[x] <= Max({f[y] : y \in D})
         /\ \E x \in D : Min({f[y] : y \in D}) = f[x]
         /\ \A x \in D : Min({f[y] : y \in D}) <= f[x]
  <1> DEFINE S == {f[x] : x \in D}
  <1>1. IsFiniteSet(S)
    BY FiniteImage
  <1>2. S # {} /\ S \subseteq Int
    OBVIOUS
  <1> HIDE DEF S
  <1>3. /\ Max(S) \in S /\ \A x \in S : x <= Max(S)
        /\ Min(S) \in S /\ \A x \in S : Min(S) <= x
    BY <1>1, <1>2, Extremes
  <1>4. \A y : y \in S <=> \E x \in D : y = f[x]
    BY DEF S
  <1>5. /\ \E x \in D : Max(S) = f[x]
        /\ \A x \in D : f[x] <= Max(S)
        /\ \E x \in D : Min(S) = f[x]
        /\ \A x \in D : Min(S) <= f[x]
    BY <1>3, <1>4
  <1>6. QED
    BY <1>5 DEF S

\* R orders a finite set strictly and totally.
Orders(R, S) ==
  /\ \A x \in S : <<x, x>> \notin R
  /\ \A x, y \in S : x # y => <<x, y>> \in R \/ <<y, x>> \in R
  /\ \A x, y, z \in S : <<x, y>> \in R /\ <<y, z>> \in R => <<x, z>> \in R

Below(R, S, x) == {y \in S : <<y, x>> \in R}

\* In such an order the elements have the ranks 0, 1, and so on.
LEMMA Ranks ==
  ASSUME NEW S, IsFiniteSet(S), NEW R, Orders(R, S)
  PROVE  /\ \A x \in S : Cardinality(Below(R, S, x)) \in 0 .. (Cardinality(S) - 1)
         /\ \A x, y \in S : Cardinality(Below(R, S, x)) = Cardinality(Below(R, S, y)) => x = y
         /\ \A x, y \in S : <<x, y>> \in R =>
              Cardinality(Below(R, S, x)) < Cardinality(Below(R, S, y))
         /\ \A r \in 0 .. (Cardinality(S) - 1) :
              \E x \in S : Cardinality(Below(R, S, x)) = r
  <1> DEFINE n == Cardinality(S)
             rank == [x \in S |-> Cardinality(Below(R, S, x))]
  <1>1. n \in Nat
    BY FS_CardinalityType
  <1>2. \A x \in S : /\ IsFiniteSet(Below(R, S, x)) /\ rank[x] \in Nat
                     /\ rank[x] <= n - 1
    <2> SUFFICES ASSUME NEW x \in S
                 PROVE  /\ IsFiniteSet(Below(R, S, x)) /\ rank[x] \in Nat
                        /\ rank[x] <= n - 1
      OBVIOUS
    <2>1. Below(R, S, x) \in SUBSET (S \ {x})
      BY DEF Below, Orders
    <2>2. IsFiniteSet(S \ {x}) /\ Cardinality(S \ {x}) = n - 1
      BY FS_RemoveElement
    <2>3. IsFiniteSet(Below(R, S, x)) /\ Cardinality(Below(R, S, x)) <= n - 1
      BY <2>1, <2>2, FS_Subset
    <2>4. QED
      BY <2>3, FS_CardinalityType
  <1>3. ASSUME NEW x \in S, NEW y \in S, <<x, y>> \in R
        PROVE  rank[x] < rank[y]
    <2>1. Below(R, S, x) \in SUBSET Below(R, S, y)
      BY <1>3 DEF Below, Orders
    <2>2. Below(R, S, x) # Below(R, S, y)
      BY <1>3 DEF Below, Orders
    <2>3. rank[x] <= rank[y] /\ rank[x] # rank[y]
      BY <1>2, <2>1, <2>2, FS_Subset
    <2>4. QED
      BY <1>2, <2>3
  <1>4. ASSUME NEW x \in S, NEW y \in S, rank[x] = rank[y] PROVE x = y
    <2>1. rank[x] \in Nat
      BY <1>2
    <2> HIDE DEF rank
    <2>2. <<x, y>> \notin R /\ <<y, x>> \notin R
      BY <1>3, <1>4, <2>1
    <2>3. QED
      BY <2>2 DEF Orders
  <1>5. ASSUME NEW r \in 0 .. (n - 1), \A x \in S : rank[x] # r PROVE FALSE
    <2> DEFINE T == (0 .. (n - 1)) \ {r}
    <2>1. IsFiniteSet(0 .. (n - 1)) /\ Cardinality(0 .. (n - 1)) = n
      BY <1>1, FS_Interval
    <2>2. IsFiniteSet(T) /\ Cardinality(T) = n - 1
      BY <2>1, FS_RemoveElement
    <2>3. rank \in [S -> T]
      BY <1>1, <1>2, <1>5
    <2> HIDE DEF T
    <2>4. Cardinality(T) < Cardinality(S)
      BY <1>1, <2>2
    <2> HIDE DEF rank
    <2>5. \E x, y \in S : x # y /\ rank[x] = rank[y]
      BY ONLY <2>2, <2>3, <2>4, IsFiniteSet(S), FS_PigeonHole
    <2>6. QED
      BY <1>4, <2>5
  <1>6. QED
    BY <1>1, <1>2, <1>3, <1>4, <1>5
=============================================================================
