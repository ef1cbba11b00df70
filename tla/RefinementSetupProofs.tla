------------------------ MODULE RefinementSetupProofs ------------------------
(***************************************************************************)
(* Proofs about what happens before the local refinement: BlockClaims,     *)
(* which gives every process a block, and CommScheme, which gives it a     *)
(* partner in every round; for every number of processes, all sizes, every *)
(* block graph and every way to break ties.                                *)
(*                                                                         *)
(* OneBlockEach is not inductive: that winners get different blocks, all   *)
(* of them available, rests on what has been put into the sums before.     *)
(* SchemeInv adds to the properties of the scheme what the code relies on  *)
(* silently: an edge without a colour has a value larger than all colours, *)
(* no edge is processed before a heavier one, and a round holds exactly    *)
(* the pairs written so far.                                               *)
(***************************************************************************)
EXTENDS BlockClaims, CommScheme, FiniteSetTheorems, TLAPS

-----------------------------------------------------------------------------
(***************************************************************************)
(* BlockClaims.                                                            *)
(***************************************************************************)


\* A claim that has been sent is the block one has, or one that is available.
SoundClaims ==
  \A p \in PE : pc[p] = "sum" =>
    IF p \in mapped THEN claim[p].id = finalMapping[p] ELSE claim[p].id \in available

\* The renumbering starts when, and not before, all have a block.
LoopLeft == \A p \in PE : pc[p] \in {"renumber", "done"} <=> mapped = PE

IInv == TypeOK /\ OneBlockEach /\ SoundClaims /\ LoopLeft

LEMMA InitIInv == Init => IInv
  <1> SUFFICES ASSUME Init PROVE IInv
    OBVIOUS
  <1>1. PE = Block /\ 0 \in Block
    BY ClaimsAssumption DEF PE, Block
  <1>2. size \in [PE -> [Block -> Nat]]
    BY ClaimsAssumption DEF Init
  <1>3. TypeOK
    BY <1>1, <1>2 DEF Init, TypeOK, NoClaim
  <1> QED
    BY <1>3 DEF Init, IInv, OneBlockEach, SoundClaims, LoopLeft

\* A claim that is sound may be sent.
LEMMA EnterStep ==
  ASSUME IInv, NEW p \in PE, pc[p] = "claim", NEW b \in Block, NEW w \in Nat,
         Enter(p, b, w),
         IF p \in mapped THEN b = finalMapping[p] ELSE b \in available
  PROVE  IInv'
  <1>1. /\ claim' = [claim EXCEPT ![p] = [id |-> b, size |-> w]]
        /\ pc' = [pc EXCEPT ![p] = "sum"]
        /\ UNCHANGED <<size, mapped, available, finalMapping, points>>
    BY DEF Enter
  <1>2. TypeOK'
    BY <1>1 DEF IInv, TypeOK
  <1>3. OneBlockEach'
    BY <1>1 DEF IInv, OneBlockEach
  <1>4. SoundClaims'
    <2> SUFFICES ASSUME NEW q \in PE, pc'[q] = "sum"
                 PROVE  IF q \in mapped THEN claim'[q].id = finalMapping[q]
                                        ELSE claim'[q].id \in available
      BY <1>1 DEF SoundClaims
    <2>1. CASE q = p
      <3>1. claim'[q].id = b
        BY <1>1, <2>1 DEF IInv, TypeOK
      <3> QED BY <3>1, <2>1
    <2>2. CASE q # p
      <3>1. claim'[q] = claim[q] /\ pc[q] = "sum"
        BY <1>1, <2>2 DEF IInv, TypeOK
      <3> QED BY <3>1 DEF IInv, SoundClaims
    <2> QED BY <2>1, <2>2
  <1>5. LoopLeft'
    BY <1>1 DEF IInv, TypeOK, LoopLeft
  <1> QED BY <1>2, <1>3, <1>4, <1>5 DEF IInv

\* A claim step sends a sound claim.
LEMMA ClaimStep ==
  ASSUME IInv, NEW p \in PE, ClaimAgain(p) \/ ClaimPreferred(p) \/ ClaimAny(p)
  PROVE  IInv'
  <1>1. CASE ClaimAgain(p)
    <2>1. finalMapping[p] \in Block /\ p \in Nat
      BY ClaimsAssumption DEF IInv, TypeOK, PE
    <2> QED BY <1>1, <2>1, EnterStep DEF ClaimAgain
  <1>2. CASE ClaimPreferred(p)
    <2>1. PICK b \in Preferred(p) : Enter(p, b, size[p][b])
      BY <1>2 DEF ClaimPreferred
    <2>2. b \in available /\ b \in Block
      BY <2>1 DEF Preferred, IInv, TypeOK
    <2>3. size[p][b] \in Nat
      BY <2>2 DEF IInv, TypeOK
    <2> QED BY <1>2, <2>1, <2>2, <2>3, EnterStep DEF ClaimPreferred
  <1>3. CASE ClaimAny(p)
    <2>1. PICK b \in available : Enter(p, b, p)
      BY <1>3 DEF ClaimAny
    <2>2. b \in Block /\ p \in Nat
      BY ClaimsAssumption DEF IInv, TypeOK, PE
    <2> QED BY <1>3, <2>1, <2>2, EnterStep DEF ClaimAny
  <1> QED BY <1>1, <1>2, <1>3

\* What Resolve does, with its winners named.
ResolveWith(W) ==
  /\ Winners(W)
  /\ finalMapping' = [p \in PE |-> IF p \in W THEN claim[p].id ELSE finalMapping[p]]
  /\ mapped' = mapped \cup W
  /\ available' = available \ Taken(W)
  /\ pc' = [p \in PE |-> IF mapped' = PE THEN "renumber" ELSE "claim"]
  /\ claim' = [p \in PE |-> NoClaim]
  /\ UNCHANGED <<size, points>>

\* A winner that already had a block keeps it, and nobody loses one.
LEMMA MappedKeep ==
  ASSUME IInv, \A p \in PE : pc[p] = "sum", NEW W \in SUBSET PE, ResolveWith(W)
  PROVE  \A p \in mapped : p \in mapped' /\ finalMapping'[p] = finalMapping[p]
  BY DEF IInv, TypeOK, SoundClaims, ResolveWith

\* After a round all that are mapped have the block they have just claimed.
LEMMA MappedAsClaimed ==
  ASSUME IInv, \A p \in PE : pc[p] = "sum", NEW W \in SUBSET PE, ResolveWith(W)
  PROVE  /\ mapped' = mapped \cup W
         /\ \A p \in mapped' : finalMapping'[p] = claim[p].id
  BY DEF IInv, TypeOK, SoundClaims, ResolveWith

\* The winners share no block with each other, nor with those mapped before.
LEMMA NoDoubleBlock ==
  ASSUME IInv, \A p \in PE : pc[p] = "sum", NEW W \in SUBSET PE, ResolveWith(W)
  PROVE  OneBlockEach'
  <1>1. /\ mapped' = mapped \cup W /\ mapped \subseteq PE
        /\ \A p \in mapped' : finalMapping'[p] = claim[p].id
    BY MappedAsClaimed DEF IInv, TypeOK
  <1>2. \A p \in mapped : claim[p].id = finalMapping[p]
    BY <1>1 DEF IInv, SoundClaims
  <1>3. \A p \in W \ mapped : claim[p].id \in available
    BY DEF IInv, SoundClaims
  <1>4. available = Block \ {finalMapping[p] : p \in mapped}
    BY DEF IInv, OneBlockEach
  <1>5. ASSUME NEW p \in mapped', NEW q \in mapped',
               finalMapping'[p] = finalMapping'[q]
        PROVE  p = q
    <2>1. claim[p].id = claim[q].id
      BY <1>1, <1>5
    <2>2. CASE p \in W /\ q \in W
      BY <2>1, <2>2 DEF ResolveWith, Winners
    <2>3. CASE p \in mapped /\ q \in mapped
      BY <1>2, <2>1, <2>3 DEF IInv, OneBlockEach
    <2>4. CASE p \in mapped /\ q \in W \ mapped
      BY <1>2, <1>3, <1>4, <2>1, <2>4
    <2>5. CASE q \in mapped /\ p \in W \ mapped
      BY <1>2, <1>3, <1>4, <2>1, <2>5
    <2> QED BY <1>1, <2>2, <2>3, <2>4, <2>5
  <1>6. available' = Block \ {finalMapping'[p] : p \in mapped'}
    <2>1. available' = available \ {claim[p].id : p \in W}
      BY DEF ResolveWith, Taken
    <2>2. {finalMapping'[p] : p \in mapped'}
            = {finalMapping[p] : p \in mapped} \cup {claim[p].id : p \in W}
      BY <1>1, <1>2
    <2> QED BY <1>4, <2>1, <2>2
  <1>7. Block' = Block
    BY DEF Block
  <1> QED BY <1>5, <1>6 DEF OneBlockEach, Block

LEMMA ResolveStep ==
  ASSUME IInv, Resolve
  PROVE  IInv'
  <1>1. \A p \in PE : pc[p] = "sum"
    BY DEF Resolve
  <1>2. PICK W \in SUBSET PE : ResolveWith(W)
    BY DEF Resolve, ResolveWith
  <1>3. TypeOK'
    <2>1. \A p \in PE : claim[p].id \in Block
      BY DEF IInv, TypeOK
    <2>2. NoClaim \in [id : Block, size : Nat]
      BY ClaimsAssumption DEF NoClaim, Block
    <2> QED BY <1>2, <2>1, <2>2 DEF IInv, TypeOK, ResolveWith
  <1>4. OneBlockEach'
    BY <1>1, <1>2, NoDoubleBlock
  <1>5. SoundClaims'
    BY <1>2 DEF ResolveWith, SoundClaims
  <1>6. LoopLeft'
    BY <1>2 DEF ResolveWith, LoopLeft
  <1> QED BY <1>3, <1>4, <1>5, <1>6 DEF IInv

\* Renumbering changes nothing the invariant is about except the points.
LEMMA RenumberStep ==
  ASSUME IInv, NEW p \in PE, Renumber(p)
  PROVE  IInv'
  <1>1. /\ pc[p] = "renumber"
        /\ pc' = [pc EXCEPT ![p] = "done"]
        /\ points' = [points EXCEPT ![p] =
                        [q \in Block |-> points[p][finalMapping[q]]]]
        /\ UNCHANGED <<size, mapped, available, finalMapping, claim>>
    BY DEF Renumber
  <1>2. [q \in Block |-> points[p][finalMapping[q]]] \in [Block -> Nat]
    <2>1. points[p] \in [Block -> Nat]
      BY DEF IInv, TypeOK
    <2>2. \A q \in Block : finalMapping[q] \in Block
      <3>1. PE = Block
        BY DEF PE, Block
      <3> QED BY <3>1 DEF IInv, TypeOK
    <2> QED BY <2>1, <2>2
  <1>3. TypeOK'
    BY <1>1, <1>2 DEF IInv, TypeOK
  <1>4. OneBlockEach' /\ SoundClaims' /\ LoopLeft'
    BY <1>1 DEF IInv, TypeOK, OneBlockEach, SoundClaims, LoopLeft
  <1> QED BY <1>3, <1>4 DEF IInv

LEMMA NextIInv == IInv /\ [Next]_vars => IInv'
  <1> SUFFICES ASSUME IInv, [Next]_vars PROVE IInv'
    OBVIOUS
  <1>1. CASE \E p \in PE : Step(p)
    BY <1>1, ClaimStep, RenumberStep DEF Step
  <1>2. CASE Resolve
    BY <1>2, ResolveStep
  <1>3. CASE UNCHANGED vars
    BY <1>3 DEF vars, IInv, TypeOK, OneBlockEach, SoundClaims, LoopLeft
  <1> QED BY <1>1, <1>2, <1>3 DEF Next, Returned

\* The inductive invariant holds throughout.
THEOREM Invariant == Spec => []IInv
  BY InitIInv, NextIInv, PTL DEF Spec

\* No two processes ever hold the same block, and exactly the blocks that
\* nobody holds are available.
THEOREM AlwaysOneBlockEach == Spec => []OneBlockEach
  BY Invariant, PTL DEF IInv

\* When all processes have a block, every block has a process: an injection
\* of a finite set into one of the same size is onto.
THEOREM CompleteAtTheEnd == Spec => []MappingComplete
  <1>1. IInv => MappingComplete
    <2> SUFFICES ASSUME IInv, mapped = PE
                 PROVE  \A b \in Block : \E p \in PE : finalMapping[p] = b
      BY DEF MappingComplete
    <2>1. PE = Block /\ IsFiniteSet(Block)
      <3>1. P - 1 \in Int
        BY ClaimsAssumption
      <3> QED BY <3>1, FS_Interval DEF PE, Block
    <2>2. finalMapping \in Injection(PE, Block)
      BY DEF IInv, TypeOK, OneBlockEach, Injection, IsInjective
    <2>3. finalMapping \in Surjection(PE, Block)
      BY <2>1, <2>2, FS_Injection
    <2> QED BY <2>3 DEF Surjection
  <1> QED BY <1>1, Invariant, PTL

\* A process never loses the block it has been given.
THEOREM MappedStay == Spec => MappedStays
  <1>1. IInv /\ [Next]_vars =>
          [\A p \in mapped : p \in mapped' /\ finalMapping'[p] = finalMapping[p]]_vars
    <2> SUFFICES ASSUME IInv, Next
                 PROVE  \A p \in mapped :
                          p \in mapped' /\ finalMapping'[p] = finalMapping[p]
      OBVIOUS
    <2>1. CASE Resolve
      <3>1. \A p \in PE : pc[p] = "sum"
        BY <2>1 DEF Resolve
      <3>2. PICK W \in SUBSET PE : ResolveWith(W)
        BY <2>1 DEF Resolve, ResolveWith
      <3> QED BY <3>1, <3>2, MappedKeep
    <2>2. CASE \E p \in PE : Step(p)
      BY <2>2 DEF Step, ClaimAgain, ClaimPreferred, ClaimAny, Enter, Renumber
    <2>3. CASE Returned
      BY <2>3 DEF Returned, vars
    <2> QED BY <2>1, <2>2, <2>3 DEF Next
  <1> QED BY <1>1, Invariant, PTL DEF Spec, MappedStays

\* Every round gives a block to a process that had none, so that there are at
\* most as many rounds as processes.
THEOREM ProgressEveryRound == Spec => EveryRoundMaps
  <1>1. IInv /\ Resolve => mapped' # mapped
    <2> SUFFICES ASSUME IInv, Resolve PROVE mapped' # mapped
      OBVIOUS
    <2>1. \A p \in PE : pc[p] = "sum"
      BY DEF Resolve
    <2>2. PICK W \in SUBSET PE : ResolveWith(W)
      BY DEF Resolve, ResolveWith
    <2>3. PICK p \in PE : p \notin mapped
      <3>1. 0 \in PE
        BY ClaimsAssumption DEF PE
      <3> QED BY <2>1, <3>1 DEF IInv, TypeOK, LoopLeft
    <2>4. claim[p].id \in available
      BY <2>1, <2>3 DEF IInv, SoundClaims
    <2>5. PICK w \in W : claim[w].id = claim[p].id
      BY <2>2 DEF ResolveWith, Winners, Claimed
    <2>6. w \notin mapped
      BY <2>1, <2>4, <2>5 DEF IInv, SoundClaims, OneBlockEach
    <2> QED BY <2>2, <2>5, <2>6 DEF ResolveWith
  <1> QED BY <1>1, Invariant, PTL DEF Spec, EveryRoundMaps

-----------------------------------------------------------------------------
(***************************************************************************)
(* CommScheme.                                                             *)
(***************************************************************************)


\* An edge that has not been processed has the initial colour.
UncoloredLast == \A e \in Edges \ colored : edgesColor[e] = Uncolored

\* The edges come in order of falling weight.
HeavyFirst == \A f \in colored : \A e \in Edges \ colored : weight[f] >= weight[e]

\* Both directions of every pair written so far are in its round.
PairsWritten ==
  \A e \in paired : /\ scheme[edgesColor[e]][e[1]] = e[2]
                    /\ scheme[edgesColor[e]][e[2]] = e[1]

\* A block that is in no pair of a round has itself as partner.
OthersIdle ==
  \A r \in 0 .. (colors - 1) : \A b \in Blocks :
    (\A e \in paired : edgesColor[e] = r => ~ Meets(e, b)) => scheme[r][b] = b

SchemeInv ==
  /\ SchemeTypeOK
  /\ ProperColoring
  /\ UncoloredLast
  /\ HeavyFirst
  /\ HeavierBordersFirst
  /\ stage # "colour" => PairsWritten /\ OthersIdle

\* Before the first edge is processed all clauses hold trivially.
LEMMA InitSchemeInv == SchemeInit => SchemeInv
  <1> SUFFICES ASSUME SchemeInit PROVE SchemeInv
    OBVIOUS
  <1> USE NAssumption
  <1>1. Uncolored \in 0 .. (2 * N)
    BY DEF SchemeInit, Uncolored
  <1>2. SchemeTypeOK
    BY <1>1 DEF SchemeInit, SchemeTypeOK
  <1>3. ProperColoring /\ UncoloredLast /\ HeavyFirst /\ HeavierBordersFirst
    BY DEF SchemeInit, ProperColoring, UncoloredLast, HeavyFirst, HeavierBordersFirst
  <1>4. QED
    BY <1>2, <1>3 DEF SchemeInv, SchemeInit

\* Colouring one edge: the colour is free at both ends, and each smaller one
\* is taken by an edge that has been processed and so is at least as heavy.
LEMMA ColorEdgeStep ==
  ASSUME SchemeInv, NEW e \in Pair, ColorEdge(e)
  PROVE  SchemeInv'
  <1> USE NAssumption
  <1>1. /\ stage = "colour" /\ e \in Edges /\ e \notin colored
        /\ \A f \in Edges \ colored : weight[f] <= weight[e]
        /\ UNCHANGED <<weight, maxDegree, scheme, paired, stage>>
        /\ colored' = colored \cup {e}
    BY DEF ColorEdge
  <1>2. PICK c \in 0 .. (2 * N) :
          /\ c < Uncolored
          /\ IsFreeColor(c, e)
          /\ edgesColor' = [edgesColor EXCEPT ![e] = c]
          /\ colors' = ColorsWith(c)
    BY DEF ColorEdge
  <1>3. Edges' = Edges /\ Uncolored' = Uncolored
    BY <1>1 DEF Edges, Uncolored
  <1>4. /\ edgesColor \in [Edges -> 0 .. (2 * N)] /\ colors \in Nat
        /\ colored \subseteq Edges /\ maxDegree \in 0 .. N
        /\ weight \in [Pair -> 0 .. MaxWeight]
        /\ \A f \in colored : edgesColor[f] < colors
        /\ paired = {}
    BY <1>1 DEF SchemeInv, SchemeTypeOK
  <1>5. \A f \in Edges : edgesColor'[f] = IF f = e THEN c ELSE edgesColor[f]
    BY <1>1, <1>2, <1>4
  <1>6. SchemeTypeOK'
    <2>1. colors' \in Nat /\ colors' >= colors /\ c < colors'
      BY <1>2, <1>4 DEF ColorsWith
    <2>2. edgesColor' \in [Edges' -> 0 .. (2 * N)]
      BY <1>2, <1>3, <1>4
    <2>3. \A f \in colored' : edgesColor'[f] < colors'
      BY <2>1, <1>1, <1>4, <1>5
    <2>4. QED
      BY <1>1, <1>3, <1>4, <2>1, <2>2, <2>3 DEF SchemeTypeOK, SchemeInv
  <1>7. \A f \in Edges : Adjacent(e, f) => edgesColor[f] # c
    BY <1>2 DEF IsFreeColor, UsedColors
  <1>8. ProperColoring'
    <2> SUFFICES ASSUME NEW f \in colored', NEW g \in colored', Adjacent(f, g)
                 PROVE  edgesColor'[f] # edgesColor'[g]
      BY DEF ProperColoring, Adjacent
    <2>1. CASE f = e
      BY <2>1, <1>1, <1>4, <1>5, <1>7 DEF Adjacent
    <2>2. CASE g = e
      <3>1. Adjacent(e, f)
        BY <2>2 DEF Adjacent
      <3>2. QED
        BY <2>2, <3>1, <1>1, <1>4, <1>5, <1>7 DEF Adjacent
    <2>3. CASE f # e /\ g # e
      BY <2>3, <1>1, <1>4, <1>5 DEF SchemeInv, ProperColoring
    <2>4. QED
      BY <2>1, <2>2, <2>3
  <1>9. UncoloredLast'
    BY <1>1, <1>3, <1>5 DEF SchemeInv, UncoloredLast
  <1>10. HeavyFirst'
    <2> SUFFICES ASSUME NEW f \in colored', NEW g \in Edges \ colored'
                 PROVE  weight[f] >= weight[g]
      BY <1>1, <1>3 DEF HeavyFirst
    <2>1. CASE f = e
      BY <2>1, <1>1, <1>4 DEF Edges
    <2>2. CASE f # e
      BY <2>2, <1>1 DEF SchemeInv, HeavyFirst
    <2>3. QED
      BY <2>1, <2>2
  <1>11. HeavierBordersFirst'
    <2> SUFFICES ASSUME NEW f \in colored', NEW d \in 0 .. (edgesColor'[f] - 1)
                 PROVE  \E g \in colored' : /\ Adjacent(f, g)
                                            /\ edgesColor'[g] = d
                                            /\ weight[g] >= weight[f]
      BY <1>1 DEF HeavierBordersFirst, Adjacent, Meets
    <2>1. CASE f = e
      <3>1. d \in 0 .. (c - 1)
        BY <2>1, <1>1, <1>5
      <3>2. PICK g \in Edges : Adjacent(e, g) /\ edgesColor[g] = d
        BY <3>1, <1>2 DEF IsFreeColor, UsedColors
      <3>3. g \in colored
        <4>1. d < Uncolored /\ Uncolored \in Nat
          BY <3>1, <1>2, <1>4 DEF Uncolored
        <4>2. QED
          BY <4>1, <3>1, <3>2 DEF SchemeInv, UncoloredLast
      <3>4. weight[g] >= weight[e]
        BY <3>3, <1>1 DEF SchemeInv, HeavyFirst
      <3>5. QED
        BY <2>1, <3>2, <3>3, <3>4, <1>1, <1>5 DEF Adjacent
    <2>2. CASE f # e
      <3>1. f \in colored /\ d \in 0 .. (edgesColor[f] - 1)
        BY <2>2, <1>1, <1>4, <1>5
      <3>2. PICK g \in colored : /\ Adjacent(f, g)
                                 /\ edgesColor[g] = d
                                 /\ weight[g] >= weight[f]
        BY <3>1 DEF SchemeInv, HeavierBordersFirst
      <3>3. QED
        BY <3>2, <1>1, <1>4, <1>5
    <2>3. QED
      BY <2>1, <2>2
  <1>12. QED
    BY <1>1, <1>6, <1>8, <1>9, <1>10, <1>11 DEF SchemeInv

\* Fresh rounds, in which every block is idle.
LEMMA AllocateStep ==
  ASSUME SchemeInv, AllocateScheme
  PROVE  SchemeInv'
  <1> USE NAssumption DEF AllocateScheme
  <1>1. Edges' = Edges /\ Uncolored' = Uncolored
    BY DEF Edges, Uncolored
  <1>2. paired = {}
    BY DEF SchemeInv, SchemeTypeOK
  <1>3. SchemeTypeOK'
    BY <1>1, <1>2 DEF SchemeInv, SchemeTypeOK
  <1>4. PairsWritten' /\ OthersIdle'
    BY <1>2 DEF PairsWritten, OthersIdle
  <1>5. ProperColoring' /\ UncoloredLast' /\ HeavyFirst' /\ HeavierBordersFirst'
    BY <1>1 DEF SchemeInv, ProperColoring, UncoloredLast, HeavyFirst,
                HeavierBordersFirst, Adjacent, Meets
  <1>6. QED
    BY <1>3, <1>4, <1>5 DEF SchemeInv

\* Writing one pair: no pair written before shares a block with it in the
\* same round, because the colouring is proper.
LEMMA SetPairStep ==
  ASSUME SchemeInv, NEW e \in Pair, SetPair(e)
  PROVE  SchemeInv'
  <1> USE NAssumption
  <1>1. /\ stage = "pair" /\ e \in colored /\ e \notin paired
        /\ paired' = paired \cup {e}
        /\ UNCHANGED <<weight, maxDegree, edgesColor, colored, colors, stage>>
        /\ scheme' = [scheme EXCEPT ![edgesColor[e]][e[1]] = e[2],
                                    ![edgesColor[e]][e[2]] = e[1]]
    BY DEF SetPair
  <1>2. Edges' = Edges /\ Uncolored' = Uncolored
    BY <1>1 DEF Edges, Uncolored
  <1>3. /\ colored = Edges /\ paired \subseteq colored /\ colors \in Nat
        /\ scheme \in [0 .. (colors - 1) -> [Blocks -> Blocks]]
        /\ edgesColor \in [Edges -> 0 .. (2 * N)]
        /\ \A f \in colored : edgesColor[f] < colors
    BY <1>1 DEF SchemeInv, SchemeTypeOK
  <1>4. \A f \in Edges : /\ f[1] \in Blocks /\ f[2] \in Blocks /\ f[1] # f[2]
                         /\ edgesColor[f] \in 0 .. (colors - 1)
    BY <1>3 DEF Edges, Pair, Blocks
  <1>5. /\ scheme' \in [0 .. (colors - 1) -> [Blocks -> Blocks]]
        /\ \A r \in 0 .. (colors - 1) : \A b \in Blocks :
             scheme'[r][b] = IF r = edgesColor[e] /\ b = e[2] THEN e[1]
                             ELSE IF r = edgesColor[e] /\ b = e[1] THEN e[2]
                             ELSE scheme[r][b]
    BY <1>1, <1>3, <1>4
  <1>6. SchemeTypeOK'
    BY <1>1, <1>2, <1>3, <1>5 DEF SchemeInv, SchemeTypeOK
  <1>7. PairsWritten'
    <2> SUFFICES ASSUME NEW f \in paired'
                 PROVE  /\ scheme'[edgesColor[f]][f[1]] = f[2]
                        /\ scheme'[edgesColor[f]][f[2]] = f[1]
      BY <1>1 DEF PairsWritten
    <2>1. CASE f = e
      BY <2>1, <1>1, <1>3, <1>4, <1>5
    <2>2. CASE f # e
      <3>1. f \in paired /\ f \in Edges /\ e \in Edges
        BY <2>2, <1>1, <1>3
      <3>2. edgesColor[f] = edgesColor[e] =>
              f[1] \notin {e[1], e[2]} /\ f[2] \notin {e[1], e[2]}
        BY <2>2, <3>1, <1>3, <1>4 DEF SchemeInv, ProperColoring, Adjacent, Meets
      <3>3. /\ scheme[edgesColor[f]][f[1]] = f[2]
            /\ scheme[edgesColor[f]][f[2]] = f[1]
        BY <3>1, <1>1 DEF SchemeInv, PairsWritten
      <3>4. QED
        BY <3>1, <3>2, <3>3, <1>4, <1>5
    <2>3. QED
      BY <2>1, <2>2
  <1>8. OthersIdle'
    <2>0. colors' = colors /\ edgesColor' = edgesColor
      BY <1>1
    <2> SUFFICES ASSUME NEW r \in 0 .. (colors' - 1), NEW b \in Blocks,
                        \A f \in paired' : edgesColor'[f] = r => ~ Meets(f, b)
                 PROVE  scheme'[r][b] = b
      BY DEF OthersIdle
    <2>1. scheme[r][b] = b
      BY <2>0, <1>1 DEF SchemeInv, OthersIdle
    <2>2. r = edgesColor[e] => b # e[1] /\ b # e[2]
      BY <2>0, <1>1 DEF Meets
    <2>3. QED
      BY <2>0, <2>1, <2>2, <1>5
  <1>9. ProperColoring' /\ UncoloredLast' /\ HeavyFirst' /\ HeavierBordersFirst'
    BY <1>1, <1>2 DEF SchemeInv, ProperColoring, UncoloredLast, HeavyFirst,
                      HeavierBordersFirst, Adjacent, Meets
  <1>10. QED
    BY <1>6, <1>7, <1>8, <1>9 DEF SchemeInv

\* Every step keeps the inductive invariant.
LEMMA NextSchemeInv == SchemeInv /\ [SchemeNext]_schemeVars => SchemeInv'
  <1> SUFFICES ASSUME SchemeInv, [SchemeNext]_schemeVars PROVE SchemeInv'
    OBVIOUS
  <1>1. ASSUME NEW e \in Pair, ColorEdge(e) PROVE SchemeInv'
    BY <1>1, ColorEdgeStep
  <1>2. ASSUME NEW e \in Pair, SetPair(e) PROVE SchemeInv'
    BY <1>2, SetPairStep
  <1>3. CASE AllocateScheme
    BY <1>3, AllocateStep
  <1>4. CASE Return
    <2>1. Edges' = Edges /\ Uncolored' = Uncolored
      BY <1>4 DEF Return, Edges, Uncolored
    <2>2. QED
      BY <1>4, <2>1 DEF Return, SchemeInv, SchemeTypeOK, ProperColoring, UncoloredLast,
         HeavyFirst, HeavierBordersFirst, PairsWritten, OthersIdle, Adjacent, Meets
  <1>5. CASE UNCHANGED schemeVars
    <2>1. Edges' = Edges /\ Uncolored' = Uncolored
      BY <1>5 DEF schemeVars, Edges, Uncolored
    <2>2. QED
      BY <1>5, <2>1 DEF schemeVars, SchemeInv, SchemeTypeOK, ProperColoring, UncoloredLast,
         HeavyFirst, HeavierBordersFirst, PairsWritten, OthersIdle, Adjacent, Meets
  <1>6. CASE Stopped
    BY <1>5, <1>6 DEF Stopped
  <1>7. QED
    BY <1>1, <1>2, <1>3, <1>4, <1>5, <1>6 DEF SchemeNext

\* The inductive invariant holds in all reachable states.
LEMMA AlwaysSchemeInv == SchemeSpec => []SchemeInv
  BY InitSchemeInv, NextSchemeInv, PTL DEF SchemeSpec

\* Type correctness of the scheme's construction, for every block graph.
THEOREM SchemeTypeCorrect == SchemeSpec => []SchemeTypeOK
  <1>1. SchemeInv => SchemeTypeOK
    BY DEF SchemeInv
  <1>2. QED
    BY AlwaysSchemeInv, <1>1, PTL

\* mecGraphColoring never gives two edges of one block the same colour.
THEOREM ColoringIsProper == SchemeSpec => []ProperColoring
  <1>1. SchemeInv => ProperColoring
    BY DEF SchemeInv
  <1>2. QED
    BY AlwaysSchemeInv, <1>1, PTL

\* A border waits for a later round only behind borders at least as heavy.
THEOREM HeavierFirst == SchemeSpec => []HeavierBordersFirst
  <1>1. SchemeInv => HeavierBordersFirst
    BY DEF SchemeInv
  <1>2. QED
    BY AlwaysSchemeInv, <1>1, PTL

\* In the scheme of getCommunicationPairs_local the partner of a process's
\* partner is the process itself, in every round: nobody waits in vain.
THEOREM RoundsPair == SchemeSpec => []RoundsArePairings
  <1>1. SchemeInv => RoundsArePairings
    <2> SUFFICES ASSUME SchemeInv, stage = "done",
                        NEW r \in DOMAIN scheme, NEW b \in Blocks
                 PROVE  scheme[r][scheme[r][b]] = b
      BY DEF RoundsArePairings
    <2>1. /\ r \in 0 .. (colors - 1) /\ PairsWritten /\ OthersIdle
          /\ paired \subseteq Pair
      BY DEF SchemeInv, SchemeTypeOK, Edges
    <2>2. CASE \A e \in paired : edgesColor[e] = r => ~ Meets(e, b)
      BY <2>1, <2>2 DEF OthersIdle
    <2>3. CASE \E e \in paired : edgesColor[e] = r /\ Meets(e, b)
      BY <2>1, <2>3 DEF PairsWritten, Meets
    <2>4. QED
      BY <2>2, <2>3
  <1>2. QED
    BY AlwaysSchemeInv, <1>1, PTL
=============================================================================
