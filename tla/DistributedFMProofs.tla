------------------------- MODULE DistributedFMProofs ------------------------
(***************************************************************************)
(* Proofs about DistributedFM, for every graph, communication scheme and   *)
(* number of processes: the border lists stay exact and the origins travel *)
(* with their nodes.  Neither needs to know which message arrives when;    *)
(* what is needed of a message is that the origins of its candidates are   *)
(* right (Sound), which holds of everything that is ever sent.             *)
(*                                                                         *)
(* The second part is the protocol: how far the processes of a pair can be *)
(* apart, and which messages are then in the channels between them.        *)
(*                                                                         *)
(* In a round both processes send at most five messages, in the order of   *)
(* Stage, and take the messages of the partner in the same order.  Seen    *)
(* from p, its partner q is in the same round (Same), has left it (Behind),*)
(* or has come early to the next round the two share (Early); the channel  *)
(* holds what q has sent in this round and p has not taken, in order, or   *)
(* the last message of this round, or the first of the next one (Link).    *)
(*                                                                         *)
(* The third part shows that the gains are right and that a sweep is an    *)
(* implementation of PairwiseRefinement.  What PairwiseRefinement itself   *)
(* promises is shown at the end.                                           *)
(***************************************************************************)
EXTENDS DistributedFM, PartGraphProofs, SequenceTheorems

\* ----- Sequences of any elements.

IsSequence(s) == \E S : s \in Seq(S)

LEMMA AppendSequence ==
  ASSUME NEW s, IsSequence(s), NEW m
  PROVE  /\ IsSequence(Append(s, m))
         /\ Len(Append(s, m)) = Len(s) + 1
         /\ \A i \in 1 .. Len(s) : Append(s, m)[i] = s[i]
         /\ Append(s, m)[Len(s) + 1] = m
  <1>1. PICK S : s \in Seq(S)
    BY DEF IsSequence
  <1>2. s \in Seq(S \cup {m})
    BY <1>1
  <1>3. Append(s, m) \in Seq(S \cup {m})
    BY <1>2
  <1>4. QED
    BY <1>2, <1>3 DEF IsSequence

LEMMA TailSequence ==
  ASSUME NEW s, IsSequence(s), s # <<>>
  PROVE  /\ IsSequence(Tail(s))
         /\ Len(Tail(s)) = Len(s) - 1 /\ Len(s) \in Nat \ {0}
         /\ \A i \in 1 .. Len(Tail(s)) : Tail(s)[i] = s[i + 1]
         /\ Head(s) = s[1]
  <1>1. PICK S : s \in Seq(S)
    BY DEF IsSequence
  <1>2. Tail(s) \in Seq(S)
    BY <1>1
  <1>3. QED
    BY <1>1, <1>2 DEF IsSequence

\* ----- The inductive invariant.

\* The candidates of a message (or of the halo made from it) are nodes, and
\* come with the right origins.
Sound(m) == m.cand \subseteq Node /\ \A n \in m.cand : m.origin[n] = start[n]

AllSound(s) == IsSequence(s) /\ \A i \in 1 .. Len(s) : Sound(s[i])

Shapes ==
  /\ owned \in [PE -> SUBSET Node]
  /\ DOMAIN border = PE /\ DOMAIN origin = PE /\ DOMAIN color = PE
  /\ DOMAIN pc = PE /\ DOMAIN iface = PE /\ DOMAIN halo = PE
  /\ DOMAIN chan = PE \X PE
  /\ \A p \in PE : pc[p] \notin {"round", "done"} =>
       color[p] \in DOMAIN Scheme /\ Partner(p) # p

\* The region a process offers consists of its own nodes.
InterfaceLocal ==
  \A p \in PE : iface[p].cand \subseteq iface[p].nodes /\ iface[p].nodes \subseteq owned[p]

IInv ==
  /\ Shapes
  /\ InterfaceLocal
  /\ \A p \in PE : Sound(halo[p])
  /\ \A c \in PE \X PE : AllSound(chan[c])
  /\ BorderExact
  /\ OriginTravels

LEMMA InitIInv == Init => IInv
  <1> SUFFICES ASSUME Init PROVE IInv
    OBVIOUS
  <1>1. start \in [Node -> PE]
    BY SettingsAssumption DEF Init
  <1>2. Shapes
    BY DEF Init, Shapes
  <1>3. InterfaceLocal
    BY DEF Init, InterfaceLocal, NoInterface
  <1>4. \A p \in PE : Sound(halo[p])
    BY DEF Init, Sound, NoHalo
  <1>5. \A c \in PE \X PE : AllSound(chan[c])
    <2>1. IsSequence(<<>>)
      BY DEF IsSequence
    <2>2. Len(<<>>) = 0
      OBVIOUS
    <2>3. \A c \in PE \X PE : chan[c] = <<>>
      BY DEF Init
    <2>4. QED
      BY <2>1, <2>2, <2>3 DEF AllSound
  <1>6. BorderExact
    BY DEF Init, BorderExact, NonLocalNeighborNodes
  <1>7. OriginTravels
    BY <1>1 DEF Init, OriginTravels
  <1>8. QED
    BY <1>2, <1>3, <1>4, <1>5, <1>6, <1>7 DEF IInv

\* ----- The channels.

\* In a round, the partner is a process and both channels exist.
LEMMA PartnerIsPE ==
  ASSUME NEW p \in PE, color[p] \in DOMAIN Scheme
  PROVE  /\ Partner(p) \in PE
         /\ <<p, Partner(p)>> \in PE \X PE /\ <<Partner(p), p>> \in PE \X PE
  BY SchemeAssumption DEF Partner

\* What a process takes is sound, and so is what is left.
LEMMA ReceivedSound ==
  ASSUME IInv, NEW p \in PE, color[p] \in DOMAIN Scheme, HasMessage(p)
  PROVE  /\ Sound(Received(p))
         /\ AllSound(Tail(chan[<<Partner(p), p>>]))
  <1> DEFINE s == chan[<<Partner(p), p>>]
  <1>1. AllSound(s) /\ s # <<>>
    BY PartnerIsPE DEF IInv, HasMessage
  <1>2. /\ IsSequence(Tail(s)) /\ Len(Tail(s)) = Len(s) - 1 /\ Len(s) \in Nat \ {0}
        /\ \A i \in 1 .. Len(Tail(s)) : Tail(s)[i] = s[i + 1]
        /\ Head(s) = s[1]
    <2> HIDE DEF s
    <2>1. QED
      BY <1>1, TailSequence DEF AllSound
  <1>3. Sound(s[1]) /\ \A i \in 1 .. Len(Tail(s)) : Sound(s[i + 1])
    BY <1>1, <1>2 DEF AllSound
  <1>4. QED
    BY <1>2, <1>3 DEF Received, AllSound

\* Appending a sound message.
LEMMA AppendSound ==
  ASSUME NEW s, AllSound(s), NEW m, Sound(m)
  PROVE  AllSound(Append(s, m))
  <1>1. /\ IsSequence(Append(s, m)) /\ Len(Append(s, m)) = Len(s) + 1
        /\ \A i \in 1 .. Len(s) : Append(s, m)[i] = s[i]
        /\ Append(s, m)[Len(s) + 1] = m
    BY AppendSequence DEF AllSound
  <1>2. Len(s) \in Nat
    BY DEF AllSound, IsSequence
  <1>3. QED
    BY <1>1, <1>2 DEF AllSound

LEMMA SendSound ==
  ASSUME IInv, NEW p \in PE, color[p] \in DOMAIN Scheme, NEW m, Sound(m),
         chan' = Send(p, m)
  PROVE  DOMAIN chan' = PE \X PE /\ \A c \in PE \X PE : AllSound(chan'[c])
  <1>1. DOMAIN chan = PE \X PE /\ \A c \in PE \X PE : AllSound(chan[c])
    BY DEF IInv, Shapes
  <1>2. AllSound(Append(chan[<<p, Partner(p)>>], m))
    BY <1>1, PartnerIsPE, AppendSound
  <1>3. QED
    BY <1>1, <1>2 DEF Send

LEMMA TakeSound ==
  ASSUME IInv, NEW p \in PE, color[p] \in DOMAIN Scheme, HasMessage(p),
         chan' = Take(p)
  PROVE  DOMAIN chan' = PE \X PE /\ \A c \in PE \X PE : AllSound(chan'[c])
  <1>1. DOMAIN chan = PE \X PE /\ \A c \in PE \X PE : AllSound(chan[c])
    BY DEF IInv, Shapes
  <1>2. QED
    BY <1>1, ReceivedSound DEF Take

LEMMA TakeAndSendSound ==
  ASSUME IInv, NEW p \in PE, color[p] \in DOMAIN Scheme, Partner(p) # p,
         HasMessage(p), NEW m, Sound(m), chan' = TakeAndSend(p, m)
  PROVE  DOMAIN chan' = PE \X PE /\ \A c \in PE \X PE : AllSound(chan'[c])
  <1> DEFINE taken == Take(p)
  <1>1. DOMAIN chan = PE \X PE /\ \A c \in PE \X PE : AllSound(chan[c])
    BY DEF IInv, Shapes
  <1>2. DOMAIN taken = PE \X PE /\ \A c \in PE \X PE : AllSound(taken[c])
    BY <1>1, ReceivedSound DEF Take
  <1>3. /\ DOMAIN chan' = PE \X PE
        /\ \A c \in PE \X PE :
             chan'[c] = IF c = <<p, Partner(p)>> THEN Append(taken[c], m) ELSE taken[c]
    <2>1. <<p, Partner(p)>> # <<Partner(p), p>>
      OBVIOUS
    <2>2. QED
      BY <1>1, <2>1, PartnerIsPE DEF TakeAndSend, Take
  <1>4. AllSound(Append(taken[<<p, Partner(p)>>], m))
    BY <1>2, PartnerIsPE, AppendSound
  <1> HIDE DEF taken
  <1>5. QED
    BY <1>2, <1>3, <1>4

\* ----- One lemma per kind of step.

\* BorderExact and OriginTravels only depend on these variables.
LEMMA DataUnchanged ==
  ASSUME IInv, UNCHANGED <<start, owned, border, origin>>
  PROVE  BorderExact' /\ OriginTravels' /\ owned' \in [PE -> SUBSET Node]
         /\ DOMAIN border' = PE /\ DOMAIN origin' = PE
         /\ \A m : Sound(m) => Sound(m)'
  BY DEF IInv, Shapes, BorderExact, OriginTravels, Sound

\* A message without candidates is sound.
LEMMA BlankSound ==
  /\ \A S : Sound([Blank EXCEPT !.kind = "border", !.nodes = S])
  /\ \A k, w : Sound([Blank EXCEPT !.kind = "sizes", !.count = k, !.weight = w])
  /\ \A g : Sound([Blank EXCEPT !.kind = "gain", !.gain = g])
  /\ \A T : Sound([Blank EXCEPT !.kind = "result", !.toSecond = T])
  BY DEF Blank, Sound

\* The channels stay sound if their new contents are.
LEMMA ChannelsSound ==
  ASSUME start' = start, \A c \in PE \X PE : AllSound(chan'[c])
  PROVE  \A c \in PE \X PE : AllSound(chan[c])'
  BY DEF AllSound, Sound

\* At the end of a round p forgets the region.
LEMMA NextRoundStep ==
  ASSUME IInv, NEW p \in PE, NextRound(p), start' = start,
         owned' \in [PE -> SUBSET Node],
         \A q \in PE \ {p} : owned'[q] = owned[q],
         DOMAIN border' = PE, DOMAIN origin' = PE, DOMAIN chan' = PE \X PE
  PROVE  Shapes' /\ InterfaceLocal' /\ \A q \in PE : Sound(halo[q])'
  <1>1. /\ DOMAIN color' = PE /\ DOMAIN pc' = PE /\ DOMAIN iface' = PE
        /\ DOMAIN halo' = PE
        /\ pc'[p] = "round" /\ iface'[p] = NoInterface /\ halo'[p] = NoHalo
        /\ \A q \in PE \ {p} : /\ pc'[q] = pc[q] /\ color'[q] = color[q]
                               /\ iface'[q] = iface[q] /\ halo'[q] = halo[q]
    BY DEF IInv, Shapes, NextRound
  <1>2. Shapes'
    BY <1>1 DEF IInv, Shapes, Partner
  <1>3. InterfaceLocal'
    BY <1>1 DEF IInv, InterfaceLocal, NoInterface
  <1>4. \A q \in PE : Sound(halo[q])'
    BY <1>1 DEF IInv, Sound, NoHalo
  <1>5. QED
    BY <1>2, <1>3, <1>4

LEMMA IdleStep ==
  ASSUME IInv, NEW p \in PE, Idle(p)
  PROVE  IInv'
  <1>1. UNCHANGED <<start, owned, border, origin, chan>> /\ NextRound(p)
    BY DEF Idle
  <1>2. \A c \in PE \X PE : AllSound(chan'[c])
    BY <1>1 DEF IInv
  <1>3. QED
    BY <1>1, <1>2, DataUnchanged, NextRoundStep, ChannelsSound DEF IInv, Shapes

LEMMA NoImprovementStep ==
  ASSUME IInv, NEW p \in PE, NoImprovement(p)
  PROVE  IInv'
  <1>1. /\ UNCHANGED <<start, owned, border, origin>> /\ NextRound(p)
        /\ chan' = Take(p) /\ pc[p] = "gain" /\ HasMessage(p)
    BY DEF NoImprovement
  <1>2. color[p] \in DOMAIN Scheme
    BY <1>1 DEF IInv, Shapes
  <1>3. DOMAIN chan' = PE \X PE /\ \A c \in PE \X PE : AllSound(chan'[c])
    BY <1>1, <1>2, TakeSound
  <1>4. QED
    BY <1>1, <1>3, DataUnchanged, NextRoundStep, ChannelsSound DEF IInv, Shapes

\* A step inside a round that leaves the distributed data alone.
LEMMA InnerStep ==
  ASSUME IInv, NEW p \in PE, UNCHANGED <<start, owned, border, origin, color>>,
         NEW k, pc' = [pc EXCEPT ![p] = k],
         color[p] \in DOMAIN Scheme, Partner(p) # p,
         DOMAIN iface' = PE, InterfaceLocal',
         DOMAIN halo' = PE, \A q \in PE : Sound(halo'[q]),
         DOMAIN chan' = PE \X PE, \A c \in PE \X PE : AllSound(chan'[c])
  PROVE  IInv'
  <1>1. Shapes'
    BY DEF IInv, Shapes, Partner
  <1>2. \A q \in PE : Sound(halo[q])'
    BY DEF Sound
  <1>3. QED
    BY <1>1, <1>2, DataUnchanged, ChannelsSound DEF IInv

LEMMA SendBorderStep ==
  ASSUME IInv, NEW p \in PE, SendBorder(p)
  PROVE  IInv'
  <1>1. /\ UNCHANGED <<start, owned, border, origin, color, iface, halo>>
        /\ color[p] \in DOMAIN Scheme /\ Partner(p) # p
        /\ pc' = [pc EXCEPT ![p] = "border"]
        /\ chan' = Send(p, [Blank EXCEPT !.kind = "border", !.nodes = border[p]])
    BY DEF SendBorder
  <1>2. DOMAIN chan' = PE \X PE /\ \A c \in PE \X PE : AllSound(chan'[c])
    BY <1>1, SendSound, BlankSound
  <1>3. InterfaceLocal' /\ DOMAIN iface' = PE /\ DOMAIN halo' = PE
        /\ \A q \in PE : Sound(halo'[q])
    BY <1>1 DEF IInv, Shapes, InterfaceLocal
  <1>4. QED
    BY <1>1, <1>2, <1>3, InnerStep

\* The interface nodes found are local, and so are the candidates.
LEMMA SwapSizesStep ==
  ASSUME IInv, NEW p \in PE, SwapSizes(p)
  PROVE  IInv'
  <1>1. PICK found :
          /\ found = InterfaceNodes(owned[p], border[p], Received(p).nodes,
                                    MinBorderNodes[p])
          /\ iface' = [iface EXCEPT ![p] = found]
          /\ chan' = TakeAndSend(p, [Blank EXCEPT !.kind = "sizes",
                           !.count = Cardinality(found.nodes),
                           !.weight = WeightOf(NodeWeight, owned[p])])
    BY DEF SwapSizes
  <1>2. /\ UNCHANGED <<start, owned, border, origin, color, halo>>
        /\ pc[p] = "border" /\ HasMessage(p) /\ pc' = [pc EXCEPT ![p] = "sizes"]
    BY DEF SwapSizes
  <1>3. color[p] \in DOMAIN Scheme /\ Partner(p) # p
    BY <1>2 DEF IInv, Shapes
  <1>4. DOMAIN chan' = PE \X PE /\ \A c \in PE \X PE : AllSound(chan'[c])
    BY <1>1, <1>2, <1>3, TakeAndSendSound, BlankSound
  <1>5. found.cand \subseteq found.nodes /\ found.nodes \subseteq owned[p]
    BY <1>1 DEF InterfaceNodes
  <1>6. DOMAIN iface' = PE /\ InterfaceLocal'
    BY <1>1, <1>2, <1>5 DEF IInv, Shapes, InterfaceLocal
  <1>7. DOMAIN halo' = PE /\ \A q \in PE : Sound(halo'[q])
    BY <1>2 DEF IInv, Shapes
  <1>8. QED
    BY <1>2, <1>3, <1>4, <1>6, <1>7, InnerStep

\* The halo that p sends carries the right origins, because its nodes are
\* still p's own.
LEMMA SwapHaloStep ==
  ASSUME IInv, NEW p \in PE, SwapHalo(p)
  PROVE  IInv'
  <1> DEFINE m == [Blank EXCEPT !.kind = "halo",
                       !.nodes = iface[p].nodes,
                       !.cand = iface[p].cand,
                       !.origin = [n \in Node |-> IF n \in iface[p].nodes
                                                 THEN origin[p][n] ELSE -1]]
  <1>1. /\ UNCHANGED <<start, owned, border, origin, color, iface, halo>>
        /\ pc[p] = "sizes" /\ HasMessage(p) /\ pc' = [pc EXCEPT ![p] = "halo"]
        /\ chan' = TakeAndSend(p, m)
    BY DEF SwapHalo
  <1>2. color[p] \in DOMAIN Scheme /\ Partner(p) # p
    BY <1>1 DEF IInv, Shapes
  <1>3. Sound(m)
    <2>1. /\ iface[p].cand \subseteq iface[p].nodes /\ iface[p].nodes \subseteq owned[p]
          /\ owned[p] \subseteq Node
      BY DEF IInv, InterfaceLocal, Shapes
    <2>2. \A n \in owned[p] : origin[p][n] = start[n]
      BY <2>1 DEF IInv, OriginTravels
    <2>3. m.cand = iface[p].cand /\ \A n \in iface[p].nodes \cap Node :
                                     m.origin[n] = origin[p][n]
      BY DEF Blank
    <2>4. QED
      BY <2>1, <2>2, <2>3 DEF Sound
  <1> HIDE DEF m
  <1>4. DOMAIN chan' = PE \X PE /\ \A c \in PE \X PE : AllSound(chan'[c])
    BY <1>1, <1>2, <1>3, TakeAndSendSound
  <1>5. /\ InterfaceLocal' /\ DOMAIN iface' = PE /\ DOMAIN halo' = PE
        /\ \A q \in PE : Sound(halo'[q])
    BY <1>1 DEF IInv, Shapes, InterfaceLocal
  <1>6. QED
    BY <1>1, <1>2, <1>4, <1>5, InnerStep

\* The halo kept is the message received.
LEMMA RefineStep ==
  ASSUME IInv, NEW p \in PE, RefineAndSwapGain(p)
  PROVE  IInv'
  <1> DEFINE other == Received(p)
             kept == [nodes |-> other.nodes, cand |-> other.cand,
                      origin |-> other.origin]
  <1>1. /\ UNCHANGED <<start, owned, border, origin, color, iface>>
        /\ pc[p] = "halo" /\ HasMessage(p) /\ pc' = [pc EXCEPT ![p] = "gain"]
        /\ halo' = [halo EXCEPT ![p] = kept]
    BY DEF RefineAndSwapGain
  <1>2. PICK out : chan' = TakeAndSend(p, [Blank EXCEPT !.kind = "gain",
                                                       !.gain = out.gain])
    BY DEF RefineAndSwapGain
  <1>3. color[p] \in DOMAIN Scheme /\ Partner(p) # p
    BY <1>1 DEF IInv, Shapes
  <1>4. DOMAIN chan' = PE \X PE /\ \A c \in PE \X PE : AllSound(chan'[c])
    BY <1>1, <1>2, <1>3, TakeAndSendSound, BlankSound
  <1>5. Sound(kept)
    BY <1>1, <1>3, ReceivedSound DEF Sound
  <1> HIDE DEF kept
  <1>6. DOMAIN halo' = PE /\ \A q \in PE : Sound(halo'[q])
    BY <1>1, <1>5 DEF IInv, Shapes
  <1>7. InterfaceLocal' /\ DOMAIN iface' = PE
    BY <1>1 DEF IInv, Shapes, InterfaceLocal
  <1>8. QED
    BY <1>1, <1>3, <1>4, <1>6, <1>7, InnerStep

LEMMA SwapResultStep ==
  ASSUME IInv, NEW p \in PE, SwapResult(p)
  PROVE  IInv'
  <1>1. /\ UNCHANGED <<start, owned, border, origin, color, iface, halo>>
        /\ pc[p] = "gain" /\ HasMessage(p) /\ pc' = [pc EXCEPT ![p] = "result"]
        /\ chan' = TakeAndSend(p, [Blank EXCEPT !.kind = "result",
                                              !.toSecond = fm[p].toSecond])
    BY DEF SwapResult
  <1>2. color[p] \in DOMAIN Scheme /\ Partner(p) # p
    BY <1>1 DEF IInv, Shapes
  <1>3. DOMAIN chan' = PE \X PE /\ \A c \in PE \X PE : AllSound(chan'[c])
    BY <1>1, <1>2, TakeAndSendSound, BlankSound
  <1>4. /\ InterfaceLocal' /\ DOMAIN iface' = PE /\ DOMAIN halo' = PE
        /\ \A q \in PE : Sound(halo'[q])
    BY <1>1 DEF IInv, Shapes, InterfaceLocal
  <1>5. QED
    BY <1>1, <1>2, <1>3, <1>4, InnerStep

\* The border candidates suffice: a node of the new block with a neighbour
\* outside of it is new, or was a border node before, or has lost a neighbour.
LEMMA CandidatesSuffice ==
  ASSUME NEW own \in SUBSET Node, NEW del \in SUBSET own, NEW add,
         NEW n \in (own \ del) \cup add,
         NEW m \in Neighbors(EdgeWeight, n), m \notin (own \ del) \cup add
  PROVE  \/ n \in add
         \/ n \in own /\ Neighbors(EdgeWeight, n) \ own # {}
         \/ n \in NeighborsOf(EdgeWeight, del)
  <1>1. CASE n \in own /\ m \in own
    <2>1. m \in del
      BY <1>1
    <2>2. n \in Neighbors(EdgeWeight, m)
      BY <1>1, GraphAssumption DEF Neighbors
    <2>3. QED
      BY <2>1, <2>2 DEF NeighborsOf
  <1>2. QED
    BY <1>1

\* p takes over its new block.
LEMMA ApplyResultStep ==
  ASSUME IInv, NEW p \in PE, ApplyResult(p)
  PROVE  IInv'
  <1> DEFINE res == Received(p).toSecond
             new == NewLocal(p, res)
  <1>1. /\ pc[p] = "result" /\ HasMessage(p) /\ NextRound(p)
        /\ owned' = [owned EXCEPT ![p] = new]
        /\ border' = [border EXCEPT
               ![p] = NonLocalNeighborNodes(new, BorderCandidates(p, res))]
        /\ origin' = [origin EXCEPT ![p] = RedistributedOrigin(p, new)]
        /\ chan' = Take(p) /\ start' = start
    BY DEF ApplyResult
  <1>2. color[p] \in DOMAIN Scheme
    BY <1>1 DEF IInv, Shapes
  <1>3. /\ iface[p].cand \subseteq owned[p] /\ owned[p] \subseteq Node
        /\ halo[p].cand \subseteq Node
        /\ \A n \in halo[p].cand : halo[p].origin[n] = start[n]
        /\ owned \in [PE -> SUBSET Node] /\ DOMAIN border = PE /\ DOMAIN origin = PE
    BY DEF IInv, InterfaceLocal, Shapes, Sound
  <1>4. new \subseteq Node /\ new \subseteq owned[p] \cup halo[p].cand
    BY <1>3 DEF NewLocal, Added
  <1>5. DOMAIN chan' = PE \X PE /\ \A c \in PE \X PE : AllSound(chan'[c])
    BY <1>1, <1>2, TakeSound
  <1>6. BorderExact'
    <2>1. border'[p] = {n \in new : Neighbors(EdgeWeight, n) \ new # {}}
      <3>1. border[p] = {n \in owned[p] : Neighbors(EdgeWeight, n) \ owned[p] # {}}
        BY DEF IInv, BorderExact
      <3>2. Deleted(p, res) \subseteq owned[p]
        BY <1>3 DEF Deleted
      <3>3. border'[p] = NonLocalNeighborNodes(new, BorderCandidates(p, res))
        BY <1>1, <1>3
      <3>4. new = (owned[p] \ Deleted(p, res)) \cup Added(p, res)
        BY DEF NewLocal
      <3> HIDE DEF new, res
      <3>5. ASSUME NEW n \in new, NEW m \in Neighbors(EdgeWeight, n), m \notin new
            PROVE  n \in BorderCandidates(p, res)
        <4>1. \/ n \in Added(p, res)
              \/ n \in owned[p] /\ Neighbors(EdgeWeight, n) \ owned[p] # {}
              \/ n \in NeighborsOf(EdgeWeight, Deleted(p, res))
          BY <1>3, <3>2, <3>4, <3>5, CandidatesSuffice
        <4>2. QED
          BY <3>1, <4>1 DEF BorderCandidates
      <3>6. QED
        BY <3>3, <3>5 DEF NonLocalNeighborNodes
    <2>2. owned'[p] = new /\ \A q \in PE \ {p} : /\ owned'[q] = owned[q]
                                                /\ border'[q] = border[q]
      BY <1>1, <1>3
    <2> HIDE DEF new
    <2>3. QED
      BY <2>1, <2>2 DEF IInv, BorderExact
  <1>7. OriginTravels'
    <2>1. \A n \in Node : RedistributedOrigin(p, new)[n]
                            = IF n \in new THEN start[n] ELSE -1
      BY <1>3, <1>4 DEF RedistributedOrigin, IInv, OriginTravels
    <2>2. /\ owned'[p] = new /\ origin'[p] = RedistributedOrigin(p, new)
          /\ \A q \in PE \ {p} : owned'[q] = owned[q] /\ origin'[q] = origin[q]
      BY <1>1, <1>3
    <2> HIDE DEF new
    <2>3. QED
      BY <2>1, <2>2, <1>1 DEF IInv, OriginTravels
  <1>8. /\ owned' \in [PE -> SUBSET Node] /\ DOMAIN border' = PE
        /\ DOMAIN origin' = PE /\ \A q \in PE \ {p} : owned'[q] = owned[q]
    BY <1>1, <1>3, <1>4
  <1>9. QED
    BY <1>1, <1>5, <1>6, <1>7, <1>8, NextRoundStep, ChannelsSound DEF IInv

LEMMA NextIInv == IInv /\ [Next]_vars => IInv'
  <1> SUFFICES ASSUME IInv, [Next]_vars PROVE IInv'
    OBVIOUS
  <1>1. ASSUME NEW p \in PE, Step(p) PROVE IInv'
    BY <1>1, IdleStep, SendBorderStep, SwapSizesStep, SwapHaloStep, RefineStep,
       NoImprovementStep, SwapResultStep, ApplyResultStep DEF Step
  <1>2. CASE Synchronize
    <2>1. Shapes'
      BY <1>2 DEF IInv, Shapes, Synchronize
    <2>2. QED
      BY <1>2, <2>1, DataUnchanged, ChannelsSound
         DEF IInv, Synchronize, InterfaceLocal, Sound
  <1>3. CASE UNCHANGED vars
    <2>1. Shapes'
      BY <1>3 DEF IInv, Shapes, vars, Partner
    <2>2. QED
      BY <1>3, <2>1, DataUnchanged, ChannelsSound
         DEF IInv, vars, InterfaceLocal, Sound
  <1>4. CASE Returned
    BY <1>3, <1>4 DEF Returned
  <1>5. QED
    BY <1>1, <1>2, <1>3, <1>4 DEF Next

LEMMA AlwaysIInv == Spec => []IInv
  BY InitIInv, NextIInv, PTL DEF Spec

\* The border list that distributedFMStep updates from candidates always is the
\* list getNodesWithNonLocalNeighbors would compute from scratch.
THEOREM BorderStaysExact == Spec => []BorderExact
  <1>1. IInv => BorderExact
    BY DEF IInv
  <1>2. QED
    BY AlwaysIInv, <1>1, PTL

\* Wherever a node goes in a sweep, its origin stays the owner it had at the
\* start.
THEOREM OriginStays == Spec => []OriginTravels
  <1>1. IInv => OriginTravels
    BY DEF IInv
  <1>2. QED
    BY AlwaysIInv, <1>1, PTL

(***************************************************************************)
(* The protocol of a pair.                                                 *)
(***************************************************************************)

Kinds == {"round", "border", "sizes", "halo", "gain", "result", "done"}

\* How many messages of a round have been sent once this one has been.
Stage(k) == CASE k = "border" -> 1 [] k = "sizes" -> 2 [] k = "halo" -> 3
              [] k = "gain" -> 4 [] k = "result" -> 5 [] OTHER -> 0

Sent(p) == Stage(pc[p])

\* The number of the message that p takes next.
Due(p) == IF Sent(p) = 0 THEN 1 ELSE Sent(p)

\* p and q are partners in round r.
Meet(p, q, r) == r \in DOMAIN Scheme /\ p # q /\ Scheme[r][p] = q

\* p and its partner q are in the same round; q has left the round p is in;
\* q has come to a round with p that p has not reached.
Same(p, q) == Meet(p, q, color[p]) /\ color[q] = color[p]
Behind(p, q) == Meet(p, q, color[p]) /\ color[q] > color[p]
Early(q, p) == Meet(q, p, color[q]) /\ color[q] > color[p]

Types ==
  /\ color \in [PE -> 1 .. (Len(Scheme) + 1)]
  /\ pc \in [PE -> Kinds]
  /\ \A p \in PE : pc[p] = "done" => color[p] = Len(Scheme) + 1

Pending(p, q) == (IF Behind(p, q) THEN 1 ELSE 0) + (IF Early(q, p) THEN Sent(q) ELSE 0)

\* What q has sent to p and p has not received.
Link(p, q) ==
  LET s == chan[<<q, p>>]
  IN  /\ \A r \in DOMAIN Scheme : Meet(p, q, r) /\ color[p] > r => color[q] >= r
      /\ Same(p, q) =>
           /\ Sent(q) <= Sent(p) + 1 /\ Sent(p) <= Sent(q) + 1
           /\ Len(s) = Sent(q) - Due(p) + 1
           /\ \A i \in 1 .. Len(s) : Stage(s[i].kind) = Due(p) + i - 1
      /\ ~ Same(p, q) => Len(s) = Pending(p, q)
      /\ Behind(p, q) => Sent(p) \in {4, 5} /\ Stage(s[1].kind) = Sent(p)
      /\ Early(q, p) => Sent(q) \in {0, 1} /\ (Sent(q) = 1 => Stage(s[Len(s)].kind) = 1)

Links == \A p, q \in PE : p # q => Link(p, q)

LInv == IInv /\ Types /\ Links

\* A round has five messages.
LEMMA StageType == \A k : Stage(k) \in 0 .. 5
  BY DEF Stage

\* Partners meet each other.
LEMMA MeetSymmetric ==
  \A p, q \in PE : \A r : Meet(p, q, r) => Meet(q, p, r)
  BY SchemeAssumption DEF Meet

\* At the start all are in the first round and nothing is under way.
LEMMA InitLinks == Init => LInv
  <1> SUFFICES ASSUME Init PROVE Types /\ Links
    BY InitIInv DEF LInv
  <1>1. Scheme \in Seq([PE -> PE])
    BY SchemeAssumption
  <1>2. Types
    BY <1>1 DEF Init, Types, Kinds
  <1>3. \A p \in PE : color[p] = 1 /\ Sent(p) = 0
    BY DEF Init, Sent, Stage
  <1>4. \A p, q \in PE : chan[<<p, q>>] = <<>>
    BY DEF Init
  <1>5. \A r \in DOMAIN Scheme : r \in Nat /\ r >= 1
    BY <1>1
  <1>6. Len(<<>>) = 0
    OBVIOUS
  <1>7. Links
    <2> SUFFICES ASSUME NEW p \in PE, NEW q \in PE, p # q PROVE Link(p, q)
      BY DEF Links
    <2>1. ~ Behind(p, q) /\ ~ Early(q, p)
      BY <1>3 DEF Behind, Early
    <2>2. Len(chan[<<q, p>>]) = 0
      BY <1>4, <1>6
    <2>3. \A r \in DOMAIN Scheme : Meet(p, q, r) /\ color[p] > r => color[q] >= r
      BY <1>3, <1>5
    <2>4. QED
      BY <1>3, <2>1, <2>2, <2>3 DEF Link, Pending, Due
  <1>8. QED
    BY <1>2, <1>7

\* What the swaps do to the channels.
LEMMA SendEffect ==
  ASSUME IInv, NEW p \in PE, color[p] \in DOMAIN Scheme, Partner(p) # p,
         NEW m, chan' = Send(p, m)
  PROVE  /\ chan'[<<p, Partner(p)>>] = Append(chan[<<p, Partner(p)>>], m)
         /\ \A x, y \in PE : x # p \/ y # Partner(p) => chan'[<<x, y>>] = chan[<<x, y>>]
  <1>1. DOMAIN chan = PE \X PE
    BY DEF IInv, Shapes
  <1>2. QED
    BY <1>1, PartnerIsPE DEF Send

\* Taking shortens one channel.
LEMMA TakeEffect ==
  ASSUME IInv, NEW p \in PE, color[p] \in DOMAIN Scheme, Partner(p) # p, chan' = Take(p)
  PROVE  /\ chan'[<<Partner(p), p>>] = Tail(chan[<<Partner(p), p>>])
         /\ \A x, y \in PE : y # p \/ x # Partner(p) => chan'[<<x, y>>] = chan[<<x, y>>]
  <1>1. DOMAIN chan = PE \X PE
    BY DEF IInv, Shapes
  <1>2. QED
    BY <1>1, PartnerIsPE DEF Take

\* A swap shortens one channel and lengthens its opposite.
LEMMA TakeAndSendEffect ==
  ASSUME IInv, NEW p \in PE, color[p] \in DOMAIN Scheme, Partner(p) # p,
         NEW m, chan' = TakeAndSend(p, m)
  PROVE  /\ chan'[<<p, Partner(p)>>] = Append(chan[<<p, Partner(p)>>], m)
         /\ chan'[<<Partner(p), p>>] = Tail(chan[<<Partner(p), p>>])
         /\ \A x, y \in PE : <<x, y>> # <<p, Partner(p)>> /\ <<x, y>> # <<Partner(p), p>> =>
              chan'[<<x, y>>] = chan[<<x, y>>]
  <1>1. DOMAIN chan = PE \X PE
    BY DEF IInv, Shapes
  <1>2. <<p, Partner(p)>> # <<Partner(p), p>>
    OBVIOUS
  <1>3. QED
    BY <1>1, <1>2, PartnerIsPE DEF TakeAndSend

\* Channels hold sequences.
LEMMA ChannelSequences ==
  ASSUME IInv
  PROVE  \A x, y \in PE : IsSequence(chan[<<x, y>>]) /\ Len(chan[<<x, y>>]) \in Nat
  <1>1. \A x, y \in PE : IsSequence(chan[<<x, y>>])
    BY DEF IInv, AllSound
  <1>2. QED
    BY <1>1 DEF IsSequence

\* A process takes a message in the same round as its partner, or, when the
\* partner has left the round, the last one of the round.
LEMMA Received1 ==
  ASSUME LInv, NEW p \in PE, Sent(p) # 0, HasMessage(p)
  PROVE  /\ color[p] \in DOMAIN Scheme /\ Partner(p) \in PE /\ Partner(p) # p
         /\ Same(p, Partner(p)) \/ Behind(p, Partner(p))
         /\ Same(p, Partner(p)) => Sent(Partner(p)) >= Sent(p)
         /\ Behind(p, Partner(p)) => Sent(p) \in {4, 5}
         /\ Stage(Received(p).kind) = Sent(p)
         /\ Received(p) = chan[<<Partner(p), p>>][1]
         /\ Len(chan[<<Partner(p), p>>]) >= 1
  <1> DEFINE q == Partner(p)
             s == chan[<<q, p>>]
  <1>1. pc[p] \notin {"round", "done"}
    BY DEF Sent, Stage
  <1>2. color[p] \in DOMAIN Scheme /\ q # p
    BY <1>1 DEF LInv, IInv, Shapes
  <1>3. q \in PE
    BY <1>2, PartnerIsPE
  <1>4. Meet(p, q, color[p])
    BY <1>2 DEF Meet, Partner
  <1>5. IsSequence(s) /\ Len(s) \in Nat
    BY <1>3, ChannelSequences DEF LInv
  <1>6. s # <<>>
    BY DEF HasMessage
  <1>7. Received(p) = s[1] /\ Len(s) >= 1
    <2> HIDE DEF s
    <2>1. Received(p) = Head(s)
      BY DEF Received, s
    <2>2. QED
      BY <1>5, <1>6, <2>1, TailSequence
  <1>8. Link(p, q)
    BY <1>2, <1>3 DEF LInv, Links
  <1>9. color[p] \in Int /\ color[q] \in Int /\ Sent(p) \in 0 .. 5 /\ Sent(q) \in 0 .. 5
    BY <1>3, StageType DEF LInv, Types, Sent
  <1> HIDE DEF q
  <1>10. CASE Same(p, q)
    <2>1. ~ Behind(p, q)
      BY <1>9, <1>10 DEF Same, Behind
    <2>2. Len(s) = Sent(q) - Sent(p) + 1 /\ Stage(s[1].kind) = Sent(p)
      <3>1. /\ Len(s) = Sent(q) - Due(p) + 1
            /\ \A i \in 1 .. Len(s) : Stage(s[i].kind) = Due(p) + i - 1
        BY <1>8, <1>10 DEF Link
      <3>2. Due(p) = Sent(p)
        BY DEF Due
      <3> HIDE DEF s
      <3>3. QED
        BY <1>5, <1>7, <1>9, <3>1, <3>2
    <2>3. QED
      BY <1>2, <1>3, <1>7, <1>9, <1>10, <2>1, <2>2 DEF q
  <1>11. CASE ~ Same(p, q)
    <2>1. Len(s) = Pending(p, q)
      BY <1>8, <1>11 DEF Link
    <2>2. Behind(p, q)
      <3>1. SUFFICES ASSUME ~ Behind(p, q) PROVE FALSE
        OBVIOUS
      <3>2. Early(q, p)
        BY <1>7, <2>1, <3>1 DEF Pending
      <3>3. QED
        BY <1>4, <1>9, <3>1, <3>2 DEF Early, Behind
    <2>3. QED
      BY <1>2, <1>3, <1>7, <1>8, <1>11, <2>2 DEF Link, q
  <1>12. QED
    BY <1>10, <1>11

\* In the round of p, its partner q is in the same round, behind or ahead.
LEMMA Phase ==
  ASSUME LInv, NEW p \in PE, NEW q \in PE, Meet(p, q, color[p])
  PROVE  /\ Meet(q, p, color[p])
         /\ color[p] \in Int /\ color[q] \in Int
         /\ color[q] = color[p] => Same(p, q) /\ Same(q, p)
         /\ color[q] > color[p] => Behind(p, q)
         /\ color[q] < color[p] => Early(p, q)
  BY MeetSymmetric DEF Same, Behind, Early, LInv, Types

\* p gets one swap further inside a round: it takes a message, except at the
\* start of the round, and sends m.
Further(p, q, k, m) ==
  /\ q # p /\ q = Partner(p) /\ Meet(p, q, color[p])
  /\ pc' = [pc EXCEPT ![p] = k] /\ color' = color
  /\ Stage(k) = Sent(p) + 1 /\ Stage(m.kind) = Stage(k)
  /\ \/ Sent(p) = 0 /\ chan' = Send(p, m)
     \/ Sent(p) # 0 /\ Same(p, q) /\ HasMessage(p) /\ chan' = TakeAndSend(p, m)

\* A swap changes the stage of p and no one's round.
LEMMA FurtherPhases ==
  ASSUME LInv, NEW p \in PE, NEW q \in PE, NEW k, NEW m, Further(p, q, k, m)
  PROVE  /\ Sent(p)' = Sent(p) + 1
         /\ \A x \in PE : x # p => Sent(x)' = Sent(x)
         /\ \A x, y \in PE : /\ (Same(x, y)' <=> Same(x, y))
                             /\ (Behind(x, y)' <=> Behind(x, y))
                             /\ (Early(x, y)' <=> Early(x, y))
  <1>1. Sent(p)' = Sent(p) + 1 /\ \A x \in PE : x # p => Sent(x)' = Sent(x)
    BY DEF LInv, IInv, Shapes, Sent, Further
  <1>2. \A x, y \in PE : /\ (Same(x, y)' <=> Same(x, y))
                        /\ (Behind(x, y)' <=> Behind(x, y))
                        /\ (Early(x, y)' <=> Early(x, y))
    BY DEF Same, Behind, Early, Meet, Further
  <1>3. QED
    BY <1>1, <1>2

\* A swap leaves the channels of other pairs alone.
LEMMA FurtherElsewhere ==
  ASSUME LInv, NEW p \in PE, NEW q \in PE, NEW k, NEW m, Further(p, q, k, m),
         NEW x \in PE, NEW y \in PE, ~ (x = p /\ y = q), ~ (x = q /\ y = p)
  PROVE  chan'[<<x, y>>] = chan[<<x, y>>]
  <1>1. color[p] \in DOMAIN Scheme /\ Partner(p) # p
    BY DEF Further, Meet
  <1>2. CASE Sent(p) = 0 /\ chan' = Send(p, m)
    BY <1>1, <1>2, SendEffect DEF LInv, Further
  <1>3. CASE Sent(p) # 0 /\ chan' = TakeAndSend(p, m)
    BY <1>1, <1>3, TakeAndSendEffect DEF LInv, Further
  <1>4. QED
    BY <1>2, <1>3 DEF Further

\* What is sent by p and what is left of what q sent.
LEMMA FurtherSent ==
  ASSUME LInv, NEW p \in PE, NEW q \in PE, NEW k, NEW m, Further(p, q, k, m)
  PROVE  LET t == chan[<<p, q>>]
             t1 == chan'[<<p, q>>]
         IN  /\ Len(t) \in Nat /\ Len(t1) = Len(t) + 1 /\ t1[Len(t) + 1] = m
             /\ \A i \in 1 .. Len(t) : t1[i] = t[i]
  <1> DEFINE t == chan[<<p, q>>]
             t1 == chan'[<<p, q>>]
  <1>1. color[p] \in DOMAIN Scheme /\ Partner(p) # p
    BY DEF Further, Meet
  <1>2. t1 = Append(t, m)
    <2>1. CASE Sent(p) = 0 /\ chan' = Send(p, m)
      BY <1>1, <2>1, SendEffect DEF LInv, Further
    <2>2. CASE Sent(p) # 0 /\ chan' = TakeAndSend(p, m)
      BY <1>1, <2>2, TakeAndSendEffect DEF LInv, Further
    <2>3. QED
      BY <2>1, <2>2 DEF Further
  <1>3. IsSequence(t) /\ Len(t) \in Nat
    BY ChannelSequences DEF LInv
  <1>4. /\ Len(t) \in Nat /\ Len(t1) = Len(t) + 1 /\ t1[Len(t) + 1] = m
        /\ \A i \in 1 .. Len(t) : t1[i] = t[i]
    <2> HIDE DEF t
    <2>1. QED
      BY <1>2, <1>3, AppendSequence
  <1>5. QED
    BY <1>4

\* What p takes, if it is not the first swap of the round.
LEMMA FurtherTaken ==
  ASSUME LInv, NEW p \in PE, NEW q \in PE, NEW k, NEW m, Further(p, q, k, m)
  PROVE  LET s == chan[<<q, p>>]
             s1 == chan'[<<q, p>>]
         IN  /\ Len(s) \in Nat
             /\ Sent(p) = 0 => s1 = s
             /\ Sent(p) # 0 => /\ Len(s1) = Len(s) - 1
                               /\ \A i \in 1 .. Len(s1) : s1[i] = s[i + 1]
  <1> DEFINE s == chan[<<q, p>>]
             s1 == chan'[<<q, p>>]
  <1>1. color[p] \in DOMAIN Scheme /\ Partner(p) # p
    BY DEF Further, Meet
  <1>2. s1 = IF Sent(p) = 0 THEN s ELSE Tail(s)
    <2>1. CASE Sent(p) = 0 /\ chan' = Send(p, m)
      BY <1>1, <2>1, SendEffect DEF LInv, Further
    <2>2. CASE Sent(p) # 0 /\ chan' = TakeAndSend(p, m)
      BY <1>1, <2>2, TakeAndSendEffect DEF LInv, Further
    <2>3. QED
      BY <2>1, <2>2 DEF Further
  <1>3. IsSequence(s) /\ Len(s) \in Nat
    BY ChannelSequences DEF LInv
  <1>4. Sent(p) # 0 => s # <<>>
    BY DEF HasMessage, Further
  <1>5. /\ Len(s) \in Nat
        /\ Sent(p) = 0 => s1 = s
        /\ Sent(p) # 0 => /\ Len(s1) = Len(s) - 1
                          /\ \A i \in 1 .. Len(s1) : s1[i] = s[i + 1]
    <2> HIDE DEF s
    <2>1. QED
      BY <1>2, <1>3, <1>4, TailSequence
  <1>6. QED
    BY <1>5

\* A swap inside a round keeps the links.
LEMMA Advance ==
  ASSUME LInv, NEW p \in PE, NEW q \in PE, NEW k, NEW m, Further(p, q, k, m)
  PROVE  Types' /\ Links'
  <1> DEFINE s == chan[<<q, p>>]
             t == chan[<<p, q>>]
             s1 == chan'[<<q, p>>]
             t1 == chan'[<<p, q>>]
  <1>1. /\ Stage(m.kind) = Sent(p) + 1 /\ Meet(p, q, color[p]) /\ q # p /\ color' = color
        /\ Sent(p) # 0 => Same(p, q)
    BY DEF Further
  <1>2. /\ \A x \in PE : color[x] \in Int /\ Sent(x) \in 0 .. 5
        /\ Sent(p) \in 0 .. 4
    <2>1. Stage(k) \in 0 .. 5 /\ Sent(p) \in 0 .. 5 /\ Stage(k) = Sent(p) + 1
      BY StageType DEF Sent, Further
    <2>2. QED
      BY <2>1, StageType DEF LInv, Types, Sent
  <1>3. Sent(p)' = Sent(p) + 1 /\ \A x \in PE : x # p => Sent(x)' = Sent(x)
    BY FurtherPhases
  <1>4. ASSUME NEW x \in PE, NEW y \in PE, ~ (x = p /\ y = q), ~ (x = q /\ y = p)
        PROVE  chan'[<<x, y>>] = chan[<<x, y>>]
    BY <1>4, FurtherElsewhere
  <1>5. \A x, y \in PE : /\ (Same(x, y)' <=> Same(x, y))
                        /\ (Behind(x, y)' <=> Behind(x, y))
                        /\ (Early(x, y)' <=> Early(x, y))
    BY FurtherPhases
  <1>6. ASSUME NEW x \in PE, NEW y \in PE, x # y, ~ (x = p /\ y = q), ~ (x = q /\ y = p)
        PROVE  Link(x, y)'
    <2>1. Link(x, y) /\ chan'[<<y, x>>] = chan[<<y, x>>]
      BY <1>4, <1>6 DEF LInv, Links
    <2>2. /\ x = p => ~ Same(x, y) /\ ~ Behind(x, y)
          /\ y = p => ~ Same(x, y) /\ ~ Early(y, x)
      BY <1>1, <1>6, MeetSymmetric DEF Same, Behind, Early, Meet
    <2>3. /\ Same(x, y) \/ Behind(x, y) => Sent(x)' = Sent(x)
          /\ Same(x, y) \/ Early(y, x) => Sent(y)' = Sent(y)
      BY <1>3, <1>6, <2>2
    <2>4. QED
      BY <1>1, <1>5, <2>1, <2>3 DEF Link, Pending, Due, Meet
  <1>7. Link(p, q) /\ Link(q, p)
    BY <1>1 DEF LInv, Links
  <1>8. Len(s) \in Nat /\ Len(t) \in Nat
    BY FurtherSent, FurtherTaken
  <1>9. /\ Len(t1) = Len(t) + 1 /\ t1[Len(t) + 1] = m
        /\ \A i \in 1 .. Len(t) : t1[i] = t[i]
    BY FurtherSent
  <1>10. /\ Sent(p) = 0 => s1 = s
         /\ Sent(p) # 0 => /\ Len(s1) = Len(s) - 1
                           /\ \A i \in 1 .. Len(s1) : s1[i] = s[i + 1]
    BY FurtherTaken
  <1>11. Sent(p) # 0 => Sent(q) >= Sent(p)
    BY Received1 DEF Further
  <1> HIDE DEF s, t, s1, t1
  <1>12. ASSUME Same(p, q) PROVE Links'
    <2>1. Same(q, p)
      BY <1>12, MeetSymmetric DEF Same
    <2>2. /\ ~ Behind(p, q) /\ ~ Early(q, p) /\ ~ Behind(q, p) /\ ~ Early(p, q)
      BY <1>2, <1>12 DEF Same, Behind, Early
    <2>3. Link(p, q)'
      <3>1. /\ Len(s) = Sent(q) - Due(p) + 1
            /\ \A i \in 1 .. Len(s) : Stage(s[i].kind) = Due(p) + i - 1
            /\ Sent(q) <= Sent(p) + 1
            /\ \A r \in DOMAIN Scheme : Meet(p, q, r) /\ color[p] > r => color[q] >= r
        BY <1>7, <1>12 DEF Link, s
      <3>2. Sent(p)' <= Sent(q) + 1 /\ Sent(q) <= Sent(p)' + 1
        BY <1>2, <1>3, <1>11, <3>1
      <3>3. Len(s1) = Sent(q) - Sent(p)' + 1
        <4>1. CASE Sent(p) = 0
          BY <1>2, <1>3, <1>10, <3>1, <4>1 DEF Due
        <4>2. CASE Sent(p) # 0
          <5>1. Due(p) = Sent(p)
            BY <4>2 DEF Due
          <5>2. Len(s1) = Len(s) - 1 /\ Len(s) = Sent(q) - Sent(p) + 1
            BY <1>10, <3>1, <4>2, <5>1
          <5>3. QED
            BY <1>2, <1>3, <5>2
        <4>3. QED
          BY <4>1, <4>2
      <3>4. \A i \in 1 .. Len(s1) : Stage(s1[i].kind) = Sent(p)' + i - 1
        BY <1>2, <1>3, <1>8, <1>10, <3>1 DEF Due
      <3>5. Due(p)' = Sent(p)'
        BY <1>2, <1>3 DEF Due
      <3>6. Sent(q)' = Sent(q)
        BY <1>1, <1>3
      <3>7. QED
        BY <1>1, <1>5, <1>12, <2>2, <3>1, <3>2, <3>3, <3>4, <3>5, <3>6 DEF Link, Meet, s1
    <2>4. Link(q, p)'
      <3>1. /\ Len(t) = Sent(p) - Due(q) + 1
            /\ \A i \in 1 .. Len(t) : Stage(t[i].kind) = Due(q) + i - 1
            /\ Sent(q) <= Sent(p) + 1 /\ Sent(p) <= Sent(q) + 1
            /\ \A r \in DOMAIN Scheme : Meet(q, p, r) /\ color[q] > r => color[p] >= r
        BY <1>7, <2>1 DEF Link, t
      <3>2. Sent(p)' <= Sent(q) + 1 /\ Sent(q) <= Sent(p)' + 1
        BY <1>2, <1>3, <1>11, <3>1
      <3>3. Len(t1) = Sent(p)' - Due(q) + 1
        BY <1>2, <1>3, <1>9, <3>1 DEF Due
      <3>4. ASSUME NEW i \in 1 .. Len(t1)
            PROVE  Stage(t1[i].kind) = Due(q) + i - 1
        <4>1. CASE i = Len(t) + 1
          BY <1>1, <1>2, <1>3, <1>9, <3>3, <4>1 DEF Due
        <4>2. CASE i # Len(t) + 1
          BY <1>8, <1>9, <3>1, <4>2
        <4>3. QED
          BY <4>1, <4>2
      <3>5. Due(q)' = Due(q) /\ Sent(q)' = Sent(q)
        BY <1>1, <1>3 DEF Due
      <3>6. QED
        BY <1>1, <1>5, <2>1, <2>2, <3>1, <3>2, <3>3, <3>4, <3>5 DEF Link, Meet, t1
    <2>5. ASSUME NEW x \in PE, NEW y \in PE, x # y
          PROVE  Link(x, y)'
      <3>1. CASE x = p /\ y = q
        BY <2>3, <3>1
      <3>2. CASE x = q /\ y = p
        BY <2>4, <3>2
      <3>3. CASE ~ (x = p /\ y = q) /\ ~ (x = q /\ y = p)
        BY <1>6, <2>5, <3>3
      <3>4. QED
        BY <3>1, <3>2, <3>3
    <2>6. QED
      BY <2>5 DEF Links
  <1>13. ASSUME ~ Same(p, q) PROVE Links'
    <2>1. Sent(p) = 0 /\ ~ Same(q, p)
      BY <1>1, <1>13, MeetSymmetric DEF Same
    <2>2. ~ Behind(p, q)
      BY <1>7, <2>1 DEF Link
    <2>3. Early(p, q) /\ ~ Early(q, p)
      BY <1>1, <1>13, <2>2, Phase DEF Early
    <2>4. Link(p, q)'
      <3>1. Pending(p, q) = 0 /\ Pending(p, q)' = 0 /\ s1 = s
        BY <1>5, <1>10, <2>1, <2>2, <2>3 DEF Pending
      <3>2. QED
        BY <1>1, <1>5, <1>7, <1>13, <2>2, <2>3, <3>1 DEF Link, Meet, s, s1
    <2>5. Link(q, p)'
      <3>1. Pending(q, p)' = Pending(q, p) + 1
        BY <1>3, <1>5, <2>1, <2>3 DEF Pending
      <3>2. Len(t) = Pending(q, p) /\ (Behind(q, p) => Len(t) >= 1)
        BY <1>7, <2>1, <2>3 DEF Link, Pending, t
      <3>3. Behind(q, p) => t1[1] = t[1]
        BY <1>8, <1>9, <3>2
      <3>4. Len(t1) = Pending(q, p)' /\ Stage(t1[Len(t1)].kind) = 1
        BY <1>1, <1>9, <2>1, <3>1, <3>2
      <3>5. Sent(p)' = 1 /\ Sent(q)' = Sent(q)
        BY <1>1, <1>3, <2>1
      <3>6. QED
        BY <1>1, <1>5, <1>7, <2>1, <3>3, <3>4, <3>5 DEF Link, Meet, t, t1
    <2>6. ASSUME NEW x \in PE, NEW y \in PE, x # y
          PROVE  Link(x, y)'
      <3>1. CASE x = p /\ y = q
        BY <2>4, <3>1
      <3>2. CASE x = q /\ y = p
        BY <2>5, <3>2
      <3>3. CASE ~ (x = p /\ y = q) /\ ~ (x = q /\ y = p)
        BY <1>6, <2>6, <3>3
      <3>4. QED
        BY <3>1, <3>2, <3>3
    <2>7. QED
      BY <2>6 DEF Links
  <1>14. Types'
    <2>1. k \in Kinds /\ k # "done"
      BY <1>1, <1>2 DEF Stage, Kinds, Further
    <2>2. QED
      BY <2>1 DEF LInv, Types, Further
  <1>15. QED
    BY <1>12, <1>13, <1>14

\* The end of a round.  A process that leaves a round its partner is still in
\* must have left one message behind, which is the last one of the round.
Leaves(p) ==
  /\ color[p] \in DOMAIN Scheme /\ NextRound(p)
  /\ \/ Partner(p) = p /\ chan' = chan /\ pc[p] = "round"
     \/ /\ Partner(p) # p /\ HasMessage(p) /\ Sent(p) # 0 /\ chan' = Take(p)
        /\ Same(p, Partner(p)) => Sent(p) \in {4, 5} /\ Sent(Partner(p)) = Sent(p)

\* What a process that leaves a round does to rounds, partners and channels.
LEMMA LeavesEffect ==
  ASSUME LInv, NEW p \in PE, Leaves(p)
  PROVE  /\ color'[p] = color[p] + 1 /\ Sent(p)' = 0
         /\ \A x \in PE : x # p => color'[x] = color[x] /\ Sent(x)' = Sent(x)
         /\ \A y \in PE : y # p =>
              ~ Early(p, y) /\ (Same(p, y) \/ Behind(p, y) <=> y = Partner(p))
         /\ \A x, y \in PE : y # p => chan'[<<x, y>>] = chan[<<x, y>>]
         /\ \A y \in PE : y # p =>
              chan'[<<y, p>>] = IF Same(p, y) \/ Behind(p, y)
                               THEN Tail(chan[<<y, p>>]) ELSE chan[<<y, p>>]
  <1>1. \A x \in PE : color[x] \in Int
    BY DEF LInv, Types
  <1>2. /\ color'[p] = color[p] + 1 /\ Sent(p)' = 0
        /\ \A x \in PE : x # p => color'[x] = color[x] /\ Sent(x)' = Sent(x)
    BY DEF LInv, IInv, Shapes, Sent, NextRound, Stage, Leaves
  <1>3. \A y \in PE : y # p => ~ Early(p, y) /\ (Same(p, y) \/ Behind(p, y) <=> y = Partner(p))
    <2> SUFFICES ASSUME NEW y \in PE, y # p
                 PROVE  ~ Early(p, y) /\ (Same(p, y) \/ Behind(p, y) <=> y = Partner(p))
      OBVIOUS
    <2>1. CASE y # Partner(p)
      BY <2>1 DEF Leaves, Same, Behind, Early, Meet, Partner
    <2>2. CASE y = Partner(p)
      <3>1. Same(p, y) \/ Behind(p, y)
        BY <2>2, Received1 DEF Leaves
      <3>2. QED
        BY <1>1, <2>2, <3>1 DEF Same, Behind, Early
    <2>3. QED
      BY <2>1, <2>2
  <1>4. /\ \A x, y \in PE : y # p => chan'[<<x, y>>] = chan[<<x, y>>]
        /\ \A y \in PE : y # p =>
             chan'[<<y, p>>] = IF Same(p, y) \/ Behind(p, y)
                              THEN Tail(chan[<<y, p>>]) ELSE chan[<<y, p>>]
    <2>1. CASE Partner(p) = p
      BY <1>3, <2>1 DEF Leaves
    <2>2. CASE Partner(p) # p
      BY <1>3, <2>2, TakeEffect DEF LInv, Leaves
    <2>3. QED
      BY <2>1, <2>2
  <1>5. QED
    BY <1>2, <1>3, <1>4

\* The end of a round keeps the links.
LEMMA Leave ==
  ASSUME LInv, NEW p \in PE, Leaves(p)
  PROVE  Types' /\ Links'
  <1> DEFINE c == color[p]
  <1>1. /\ \A x \in PE : color[x] \in Int /\ Sent(x) \in 0 .. 5
        /\ c \in 1 .. Len(Scheme) /\ \A r \in DOMAIN Scheme : r \in Int
    BY StageType, SchemeAssumption DEF LInv, Types, Sent, Leaves
  <1>2. /\ color'[p] = c + 1 /\ Sent(p)' = 0
        /\ \A x \in PE : x # p => color'[x] = color[x] /\ Sent(x)' = Sent(x)
    BY LeavesEffect
  <1>3. Types'
    <2>1. c + 1 \in 1 .. (Len(Scheme) + 1)
      BY <1>1
    <2>2. QED
      BY <2>1 DEF LInv, Types, NextRound, Kinds, Leaves
  <1>4. \A y \in PE : y # p => ~ Early(p, y) /\ (Same(p, y) \/ Behind(p, y) <=> y = Partner(p))
    BY LeavesEffect
  <1>5. /\ \A x, y \in PE : y # p => chan'[<<x, y>>] = chan[<<x, y>>]
        /\ \A y \in PE : y # p =>
             chan'[<<y, p>>] = IF Same(p, y) \/ Behind(p, y)
                              THEN Tail(chan[<<y, p>>]) ELSE chan[<<y, p>>]
    BY LeavesEffect
  <1>6. ASSUME NEW x \in PE, NEW y \in PE, x # y, x # p, y # p
        PROVE  Link(x, y)'
    <2>1. Link(x, y) /\ chan'[<<y, x>>] = chan[<<y, x>>]
      BY <1>5, <1>6 DEF LInv, Links
    <2>2. QED
      BY <1>2, <1>6, <2>1 DEF Link, Pending, Due, Meet, Same, Behind, Early
  <1>7. ASSUME NEW y \in PE, y # p
        PROVE  Link(p, y)' /\ Link(y, p)'
    <2> DEFINE s == chan[<<y, p>>]
               t == chan[<<p, y>>]
               s1 == chan'[<<y, p>>]
               t1 == chan'[<<p, y>>]
    <2>1. Link(p, y) /\ Link(y, p)
      BY <1>7 DEF LInv, Links
    <2>2. IsSequence(s) /\ Len(s) \in Nat /\ IsSequence(t) /\ Len(t) \in Nat /\ t1 = t
      BY <1>5, <1>7, ChannelSequences DEF LInv
    <2>3. Same(p, y) \/ Behind(p, y) =>
            /\ Len(s) >= 1 /\ Len(s1) = Len(s) - 1
            /\ \A i \in 1 .. Len(s1) : s1[i] = s[i + 1]
      <3> SUFFICES ASSUME Same(p, y) \/ Behind(p, y)
                   PROVE  /\ Len(s) >= 1 /\ Len(s1) = Len(s) - 1
                          /\ \A i \in 1 .. Len(s1) : s1[i] = s[i + 1]
        OBVIOUS
      <3>1. s # <<>> /\ s1 = Tail(s)
        BY <1>4, <1>5, <1>7 DEF HasMessage, Leaves
      <3> HIDE DEF s, s1
      <3>2. QED
        BY <2>2, <3>1, TailSequence
    <2>4. ~ (Same(p, y) \/ Behind(p, y)) => s1 = s
      BY <1>5, <1>7
    <2>5. \A r : Meet(p, y, r) <=> Meet(y, p, r)
      BY <1>7, MeetSymmetric
    <2>6. \A r \in DOMAIN Scheme : Meet(y, p, r) /\ color[y] > r => c >= r
      BY <2>1 DEF Link
    <2>7. /\ \A r \in DOMAIN Scheme : Meet(p, y, r) /\ c + 1 > r => color[y] >= r
          /\ \A r \in DOMAIN Scheme : Meet(y, p, r) /\ color[y] > r => c + 1 >= r
      <3>1. ASSUME NEW r \in DOMAIN Scheme, Meet(p, y, r), c + 1 > r
            PROVE  color[y] >= r
        <4>1. CASE r = c
          <5>1. y = Partner(p)
            BY <3>1, <4>1 DEF Meet, Partner
          <5>2. QED
            BY <1>1, <1>4, <1>7, <4>1, <5>1 DEF Same, Behind
        <4>2. CASE r # c
          <5>1. c > r
            BY <1>1, <3>1, <4>2
          <5>2. QED
            BY <2>1, <3>1, <5>1 DEF Link
        <4>3. QED
          BY <4>1, <4>2
      <3>2. QED
        BY <1>1, <2>6, <3>1
    <2> HIDE DEF s, t, s1, t1
    <2>8. CASE Same(p, y)
      <3>1. Same(y, p) /\ ~ Behind(p, y) /\ ~ Early(y, p) /\ color[y] = c
        BY <1>1, <2>5, <2>8 DEF Same, Behind, Early
      <3>2. Sent(p) \in {4, 5} /\ Sent(y) = Sent(p)
        BY <1>4, <1>7, <2>8 DEF Leaves
      <3>3. /\ Len(s) = Sent(y) - Due(p) + 1
            /\ Len(t) = Sent(p) - Due(y) + 1
            /\ \A i \in 1 .. Len(t) : Stage(t[i].kind) = Due(y) + i - 1
        BY <2>1, <2>8, <3>1 DEF Link, s, t
      <3>4. Due(p) = Sent(p) /\ Due(y) = Sent(y)
        BY <3>2 DEF Due
      <3>5. Len(s1) = 0 /\ Len(t1) = 1 /\ Stage(t1[1].kind) = Sent(y)
        BY <2>2, <2>3, <2>8, <3>2, <3>3, <3>4
      <3>6. /\ ~ Same(p, y)' /\ ~ Behind(p, y)' /\ ~ Early(y, p)'
            /\ ~ Same(y, p)' /\ Behind(y, p)'
        BY <1>1, <1>2, <1>7, <2>8, <3>1 DEF Same, Behind, Early, Meet
      <3>7. Pending(p, y)' = 0 /\ Pending(y, p)' = 1
        BY <1>2, <3>6 DEF Pending
      <3>8. Link(p, y)'
        BY <1>2, <1>7, <2>7, <3>5, <3>6, <3>7 DEF Link, Meet, s1
      <3>9. Link(y, p)'
        BY <1>2, <1>7, <2>7, <3>2, <3>5, <3>6, <3>7 DEF Link, Meet, t1
      <3>10. QED
        BY <3>8, <3>9
    <2>9. CASE ~ Same(p, y)
      <3>1. ~ Same(y, p) /\ ~ Early(p, y) /\ (Behind(p, y) => ~ Behind(y, p))
        BY <1>1, <1>4, <1>7, <2>5, <2>9 DEF Same, Behind
      <3>2. Len(s) = Pending(p, y) /\ Len(t) = Pending(y, p)
        BY <2>1, <2>9, <3>1 DEF Link, s, t
      <3>3. Len(s1) = IF Early(y, p) THEN Sent(y) ELSE 0
        BY <1>1, <2>2, <2>3, <2>4, <2>9, <3>2 DEF Pending
      <3>4. Early(y, p) /\ Sent(y) = 1 => Stage(s1[1].kind) = 1
        <4> SUFFICES ASSUME Early(y, p), Sent(y) = 1 PROVE Stage(s1[1].kind) = 1
          OBVIOUS
        <4>1. Len(s1) = 1 /\ Stage(s[Len(s)].kind) = 1
          BY <2>1, <3>3 DEF Link, s
        <4>2. s1[1] = s[Len(s)]
          <5>1. CASE Behind(p, y)
            <6>1. Len(s) = 2 /\ s1[1] = s[1 + 1]
              BY <2>2, <2>3, <4>1, <5>1
            <6>2. QED
              BY <6>1
          <5>2. CASE ~ Behind(p, y)
            BY <2>4, <2>9, <4>1, <5>2
          <5>3. QED
            BY <5>1, <5>2
        <4>3. QED
          BY <4>1, <4>2
      <3>5. Early(y, p) => Sent(y) \in {0, 1}
        BY <2>1 DEF Link
      <3>6. ~ Behind(p, y)'
        BY <1>1, <1>2, <1>7, <2>5, <2>6 DEF Behind, Meet
      <3>7. Same(p, y)' <=> Early(y, p) /\ color[y] = c + 1
        BY <1>1, <1>2, <1>7, <2>5 DEF Same, Early, Meet
      <3>8. Early(y, p)' <=> Early(y, p) /\ color[y] # c + 1
        BY <1>1, <1>2, <1>7 DEF Early, Meet
      <3>9. Same(y, p)' <=> Same(p, y)'
        BY <1>2, <1>7, <2>5 DEF Same, Meet
      <3>10. Behind(y, p)' <=> Behind(y, p)
        <4>1. color[y] = c => ~ Meet(y, p, c)
          BY <2>5, <2>9 DEF Same
        <4>2. QED
          BY <1>1, <1>2, <1>7, <4>1 DEF Behind, Meet
      <3>11. Due(p)' = 1 /\ Sent(y)' = Sent(y) /\ Due(y)' = Due(y)
        BY <1>2, <1>7 DEF Due
      <3>12. Link(p, y)'
        <4>1. CASE Same(p, y)'
          <5>1. Early(y, p) /\ ~ Early(y, p)'
            BY <3>7, <3>8, <4>1
          <5>2. Sent(y) \in {0, 1} /\ Len(s1) = Sent(y)
            BY <3>3, <3>5, <5>1
          <5>3. \A i \in 1 .. Len(s1) : Stage(s1[i].kind) = i
            BY <3>4, <5>1, <5>2
          <5>4. QED
            BY <1>2, <1>7, <2>7, <3>6, <3>11, <4>1, <5>1, <5>2, <5>3 DEF Link, Meet, s1
        <4>2. CASE ~ Same(p, y)'
          <5>1. Len(s1) = Pending(p, y)'
            BY <1>1, <3>3, <3>6, <3>7, <3>8, <3>11, <4>2 DEF Pending
          <5>2. Early(y, p)' => /\ Sent(y)' \in {0, 1}
                                /\ Sent(y)' = 1 => Stage(s1[Len(s1)].kind) = 1
            BY <3>3, <3>4, <3>5, <3>8, <3>11
          <5>3. QED
            BY <1>2, <1>7, <2>7, <3>6, <4>2, <5>1, <5>2 DEF Link, Meet, s1
        <4>3. QED
          BY <4>1, <4>2
      <3>13. Link(y, p)'
        <4>1. CASE Same(y, p)'
          <5>1. Early(y, p) /\ ~ Behind(y, p)
            BY <1>1, <3>7, <3>9, <4>1 DEF Behind
          <5>2. Sent(y) \in {0, 1} /\ Len(t1) = 0
            BY <2>2, <3>1, <3>2, <3>5, <5>1 DEF Pending
          <5>3. Due(y) = 1
            BY <5>2 DEF Due
          <5>4. ~ Early(p, y)'
            BY <1>1, <1>2, <1>7, <4>1 DEF Same, Early
          <5>5. QED
            BY <1>2, <1>7, <2>7, <3>10, <3>11, <4>1, <5>1, <5>2, <5>3, <5>4 DEF Link, Meet, t1
        <4>2. CASE ~ Same(y, p)'
          <5>1. Len(t1) = Pending(y, p)'
            BY <1>2, <2>2, <3>1, <3>2, <3>10 DEF Pending
          <5>2. Behind(y, p)' => Sent(y)' \in {4, 5} /\ Stage(t1[1].kind) = Sent(y)'
            BY <2>1, <2>2, <3>10, <3>11 DEF Link, t
          <5>3. QED
            BY <1>2, <1>7, <2>7, <4>2, <5>1, <5>2 DEF Link, Meet, t1
        <4>3. QED
          BY <4>1, <4>2
      <3>14. QED
        BY <3>12, <3>13
    <2>10. QED
      BY <2>8, <2>9
  <1>8. Links'
    BY <1>6, <1>7 DEF Links
  <1>9. QED
    BY <1>3, <1>8

(***************************************************************************)
(* The owners.  Every node has exactly one owner at any time, no block     *)
(* grows above its capacity, and no untagged message is ever mistaken for  *)
(* another.                                                                *)
(*                                                                         *)
(* The two processes of a pair decide separately, each from its own data.  *)
(* The invariant says that while both are in the round, what one of them   *)
(* has of the other is what the other has (Agree); the messages on their   *)
(* way are counted by the links above.                                     *)
(***************************************************************************)

\* The two-way refinement of p has kept its promise: if it reports a gain, both
\* blocks fit after the moves it proposes.
Fits(p) ==
  LET T == fm[p].toSecond
      S == halo[p].nodes
      shift == WeightOf(NodeWeight, T \ S) - WeightOf(NodeWeight, (Region(p) \cap S) \ T)
  IN  /\ WeightOf(NodeWeight, owned[p]) - shift <= Capacity
      /\ otherWeight[p] + shift <= Capacity

Result(p) ==
  Sent(p) >= 4 => /\ fm[p].gain \in Int /\ fm[p].toSecond \subseteq Region(p)
                  /\ fm[p].gain > 0 => Fits(p)

\* A message of this round from q says what q has.
True(m, q) ==
  /\ m.kind = "sizes" => m.weight = WeightOf(NodeWeight, owned[q])
  /\ m.kind = "halo" => m.nodes = iface[q].nodes /\ m.cand = iface[q].cand
  /\ m.kind = "gain" => m.gain = fm[q].gain
  /\ m.kind = "result" => m.toSecond = fm[q].toSecond

\* What p has of its partner q is what q has.
Known(p, q) ==
  /\ Sent(p) >= 3 => otherWeight[p] = WeightOf(NodeWeight, owned[q])
  /\ Sent(p) >= 4 => halo[p].nodes = iface[q].nodes /\ halo[p].cand = iface[q].cand
  /\ Sent(p) = 5 => /\ otherGain[p] = fm[q].gain
                    /\ fm[p].gain > 0 \/ fm[q].gain > 0

\* A process left behind in a round that ended without a result will see that.
NoResultComes(p, q) ==
  Sent(p) = 4 => fm[p].gain <= 0 /\ chan[<<q, p>>][1].gain <= 0

Agree(p, q) ==
  /\ Same(p, q) => /\ Known(p, q)
                   /\ \A i \in 1 .. Len(chan[<<q, p>>]) : True(chan[<<q, p>>][i], q)
  /\ Behind(p, q) => NoResultComes(p, q)

Results == \A p \in PE : Result(p)

Agreement == \A p, q \in PE : p # q => Agree(p, q)

Domains == DOMAIN fm = PE /\ DOMAIN otherWeight = PE /\ DOMAIN otherGain = PE

PInv == LInv /\ Domains /\ Results /\ Agreement /\ OneOwner /\ OverloadNeverGrows

\* The stage tells the message.
LEMMA StageKinds ==
  \A k : /\ (Stage(k) = 1 <=> k = "border") /\ (Stage(k) = 2 <=> k = "sizes")
         /\ (Stage(k) = 3 <=> k = "halo") /\ (Stage(k) = 4 <=> k = "gain")
         /\ (Stage(k) = 5 <=> k = "result")
  BY DEF Stage

\* ----- The two processes of a pair agree.

\* p gets further inside a round and changes its own data only: the border
\* region before it sends the halo, the result before it sends the gain.
LEMMA AdvanceAgree ==
  ASSUME LInv, Agreement,
         NEW p \in PE, NEW q \in PE, NEW k, NEW m, Further(p, q, k, m),
         owned' = owned,
         \A x \in PE : x # p =>
           /\ iface'[x] = iface[x] /\ halo'[x] = halo[x] /\ fm'[x] = fm[x]
           /\ otherWeight'[x] = otherWeight[x] /\ otherGain'[x] = otherGain[x],
         Sent(p) >= 2 => iface'[p] = iface[p],
         Sent(p) >= 4 => fm'[p] = fm[p],
         m.kind = "sizes" => m.weight = WeightOf(NodeWeight, owned[p]),
         m.kind = "halo" => m.nodes = iface'[p].nodes /\ m.cand = iface'[p].cand,
         m.kind = "gain" => m.gain = fm'[p].gain,
         m.kind = "result" => m.toSecond = fm'[p].toSecond,
         Same(p, q) => Known(p, q)'
  PROVE  Agreement'
  <1> DEFINE s == chan[<<q, p>>]
             t == chan[<<p, q>>]
             s1 == chan'[<<q, p>>]
             t1 == chan'[<<p, q>>]
  <1>1. /\ Meet(p, q, color[p]) /\ q # p /\ color' = color /\ Stage(m.kind) = Sent(p) + 1
        /\ Sent(p) # 0 => Same(p, q)
    BY DEF Further
  <1>2. \A x \in PE : color[x] \in Int /\ Sent(x) \in 0 .. 5
    BY StageType DEF LInv, Types, Sent
  <1>3. Sent(p)' = Sent(p) + 1 /\ \A x \in PE : x # p => Sent(x)' = Sent(x)
    BY FurtherPhases
  <1>4. ASSUME NEW x \in PE, NEW y \in PE, ~ (x = p /\ y = q), ~ (x = q /\ y = p)
        PROVE  chan'[<<x, y>>] = chan[<<x, y>>]
    BY <1>4, FurtherElsewhere
  <1>5. \A x, y \in PE : (Same(x, y)' <=> Same(x, y)) /\ (Behind(x, y)' <=> Behind(x, y))
    BY FurtherPhases
  <1>6. ASSUME NEW x \in PE, NEW y \in PE, x # y, ~ (x = p /\ y = q), ~ (x = q /\ y = p)
        PROVE  Agree(x, y)'
    <2>1. Agree(x, y) /\ chan'[<<y, x>>] = chan[<<y, x>>]
      BY <1>4, <1>6 DEF Agreement
    <2>2. /\ x = p => ~ Same(x, y) /\ ~ Behind(x, y)
          /\ y = p => ~ Same(x, y)
      BY <1>1, <1>6, MeetSymmetric DEF Same, Behind, Meet
    <2>3. Same(x, y) => Agree(x, y)'
      <3> SUFFICES ASSUME Same(x, y) PROVE Agree(x, y)'
        OBVIOUS
      <3>1. x # p /\ y # p /\ Same(x, y)' /\ ~ Behind(x, y)'
        BY <1>2, <1>5, <1>6, <2>2 DEF Same, Behind
      <3>2. Known(x, y) => Known(x, y)'
        BY <1>3, <3>1 DEF Known
      <3>3. \A i : True(chan[<<y, x>>][i], y) => True(chan[<<y, x>>][i], y)'
        BY <2>1, <3>1 DEF True
      <3>4. QED
        BY <2>1, <3>1, <3>2, <3>3 DEF Agree, True
    <2>4. ~ Same(x, y) => Agree(x, y)'
      <3> SUFFICES ASSUME ~ Same(x, y) PROVE Agree(x, y)'
        OBVIOUS
      <3>1. ~ Same(x, y)' /\ (Behind(x, y)' <=> Behind(x, y))
        BY <1>5, <1>6
      <3>2. Behind(x, y) => x # p
        BY <2>2
      <3>3. QED
        BY <1>3, <2>1, <3>1, <3>2 DEF Agree, NoResultComes
    <2>5. QED
      BY <2>3, <2>4
  <1>7. Agree(p, q) /\ Agree(q, p) /\ Link(p, q) /\ Link(q, p)
    BY <1>1 DEF Agreement, LInv, Links
  <1>8. /\ Len(s) \in Nat
        /\ \A i \in 1 .. Len(s1) : \E j \in 1 .. Len(s) : s1[i] = s[j]
    <2>1. /\ Len(s) \in Nat
          /\ Sent(p) = 0 => s1 = s
          /\ Sent(p) # 0 => /\ Len(s1) = Len(s) - 1
                            /\ \A i \in 1 .. Len(s1) : s1[i] = s[i + 1]
      BY FurtherTaken
    <2> HIDE DEF s, s1
    <2>2. CASE Sent(p) = 0
      BY <2>1, <2>2
    <2>3. CASE Sent(p) # 0
      <3>1. \A i \in 1 .. Len(s1) : i + 1 \in 1 .. Len(s) /\ s1[i] = s[i + 1]
        BY <2>1, <2>3
      <3>2. QED
        BY <2>1, <3>1
    <2>4. QED
      BY <2>2, <2>3
  <1>9. /\ Len(t) \in Nat /\ Len(t1) = Len(t) + 1 /\ t1[Len(t) + 1] = m
        /\ \A i \in 1 .. Len(t) : t1[i] = t[i]
    BY FurtherSent
  <1>10. Agree(p, q)'
    <2>1. ~ Behind(p, q)
      BY <1>1, <1>2, <1>7 DEF Link, Same, Behind
    <2>2. Same(p, q) => \A i \in 1 .. Len(s1) : True(chan[<<q, p>>][i], q)'
      <3> SUFFICES ASSUME Same(p, q), NEW i \in 1 .. Len(s1) PROVE True(chan[<<q, p>>][i], q)'
        OBVIOUS
      <3>1. PICK j \in 1 .. Len(s) : s1[i] = s[j]
        BY <1>8
      <3>2. True(s[j], q)
        BY <1>7 DEF Agree
      <3>3. /\ owned'[q] = owned[q] /\ iface'[q] = iface[q] /\ fm'[q] = fm[q]
        BY <1>1
      <3>4. QED
        BY <3>1, <3>2, <3>3 DEF True
    <2>3. QED
      BY <1>1, <1>5, <2>1, <2>2 DEF Agree
  <1>11. Agree(q, p)'
    <2>1. CASE Same(p, q)
      <3>1. Same(q, p) /\ ~ Behind(q, p)
        BY <1>1, <1>2, <2>1, MeetSymmetric DEF Same, Behind
      <3>2. /\ Sent(q) <= Sent(p) + 1
            /\ Len(t) = Sent(p) - Due(q) + 1
            /\ \A i \in 1 .. Len(t) : Stage(t[i].kind) = Due(q) + i - 1
        BY <1>7, <2>1, <3>1 DEF Link
      <3>3. Known(q, p)'
        <4>1. Known(q, p)
          BY <1>7, <3>1 DEF Agree
        <4>2. /\ Sent(q) >= 4 => iface'[p] = iface[p]
              /\ Sent(q) = 5 => fm'[p] = fm[p]
          BY <1>2, <3>2
        <4>3. Sent(q)' = Sent(q)
          BY <1>1, <1>3
        <4>4. QED
          BY <1>1, <1>2, <4>1, <4>2, <4>3 DEF Known
      <3>4. ASSUME NEW i \in 1 .. Len(t1) PROVE True(chan[<<p, q>>][i], p)'
        <4>1. CASE i = Len(t) + 1
          <5>1. t1[i] = m
            BY <1>9, <4>1
          <5>2. QED
            BY <5>1 DEF True
        <4>2. CASE i # Len(t) + 1
          <5>1. i \in 1 .. Len(t) /\ t1[i] = t[i]
            BY <1>9, <4>2
          <5>2. True(t[i], p)
            BY <1>7, <3>1, <5>1 DEF Agree
          <5>3. Stage(t[i].kind) <= Sent(p)
            <6>1. Due(q) \in Int
              BY <1>2 DEF Due
            <6>2. Stage(t[i].kind) = Due(q) + i - 1 /\ i <= Sent(p) - Due(q) + 1
              BY <1>9, <3>2, <5>1
            <6> HIDE DEF t
            <6>3. QED
              BY <1>2, <5>1, <6>1, <6>2
          <5>4. /\ t[i].kind = "halo" => iface'[p] = iface[p]
                /\ t[i].kind = "gain" => fm'[p] = fm[p]
                /\ t[i].kind = "result" => fm'[p] = fm[p]
            BY <1>2, <5>3, StageKinds
          <5>5. QED
            BY <5>1, <5>2, <5>4 DEF True
        <4>3. QED
          BY <4>1, <4>2
      <3>5. QED
        BY <1>5, <3>1, <3>3, <3>4 DEF Agree
    <2>2. CASE ~ Same(p, q)
      <3>1. ~ Same(q, p)
        BY <1>1, <2>2, MeetSymmetric DEF Same
      <3>2. Behind(q, p) => Len(t) >= 1
        <4>1. Len(t) = Pending(q, p)
          BY <1>7, <3>1 DEF Link
        <4>2. QED
          BY <1>2, <4>1 DEF Pending
      <3>3. Behind(q, p) => t1[1] = t[1]
        BY <1>9, <3>2
      <3>4. Sent(q)' = Sent(q) /\ fm'[q] = fm[q]
        BY <1>1, <1>3
      <3>5. Behind(q, p) => NoResultComes(q, p)'
        BY <1>7, <3>3, <3>4 DEF Agree, NoResultComes
      <3>6. QED
        BY <1>5, <3>1, <3>5 DEF Agree
    <2>3. QED
      BY <2>1, <2>2
  <1>12. ASSUME NEW x \in PE, NEW y \in PE, x # y
         PROVE  Agree(x, y)'
    <2>1. CASE x = p /\ y = q
      BY <1>10, <2>1
    <2>2. CASE x = q /\ y = p
      BY <1>11, <2>2
    <2>3. CASE ~ (x = p /\ y = q) /\ ~ (x = q /\ y = p)
      BY <1>6, <1>12, <2>3
    <2>4. QED
      BY <2>1, <2>2, <2>3
  <1>13. QED
    BY <1>12 DEF Agreement

\* p leaves a round.  If its partner is still in it, and has no result, it will
\* see that there is none.
LEMMA LeaveAgree ==
  ASSUME LInv, Domains, Agreement, NEW p \in PE, Leaves(p),
         \A x \in PE : x # p => owned'[x] = owned[x],
         \A q \in PE : Same(p, q) /\ Sent(p) = 4 => fm[p].gain <= 0 /\ fm[q].gain <= 0
  PROVE  Agreement'
  <1>1. \A x \in PE : color[x] \in Int /\ Sent(x) \in 0 .. 5
    BY StageType DEF LInv, Types, Sent
  <1>2. /\ color'[p] = color[p] + 1 /\ Sent(p)' = 0
        /\ \A x \in PE : x # p => color'[x] = color[x] /\ Sent(x)' = Sent(x)
    BY LeavesEffect
  <1>3. \A x, y \in PE : y # p => chan'[<<x, y>>] = chan[<<x, y>>]
    BY LeavesEffect
  <1>4. \A x \in PE : x # p =>
          /\ owned'[x] = owned[x] /\ iface'[x] = iface[x] /\ halo'[x] = halo[x]
          /\ fm'[x] = fm[x]
          /\ otherWeight'[x] = otherWeight[x] /\ otherGain'[x] = otherGain[x]
    BY DEF Leaves, NextRound, Domains, LInv, IInv, Shapes
  <1>5. Links'
    BY Leave
  <1>6. ASSUME NEW x \in PE, NEW y \in PE, x # y, x # p, y # p
        PROVE  Agree(x, y)'
    <2>1. Agree(x, y) /\ chan'[<<y, x>>] = chan[<<y, x>>]
      BY <1>3, <1>6 DEF Agreement
    <2>2. (Same(x, y)' <=> Same(x, y)) /\ (Behind(x, y)' <=> Behind(x, y))
      BY <1>2, <1>6 DEF Same, Behind, Meet
    <2>3. Known(x, y) => Known(x, y)'
      BY <1>2, <1>4, <1>6 DEF Known
    <2>4. NoResultComes(x, y) => NoResultComes(x, y)'
      BY <1>2, <1>4, <1>6, <2>1 DEF NoResultComes
    <2>5. \A i : True(chan[<<y, x>>][i], y) => True(chan[<<y, x>>][i], y)'
      BY <1>4, <1>6, <2>1 DEF True
    <2>6. QED
      BY <2>1, <2>2, <2>3, <2>4, <2>5 DEF Agree
  <1>7. ASSUME NEW y \in PE, y # p
        PROVE  Agree(p, y)'
    <2>1. Link(p, y)'
      BY <1>5, <1>7 DEF Links
    <2>2. ~ Behind(p, y)' /\ Known(p, y)'
      BY <1>2, <2>1 DEF Link, Known
    <2>3. ASSUME Same(p, y)', NEW i \in 1 .. Len(chan'[<<y, p>>])
          PROVE  True(chan[<<y, p>>][i], y)'
      <3>1. /\ Sent(y)' <= 1
            /\ Len(chan'[<<y, p>>]) = Sent(y)'
            /\ Stage(chan'[<<y, p>>][i].kind) = i
        <4>1. Due(p)' = 1
          BY <1>2 DEF Due
        <4>2. Sent(y)' \in 0 .. 5
          BY <1>1, <1>2, <1>7
        <4>3. /\ Sent(y)' <= 0 + 1
              /\ Len(chan'[<<y, p>>]) = Sent(y)' - 1 + 1
              /\ Stage(chan'[<<y, p>>][i].kind) = 1 + i - 1
          BY <1>2, <2>1, <2>3, <4>1 DEF Link
        <4>4. QED
          BY <4>2, <4>3
      <3>2. chan'[<<y, p>>][i].kind = "border"
        <4>1. i = 1
          BY <1>1, <1>2, <1>7, <3>1
        <4>2. QED
          BY <3>1, <4>1, StageKinds
      <3>3. QED
        BY <3>2 DEF True
    <2>4. QED
      BY <2>2, <2>3 DEF Agree
  <1>8. ASSUME NEW y \in PE, y # p
        PROVE  Agree(y, p)'
    <2>1. Link(y, p)' /\ Agree(y, p) /\ Link(y, p) /\ chan'[<<p, y>>] = chan[<<p, y>>]
      BY <1>3, <1>5, <1>8 DEF Links, LInv, Agreement
    <2>2. CASE Same(y, p)'
      <3>1. Sent(y)' <= 1 /\ Len(chan'[<<p, y>>]) = 0
        <4>1. Sent(y)' <= 0 + 1 /\ Len(chan'[<<p, y>>]) = 0 - Due(y)' + 1
          BY <1>2, <2>1, <2>2 DEF Link
        <4>2. Due(y)' = 1
          BY <1>1, <1>2, <1>8, <4>1 DEF Due
        <4>3. QED
          BY <4>1, <4>2
      <3>2. Known(y, p)'
        BY <1>1, <1>2, <1>8, <3>1 DEF Known
      <3>3. ~ Behind(y, p)'
        BY <1>1, <1>2, <1>8, <2>2 DEF Same, Behind
      <3>4. QED
        BY <3>1, <3>2, <3>3 DEF Agree
    <2>3. CASE ~ Same(y, p)'
      <3>1. Behind(y, p)' => Same(y, p) \/ Behind(y, p)
        BY <1>1, <1>2, <1>8 DEF Same, Behind, Meet
      <3>2. ASSUME Same(y, p), Sent(y) = 4
            PROVE  fm[y].gain <= 0 /\ chan[<<p, y>>][1].gain <= 0
        <4>1. Same(p, y)
          BY <1>8, <3>2, MeetSymmetric DEF Same
        <4>2. Sent(p) = 4
          <5>1. y = Partner(p)
            BY <4>1 DEF Same, Meet, Partner
          <5>2. QED
            BY <1>8, <3>2, <4>1, <5>1 DEF Leaves
        <4>3. fm[p].gain <= 0 /\ fm[y].gain <= 0
          BY <4>1, <4>2
        <4>4. /\ Len(chan[<<p, y>>]) = 4 - 4 + 1
              /\ \A i \in 1 .. Len(chan[<<p, y>>]) : Stage(chan[<<p, y>>][i].kind) = 4 + i - 1
          BY <2>1, <3>2, <4>2 DEF Link, Due
        <4>5. Len(chan[<<p, y>>]) = 1 /\ Stage(chan[<<p, y>>][1].kind) = 4
          BY <4>4
        <4>6. chan[<<p, y>>][1].gain = fm[p].gain
          BY <2>1, <3>2, <4>5, StageKinds DEF Agree, True
        <4>7. QED
          BY <4>3, <4>6
      <3>3. Behind(y, p)' => NoResultComes(y, p)
        BY <2>1, <3>1, <3>2 DEF Agree, NoResultComes
      <3>4. NoResultComes(y, p) => NoResultComes(y, p)'
        BY <1>2, <1>4, <1>8, <2>1 DEF NoResultComes
      <3>5. QED
        BY <2>3, <3>3, <3>4 DEF Agree
    <2>4. QED
      BY <2>2, <2>3
  <1>9. ASSUME NEW x \in PE, NEW y \in PE, x # y
        PROVE  Agree(x, y)'
    BY <1>6, <1>7, <1>8, <1>9
  <1>10. QED
    BY <1>9 DEF Agreement

\* ----- The blocks as the processes of a pair have settled them.

\* The settled block of x depends on its data and on its next message only.
LEMMA EffSame ==
  ASSUME NEW x \in PE,
         owned'[x] = owned[x], iface'[x] = iface[x], halo'[x] = halo[x],
         fm'[x] = fm[x], otherGain'[x] = otherGain[x],
         color'[x] = color[x], pc'[x] = pc[x],
         PartnerAhead(x)' <=> PartnerAhead(x),
         PartnerAhead(x) /\ pc[x] = "result" => Received(x)' = Received(x)
  PROVE  EffOwned(x)' = EffOwned(x)
  <1>1. CASE PartnerAhead(x) /\ pc[x] = "result"
    <2>1. PICK res : res = Received(x).toSecond
      OBVIOUS
    <2>2. Received(x)'.toSecond = res
      BY <1>1, <2>1
    <2>3. NewLocal(x, res)' = NewLocal(x, res)
      BY DEF NewLocal, Deleted, Added, FinalToSecond, OtherWasBetter, Region, Partner
    <2>4. EffOwned(x) = NewLocal(x, res)
      BY <1>1, <2>1 DEF EffOwned
    <2>5. EffOwned(x)' = NewLocal(x, res)'
      BY <1>1, <2>2 DEF EffOwned
    <2>6. QED
      BY <2>3, <2>4, <2>5
  <1>2. CASE ~ (PartnerAhead(x) /\ pc[x] = "result")
    BY <1>2 DEF EffOwned
  <1>3. QED
    BY <1>1, <1>2

\* The message that tells a process left behind what was settled stays the
\* first in its channel.
LEMMA BehindMessage ==
  ASSUME LInv, NEW x \in PE, PartnerAhead(x), pc[x] = "result"
  PROVE  /\ Partner(x) \in PE /\ Partner(x) # x /\ Behind(x, Partner(x))
         /\ Len(chan[<<Partner(x), x>>]) >= 1
         /\ Received(x) = chan[<<Partner(x), x>>][1]
  <1> DEFINE y == Partner(x)
  <1>1. y \in PE /\ y # x
    BY PartnerIsPE DEF PartnerAhead, LInv, IInv, Shapes
  <1>2. Behind(x, y)
    BY <1>1 DEF PartnerAhead, Behind, Meet, Partner
  <1>3. ~ Same(x, y)
    BY <1>1, <1>2 DEF Behind, Same, LInv, Types
  <1>4. Len(chan[<<y, x>>]) = Pending(x, y)
    BY <1>1, <1>3 DEF LInv, Links, Link
  <1>5. Len(chan[<<y, x>>]) >= 1
    BY <1>1, <1>2, <1>4, StageType DEF Pending, Sent
  <1>6. QED
    BY <1>1, <1>2, <1>5 DEF Received

\* Nothing is settled inside a round.
LEMMA AdvanceEff ==
  ASSUME LInv, NEW p \in PE, NEW q \in PE, NEW k, NEW m, Further(p, q, k, m),
         owned' = owned,
         \A x \in PE : x # p =>
           /\ iface'[x] = iface[x] /\ halo'[x] = halo[x] /\ fm'[x] = fm[x]
           /\ otherWeight'[x] = otherWeight[x] /\ otherGain'[x] = otherGain[x]
  PROVE  EffBlock' = EffBlock
  <1>1. color' = color /\ \A x \in PE : x # p => pc'[x] = pc[x]
    BY DEF Further, LInv, IInv, Shapes
  <1>2. \A x \in PE : PartnerAhead(x)' <=> PartnerAhead(x)
    BY <1>1 DEF PartnerAhead, Partner
  <1>3. EffOwned(p)' = EffOwned(p)
    <2>1. ~ Behind(p, q)
      <3>1. Sent(p) = 0 \/ Same(p, q)
        BY DEF Further
      <3>2. Link(p, q) /\ color[p] \in Int /\ color[q] \in Int
        BY DEF Further, LInv, Links, Types
      <3>3. QED
        BY <3>1, <3>2 DEF Link, Same, Behind
    <2>2. ~ PartnerAhead(p)
      BY <2>1 DEF PartnerAhead, Behind, Further
    <2>3. QED
      BY <1>2, <2>2 DEF EffOwned
  <1>4. ASSUME NEW x \in PE, x # p
        PROVE  EffOwned(x)' = EffOwned(x)
    <2>1. ASSUME PartnerAhead(x), pc[x] = "result"
          PROVE  Received(x)' = Received(x)
      <3> DEFINE y == Partner(x)
      <3>1. /\ y \in PE /\ y # x /\ Len(chan[<<y, x>>]) >= 1
            /\ Received(x) = chan[<<y, x>>][1]
        BY <2>1, BehindMessage
      <3>2. Received(x)' = chan'[<<y, x>>][1]
        BY <1>1 DEF Received, Partner
      <3> HIDE DEF y
      <3>3. CASE y = p /\ x = q
        <4>1. /\ Len(chan[<<p, q>>]) \in Nat
              /\ \A i \in 1 .. Len(chan[<<p, q>>]) : chan'[<<p, q>>][i] = chan[<<p, q>>][i]
          BY FurtherSent
        <4>2. QED
          BY <3>1, <3>2, <3>3, <4>1
      <3>4. CASE ~ (y = p /\ x = q)
        <4>1. chan'[<<y, x>>] = chan[<<y, x>>]
          BY <1>4, <3>1, <3>4, FurtherElsewhere
        <4>2. QED
          BY <3>1, <3>2, <4>1
      <3>5. QED
        BY <3>3, <3>4
    <2>2. QED
      BY <1>1, <1>2, <1>4, <2>1, EffSame
  <1>5. QED
    BY <1>3, <1>4 DEF EffBlock

\* p leaves a round: nothing is settled anew for a process that is not in the
\* same round with it or has no result.
LEMMA LeaveEff ==
  ASSUME LInv, Domains, NEW p \in PE, Leaves(p), NEW x \in PE, x # p,
         owned'[x] = owned[x], Same(p, x) => pc[x] # "result"
  PROVE  EffOwned(x)' = EffOwned(x)
  <1>1. /\ color'[p] = color[p] + 1 /\ color'[x] = color[x]
        /\ \A z \in PE : z # p => color'[z] = color[z]
    BY LeavesEffect
  <1>2. /\ iface'[x] = iface[x] /\ halo'[x] = halo[x] /\ fm'[x] = fm[x]
        /\ otherGain'[x] = otherGain[x] /\ pc'[x] = pc[x]
    BY DEF Leaves, NextRound, Domains, LInv, IInv, Shapes
  <1>3. CASE pc[x] = "result"
    <2> DEFINE y == Partner(x)
    <2>1. y \in PE /\ y # x /\ color[x] \in DOMAIN Scheme
      BY <1>3, PartnerIsPE DEF LInv, IInv, Shapes
    <2>2. PartnerAhead(x)' <=> PartnerAhead(x)
      <3>1. CASE y # p
        BY <1>1, <2>1, <3>1 DEF PartnerAhead, Partner
      <3>2. CASE y = p
        <4>1. Meet(x, p, color[x]) /\ Meet(p, x, color[x])
          BY <2>1, <3>2, MeetSymmetric DEF Meet, Partner
        <4>2. color[p] # color[x]
          BY <1>3, <4>1 DEF Same
        <4>3. color[p] \in Int /\ color[x] \in Int
          BY DEF LInv, Types
        <4>4. color[p] + 1 > color[x] <=> color[p] > color[x]
          BY <4>2, <4>3
        <4>5. QED
          BY <1>1, <2>1, <3>2, <4>4 DEF PartnerAhead, Partner
      <3>3. QED
        BY <3>1, <3>2
    <2>3. Received(x)' = Received(x)
      <3>1. chan'[<<y, x>>] = chan[<<y, x>>]
        BY <2>1, LeavesEffect
      <3>2. QED
        BY <1>1, <3>1 DEF Received, Partner
    <2>4. QED
      BY <1>1, <1>2, <2>2, <2>3, EffSame
  <1>4. CASE pc[x] # "result"
    BY <1>2, <1>4 DEF EffOwned
  <1>5. QED
    BY <1>3, <1>4

\* ----- What a pair settles.

\* Sets of nodes are finite and have integer weights.
LEMMA NodeSetWeight ==
  ASSUME NEW S \in SUBSET Node
  PROVE  IsFiniteSet(S) /\ WeightOf(NodeWeight, S) \in Int
  <1>1. IsFiniteSet(S)
    BY FS_Subset, GraphAssumption
  <1>2. \A n \in S : NodeWeight[n] \in Int
    BY GraphAssumption
  <1>3. QED
    BY <1>1, <1>2, WeightType

\* The weight of a block that gives d and takes a.
LEMMA ExchangeWeight ==
  ASSUME NEW own \in SUBSET Node, NEW d \in SUBSET own, NEW a \in SUBSET Node,
         a \cap own = {}
  PROVE  WeightOf(NodeWeight, (own \ d) \cup a)
           = WeightOf(NodeWeight, own) - WeightOf(NodeWeight, d) + WeightOf(NodeWeight, a)
  <1> DEFINE rest == own \ d
  <1>1. /\ rest \in SUBSET Node /\ d \in SUBSET Node /\ rest \cap a = {} /\ rest \cap d = {}
        /\ own = rest \cup d
    OBVIOUS
  <1>2. \A n \in Node : NodeWeight[n] \in Int
    BY GraphAssumption
  <1> HIDE DEF rest
  <1>3. /\ IsFiniteSet(rest) /\ IsFiniteSet(d) /\ IsFiniteSet(a)
        /\ WeightOf(NodeWeight, rest) \in Int /\ WeightOf(NodeWeight, d) \in Int
        /\ WeightOf(NodeWeight, a) \in Int
    BY <1>1, NodeSetWeight
  <1>4. WeightOf(NodeWeight, rest \cup a) = WeightOf(NodeWeight, rest) + WeightOf(NodeWeight, a)
    BY <1>1, <1>2, <1>3, WeightUnion
  <1>5. WeightOf(NodeWeight, rest \cup d) = WeightOf(NodeWeight, rest) + WeightOf(NodeWeight, d)
    BY <1>1, <1>2, <1>3, WeightUnion
  <1>6. WeightOf(NodeWeight, own) = WeightOf(NodeWeight, rest) + WeightOf(NodeWeight, d)
    BY <1>1, <1>5
  <1>7. WeightOf(NodeWeight, rest \cup a)
          = WeightOf(NodeWeight, own) - WeightOf(NodeWeight, d) + WeightOf(NodeWeight, a)
    BY <1>3, <1>4, <1>6
  <1>8. QED
    BY <1>7 DEF rest

\* The capacity is an integer.
LEMMA CapacityType == Capacity \in Int
  <1>1. WeightOf(NodeWeight, Node) \in Int
    BY NodeSetWeight
  <1>2. WeightOf(NodeWeight, Node) \div P \in Int
    BY <1>1, PEAssumption
  <1>3. QED
    BY <1>2, SettingsAssumption DEF Capacity

\* p gives d and q gives a, both processes agree on that, and both blocks fit.
Settled(p, q, d, a) ==
  /\ Deleted(p, fm[q].toSecond) = d /\ Added(p, fm[q].toSecond) = a
  /\ Deleted(q, fm[p].toSecond) = a /\ Added(q, fm[p].toSecond) = d
  /\ d \subseteq owned[p] /\ a \subseteq owned[q] /\ owned[p] \cap owned[q] = {}
  /\ WeightOf(NodeWeight, (owned[p] \ d) \cup a) <= Capacity
  /\ WeightOf(NodeWeight, (owned[q] \ a) \cup d) <= Capacity

\* Two partners in the same round own what has been settled, and no node twice.
LEMMA InRoundOwned ==
  ASSUME LInv, OneOwner, NEW p \in PE, NEW q \in PE, Same(p, q)
  PROVE  /\ EffOwned(p) = owned[p] /\ EffOwned(q) = owned[q]
         /\ owned[p] \cap owned[q] = {}
         /\ Partner(p) = q /\ Partner(q) = p /\ p # q
  <1>1. /\ Partner(p) = q /\ Partner(q) = p /\ p # q /\ color[p] = color[q]
        /\ color[p] \in Int
    BY MeetSymmetric DEF Same, Meet, Partner, LInv, Types
  <1>2. ~ PartnerAhead(p) /\ ~ PartnerAhead(q)
    BY <1>1 DEF PartnerAhead
  <1>3. EffOwned(p) = owned[p] /\ EffOwned(q) = owned[q]
    BY <1>2 DEF EffOwned
  <1>4. owned[p] \subseteq Node
    BY DEF LInv, IInv, Shapes
  <1>5. \A n \in Node : n \in EffBlock[p] => n \notin EffBlock[q]
    BY <1>1 DEF OneOwner
  <1>6. QED
    BY <1>1, <1>3, <1>4, <1>5 DEF EffBlock

\* If the result of p is the better one, q turns it round.
LEMMA Winner ==
  ASSUME LInv, Results, Agreement, OneOwner,
         NEW p \in PE, NEW q \in PE, Same(p, q), Sent(p) = 5, Sent(q) = 5,
         OtherWasBetter(q)
  PROVE  Settled(p, q, iface[p].cand \cap fm[p].toSecond, halo[p].cand \ fm[p].toSecond)
  <1> DEFINE T == fm[p].toSecond
             d == iface[p].cand \cap T
             a == halo[p].cand \ T
  <1>1. /\ Partner(p) = q /\ Partner(q) = p /\ p # q /\ Same(q, p)
        /\ owned[p] \cap owned[q] = {}
    BY InRoundOwned, MeetSymmetric DEF Same
  <1>2. /\ otherGain[p] = fm[q].gain /\ otherGain[q] = fm[p].gain
        /\ fm[p].gain > 0 \/ fm[q].gain > 0
        /\ halo[p].nodes = iface[q].nodes /\ halo[p].cand = iface[q].cand
        /\ halo[q].nodes = iface[p].nodes /\ halo[q].cand = iface[p].cand
        /\ otherWeight[p] = WeightOf(NodeWeight, owned[q])
    <2>1. Known(p, q) /\ Known(q, p)
      BY <1>1 DEF Agreement, Agree
    <2>2. QED
      BY <2>1 DEF Known
  <1>3. /\ fm[p].gain \in Int /\ fm[q].gain \in Int /\ T \subseteq Region(p)
        /\ fm[p].gain > 0 => Fits(p)
    BY DEF Results, Result
  <1>4. p \in Int /\ q \in Int
    BY PEAssumption DEF PE
  <1>5. fm[p].gain > 0 /\ ~ OtherWasBetter(p)
    BY <1>1, <1>2, <1>3, <1>4 DEF OtherWasBetter
  <1>6. /\ iface[p].cand \subseteq iface[p].nodes /\ iface[p].nodes \subseteq owned[p]
        /\ iface[q].cand \subseteq iface[q].nodes /\ iface[q].nodes \subseteq owned[q]
        /\ owned[p] \subseteq Node /\ owned[q] \subseteq Node
    BY DEF LInv, IInv, InterfaceLocal, Shapes
  <1>7. Deleted(p, fm[q].toSecond) = d /\ Added(p, fm[q].toSecond) = a
    BY <1>5 DEF Deleted, Added, FinalToSecond
  <1>8. Deleted(q, T) = a /\ Added(q, T) = d
    <2>1. Region(q) = iface[q].cand \cup iface[p].cand
      BY <1>2 DEF Region
    <2>2. /\ Deleted(q, T) = iface[q].cand \cap (Region(q) \ T)
          /\ Added(q, T) = iface[p].cand \ (Region(q) \ T)
      BY <1>2 DEF Deleted, Added, FinalToSecond
    <2>3. a = iface[q].cand \ T
      BY <1>2
    <2>4. QED
      BY <2>1, <2>2, <2>3
  <1>9. d \subseteq owned[p] /\ a \subseteq owned[q]
    BY <1>2, <1>6
  <1>10. /\ WeightOf(NodeWeight, (owned[p] \ d) \cup a) <= Capacity
         /\ WeightOf(NodeWeight, (owned[q] \ a) \cup d) <= Capacity
    <2>1. T \ halo[p].nodes = d /\ (Region(p) \cap halo[p].nodes) \ T = a
      <3>1. Region(p) = iface[p].cand \cup iface[q].cand
        BY <1>2 DEF Region
      <3>2. halo[p].nodes \cap iface[p].cand = {} /\ iface[q].cand \subseteq halo[p].nodes
        BY <1>1, <1>2, <1>6
      <3>3. QED
        BY <1>2, <1>3, <3>1, <3>2
    <2> HIDE DEF d, a
    <2>2. /\ WeightOf(NodeWeight, owned[p])
               - (WeightOf(NodeWeight, d) - WeightOf(NodeWeight, a)) <= Capacity
          /\ WeightOf(NodeWeight, owned[q])
               + (WeightOf(NodeWeight, d) - WeightOf(NodeWeight, a)) <= Capacity
      BY <1>2, <1>3, <1>5, <2>1 DEF Fits
    <2>3. /\ d \in SUBSET owned[p] /\ a \in SUBSET owned[q]
          /\ d \in SUBSET Node /\ a \in SUBSET Node
          /\ d \cap owned[q] = {} /\ a \cap owned[p] = {}
      BY <1>1, <1>6, <1>9
    <2>4. /\ WeightOf(NodeWeight, d) \in Int /\ WeightOf(NodeWeight, a) \in Int
          /\ WeightOf(NodeWeight, owned[p]) \in Int /\ WeightOf(NodeWeight, owned[q]) \in Int
      BY <1>6, <2>3, NodeSetWeight
    <2>5. WeightOf(NodeWeight, (owned[p] \ d) \cup a)
            = WeightOf(NodeWeight, owned[p]) - WeightOf(NodeWeight, d) + WeightOf(NodeWeight, a)
      BY <1>6, <2>3, ExchangeWeight
    <2>6. WeightOf(NodeWeight, (owned[q] \ a) \cup d)
            = WeightOf(NodeWeight, owned[q]) - WeightOf(NodeWeight, a) + WeightOf(NodeWeight, d)
      BY <1>6, <2>3, ExchangeWeight
    <2>7. Capacity \in Int
      BY CapacityType
    <2>8. QED
      BY <2>2, <2>4, <2>5, <2>6, <2>7
  <1>11. QED
    BY <1>1, <1>7, <1>8, <1>9, <1>10 DEF Settled

\* One of the two results always is the better one, on both sides.
LEMMA PairSettles ==
  ASSUME LInv, Results, Agreement, OneOwner,
         NEW p \in PE, NEW q \in PE, Same(p, q), Sent(p) = 5, Sent(q) = 5
  PROVE  \E d, a \in SUBSET Node : Settled(p, q, d, a)
  <1>1. Partner(p) = q /\ Partner(q) = p /\ p # q /\ Same(q, p)
    BY InRoundOwned, MeetSymmetric DEF Same
  <1>2. /\ otherGain[p] = fm[q].gain /\ otherGain[q] = fm[p].gain
        /\ fm[p].gain \in Int /\ fm[q].gain \in Int
    <2>1. Known(p, q) /\ Known(q, p)
      BY <1>1 DEF Agreement, Agree
    <2>2. QED
      BY <2>1 DEF Known, Results, Result
  <1>3. p \in Int /\ q \in Int
    BY PEAssumption DEF PE
  <1>4. OtherWasBetter(p) \/ OtherWasBetter(q)
    BY <1>1, <1>2, <1>3 DEF OtherWasBetter
  <1>5. owned[p] \subseteq Node /\ owned[q] \subseteq Node
    BY DEF LInv, IInv, Shapes
  <1>6. CASE OtherWasBetter(q)
    <2>1. PICK d, a : Settled(p, q, d, a)
      BY <1>6, Winner
    <2>2. d \in SUBSET Node /\ a \in SUBSET Node
      BY <1>5, <2>1 DEF Settled
    <2>3. QED
      BY <2>1, <2>2
  <1>7. CASE OtherWasBetter(p)
    <2>1. PICK d, a : Settled(q, p, d, a)
      BY <1>1, <1>7, Winner
    <2>2. d \in SUBSET Node /\ a \in SUBSET Node
      BY <1>5, <2>1 DEF Settled
    <2>3. Settled(p, q, a, d)
      BY <2>1 DEF Settled
    <2>4. QED
      BY <2>2, <2>3
  <1>8. QED
    BY <1>4, <1>6, <1>7

\* An exchange between two blocks loses no node and doubles none.
LEMMA ExchangeOneOwner ==
  ASSUME OneOwner, NEW p \in PE, NEW q \in PE, p # q, NEW d, NEW a,
         d \subseteq EffOwned(p), a \subseteq EffOwned(q),
         EffOwned(p) \cap EffOwned(q) = {},
         EffOwned(p)' = (EffOwned(p) \ d) \cup a,
         EffOwned(q)' = (EffOwned(q) \ a) \cup d,
         \A x \in PE : x # p /\ x # q => EffOwned(x)' = EffOwned(x)
  PROVE  OneOwner'
  <1>1. \A x \in PE : EffBlock[x] = EffOwned(x) /\ EffBlock'[x] = EffOwned(x)'
    BY DEF EffBlock
  <1>2. PICK old : old = EffBlock
    OBVIOUS
  <1>3. PICK new : new = EffBlock'
    OBVIOUS
  <1>4. /\ new[p] = (old[p] \ d) \cup a /\ new[q] = (old[q] \ a) \cup d
        /\ \A x \in PE : x # p /\ x # q => new[x] = old[x]
        /\ d \subseteq old[p] /\ a \subseteq old[q] /\ old[p] \cap old[q] = {}
    BY <1>1, <1>2, <1>3
  <1>5. \A n \in Node : \E x \in PE : n \in old[x] /\ \A y \in PE \ {x} : n \notin old[y]
    BY <1>2 DEF OneOwner
  <1>6. ASSUME NEW n \in Node
        PROVE  \E x \in PE : n \in new[x] /\ \A y \in PE \ {x} : n \notin new[y]
    <2>1. PICK x \in PE : n \in old[x] /\ \A y \in PE \ {x} : n \notin old[y]
      BY <1>5
    <2>2. CASE n \in d
      <3>1. x = p
        BY <1>4, <2>1, <2>2
      <3>2. n \in new[q] /\ \A y \in PE \ {q} : n \notin new[y]
        BY <1>4, <2>1, <2>2, <3>1
      <3>3. QED
        BY <3>2
    <2>3. CASE n \in a
      <3>1. x = q
        BY <1>4, <2>1, <2>3
      <3>2. n \in new[p] /\ \A y \in PE \ {p} : n \notin new[y]
        BY <1>4, <2>1, <2>3, <3>1
      <3>3. QED
        BY <3>2
    <2>4. CASE n \notin d /\ n \notin a
      <3>1. \A y \in PE : n \in new[y] <=> n \in old[y]
        BY <1>4, <2>4
      <3>2. QED
        BY <2>1, <3>1
    <2>5. QED
      BY <2>2, <2>3, <2>4
  <1>7. QED
    BY <1>3, <1>6 DEF OneOwner

\* ----- The steps.

\* The invariants are about the settled blocks.
LEMMA BlocksUnchanged ==
  ASSUME OneOwner, OverloadNeverGrows, EffBlock' = EffBlock, start' = start
  PROVE  OneOwner' /\ OverloadNeverGrows'
  BY DEF OneOwner, OverloadNeverGrows, StartBlock, Capacity

\* The promise of x depends on its data only.
LEMMA ResultSame ==
  ASSUME NEW x \in PE, Result(x), Sent(x)' = Sent(x), owned'[x] = owned[x],
         iface'[x] = iface[x], halo'[x] = halo[x], fm'[x] = fm[x],
         otherWeight'[x] = otherWeight[x]
  PROVE  Result(x)'
  BY DEF Result, Fits, Region, Capacity

\* What p does inside a round: it changes its own data only, the region and the
\* result not any more once they have been sent.
Inner(p) ==
  /\ owned' = owned /\ start' = start
  /\ \A x \in PE : x # p =>
       /\ iface'[x] = iface[x] /\ halo'[x] = halo[x] /\ fm'[x] = fm[x]
       /\ otherWeight'[x] = otherWeight[x] /\ otherGain'[x] = otherGain[x]
  /\ Sent(p) >= 2 => iface'[p] = iface[p]
  /\ Sent(p) >= 4 => fm'[p] = fm[p]

\* What p sends is what it has.
Honest(p, m) ==
  /\ m.kind = "sizes" => m.weight = WeightOf(NodeWeight, owned[p])
  /\ m.kind = "halo" => m.nodes = iface'[p].nodes /\ m.cand = iface'[p].cand
  /\ m.kind = "gain" => m.gain = fm'[p].gain
  /\ m.kind = "result" => m.toSecond = fm'[p].toSecond

\* A swap inside a round keeps the invariant.
LEMMA FurtherStep ==
  ASSUME PInv,
         NEW p \in PE, NEW q \in PE, NEW k, NEW m, Further(p, q, k, m),
         Inner(p), Honest(p, m), IInv', Domains', Result(p)', Known(p, q)'
  PROVE  PInv'
  <1>1. Types' /\ Links'
    BY Advance DEF PInv
  <1>2. Agreement'
    BY AdvanceAgree DEF PInv, Inner, Honest
  <1>3. Results'
    <2>1. ASSUME NEW x \in PE, x # p PROVE Result(x)'
      <3>1. Sent(x)' = Sent(x)
        BY <2>1, FurtherPhases DEF PInv
      <3>2. QED
        BY <2>1, <3>1, ResultSame DEF PInv, Results, Inner
    <2>2. QED
      BY <2>1 DEF Results
  <1>4. OneOwner' /\ OverloadNeverGrows'
    <2>1. EffBlock' = EffBlock
      BY AdvanceEff DEF PInv, Inner
    <2>2. QED
      BY <2>1, BlocksUnchanged DEF PInv, Inner
  <1>5. QED
    BY <1>1, <1>2, <1>3, <1>4 DEF PInv, LInv

\* The end of a round keeps the invariant.
LEMMA LeaveStep ==
  ASSUME PInv, NEW p \in PE, Leaves(p), IInv',
         \A x \in PE : x # p => owned'[x] = owned[x],
         \A q \in PE : Same(p, q) /\ Sent(p) = 4 => fm[p].gain <= 0 /\ fm[q].gain <= 0,
         OneOwner', OverloadNeverGrows'
  PROVE  PInv'
  <1>1. Types' /\ Links'
    BY Leave DEF PInv
  <1>2. Agreement'
    BY LeaveAgree DEF PInv
  <1>3. Domains'
    BY DEF PInv, Domains, Leaves, NextRound
  <1>4. Results'
    <2>1. Result(p)'
      BY LeavesEffect DEF PInv, Result
    <2>2. ASSUME NEW x \in PE, x # p PROVE Result(x)'
      <3>1. Sent(x)' = Sent(x)
        BY <2>2, LeavesEffect DEF PInv
      <3>2. /\ iface'[x] = iface[x] /\ halo'[x] = halo[x] /\ fm'[x] = fm[x]
            /\ otherWeight'[x] = otherWeight[x]
        BY <2>2 DEF Leaves, NextRound, PInv, Domains, LInv, IInv, Shapes
      <3>3. QED
        BY <2>2, <3>1, <3>2, ResultSame DEF PInv, Results
    <2>3. QED
      BY <2>1, <2>2 DEF Results
  <1>5. QED
    BY <1>1, <1>2, <1>3, <1>4 DEF PInv, LInv

\* The invariant of DistributedFMProofs, for a single step.
LEMMA StepIInv == \A p \in PE : PInv /\ Step(p) => IInv'
  BY NextIInv DEF PInv, LInv, Next

\* In the course of a round p waits for a partner that is there.
LEMMA InRound ==
  ASSUME PInv, NEW p \in PE, pc[p] \notin {"round", "done"}, HasMessage(p)
  PROVE  /\ Partner(p) \in PE /\ Partner(p) # p /\ Meet(p, Partner(p), color[p])
         /\ color[p] \in DOMAIN Scheme
         /\ Same(p, Partner(p)) \/ Behind(p, Partner(p))
         /\ Same(p, Partner(p)) =>
              /\ Sent(Partner(p)) >= Sent(p)
              /\ Agree(p, Partner(p)) /\ Agree(Partner(p), p)
              /\ Same(Partner(p), p) /\ True(Received(p), Partner(p))
         /\ Behind(p, Partner(p)) => Sent(p) \in {4, 5} /\ ~ Same(p, Partner(p))
         /\ Stage(Received(p).kind) = Sent(p)
         /\ Received(p) = chan[<<Partner(p), p>>][1]
  <1>1. Sent(p) # 0
    <2>1. pc[p] \in Kinds
      BY DEF PInv, LInv, Types
    <2>2. QED
      BY <2>1 DEF Kinds, Sent, Stage
  <1>2. /\ color[p] \in DOMAIN Scheme /\ Partner(p) \in PE /\ Partner(p) # p
        /\ Same(p, Partner(p)) \/ Behind(p, Partner(p))
        /\ Same(p, Partner(p)) => Sent(Partner(p)) >= Sent(p)
        /\ Behind(p, Partner(p)) => Sent(p) \in {4, 5}
        /\ Stage(Received(p).kind) = Sent(p)
        /\ Received(p) = chan[<<Partner(p), p>>][1]
        /\ Len(chan[<<Partner(p), p>>]) >= 1
    BY <1>1, Received1 DEF PInv
  <1>3. Len(chan[<<Partner(p), p>>]) \in Nat
    BY <1>2, ChannelSequences DEF PInv, LInv
  <1>4. Meet(p, Partner(p), color[p])
    BY <1>2 DEF Meet, Partner
  <1>5. Agree(p, Partner(p)) /\ Agree(Partner(p), p)
    BY <1>2 DEF PInv, Agreement
  <1>6. Same(p, Partner(p)) => True(Received(p), Partner(p))
    BY <1>2, <1>3, <1>5 DEF Agree
  <1>7. Same(p, Partner(p)) => Same(Partner(p), p)
    BY <1>2, MeetSymmetric DEF Same
  <1>8. Behind(p, Partner(p)) => ~ Same(p, Partner(p))
    BY <1>2 DEF Behind, Same, PInv, LInv, Types
  <1>9. QED
    BY <1>2, <1>4, <1>5, <1>6, <1>7, <1>8

\* In the course of a round p waits for a partner q that is there: in the same
\* round, or ahead of it if only the last message of the round is missing.
LEMMA InRoundWith ==
  ASSUME PInv, NEW p \in PE, pc[p] \notin {"round", "done"}, HasMessage(p)
  PROVE  \E q \in PE :
           /\ q = Partner(p) /\ q # p /\ Meet(p, q, color[p])
           /\ color[p] \in DOMAIN Scheme
           /\ Received(p) = chan[<<q, p>>][1] /\ Stage(Received(p).kind) = Sent(p)
           /\ \/ /\ Same(p, q) /\ Same(q, p) /\ Sent(q) >= Sent(p)
                 /\ Agree(p, q) /\ Agree(q, p) /\ True(Received(p), q)
              \/ /\ Behind(p, q) /\ ~ Same(p, q) /\ Sent(p) \in {4, 5}
                 /\ Agree(p, q)
  <1>1. PICK q \in PE : q = Partner(p)
    BY InRound
  <1>2. /\ q # p /\ Meet(p, q, color[p]) /\ color[p] \in DOMAIN Scheme
        /\ Received(p) = chan[<<q, p>>][1] /\ Stage(Received(p).kind) = Sent(p)
        /\ Same(p, q) \/ Behind(p, q)
    BY <1>1, InRound
  <1>3. Same(p, q) => /\ Same(q, p) /\ Sent(q) >= Sent(p)
                      /\ Agree(p, q) /\ Agree(q, p) /\ True(Received(p), q)
    BY <1>1, InRound
  <1>4. Behind(p, q) => ~ Same(p, q) /\ Sent(p) \in {4, 5}
    BY <1>1, InRound
  <1>5. Agree(p, q)
    BY <1>2 DEF PInv, Agreement
  <1>6. QED
    BY <1>1, <1>2, <1>3, <1>4, <1>5

\* Until it has the gain, p is in the same round as its partner.
LEMMA InSameRoundWith ==
  ASSUME PInv, NEW p \in PE, pc[p] \notin {"round", "done"}, HasMessage(p), Sent(p) <= 3
  PROVE  \E q \in PE :
           /\ q = Partner(p) /\ q # p /\ Meet(p, q, color[p])
           /\ Same(p, q) /\ Agree(p, q)
           /\ Stage(Received(p).kind) = Sent(p) /\ True(Received(p), q)
  <1>1. PICK q \in PE :
           /\ q = Partner(p) /\ q # p /\ Meet(p, q, color[p])
           /\ Stage(Received(p).kind) = Sent(p)
           /\ \/ Same(p, q) /\ Agree(p, q) /\ True(Received(p), q)
              \/ Sent(p) \in {4, 5}
    <2>1. PICK q \in PE :
           /\ q = Partner(p) /\ q # p /\ Meet(p, q, color[p])
           /\ color[p] \in DOMAIN Scheme
           /\ Received(p) = chan[<<q, p>>][1] /\ Stage(Received(p).kind) = Sent(p)
           /\ \/ /\ Same(p, q) /\ Same(q, p) /\ Sent(q) >= Sent(p)
                 /\ Agree(p, q) /\ Agree(q, p) /\ True(Received(p), q)
              \/ /\ Behind(p, q) /\ ~ Same(p, q) /\ Sent(p) \in {4, 5}
                 /\ Agree(p, q)
      BY InRoundWith
    <2>2. QED
      BY <2>1, Zenon
  <1>2. Sent(p) # 4 /\ Sent(p) # 5
    OBVIOUS
  <1>3. QED
    BY <1>1, <1>2, Zenon

\* The border list starts a round; nothing is promised about it.
LEMMA SendBorderKeeps ==
  ASSUME PInv, NEW p \in PE, SendBorder(p)
  PROVE  PInv'
  <1>1. /\ pc[p] = "round" /\ color[p] \in DOMAIN Scheme /\ Partner(p) # p
        /\ pc' = [pc EXCEPT ![p] = "border"]
        /\ chan' = Send(p, [Blank EXCEPT !.kind = "border", !.nodes = border[p]])
        /\ UNCHANGED <<start, owned, color, iface, otherWeight, halo, otherGain, fm>>
    BY DEF SendBorder
  <1>2. PICK q \in PE : q = Partner(p) /\ q # p
    BY <1>1, PartnerIsPE
  <1>3. IInv'
    BY StepIInv DEF Step
  <1>4. PICK m : m = [Blank EXCEPT !.kind = "border", !.nodes = border[p]]
    OBVIOUS
  <1>5. m.kind = "border" /\ chan' = Send(p, m)
    BY <1>1, <1>4 DEF Blank
  <1>6. Sent(p) = 0 /\ Stage("border") = 1
    BY <1>1 DEF Sent, Stage
  <1>7. Further(p, q, "border", m)
    BY <1>1, <1>2, <1>5, <1>6 DEF Further, Meet, Partner
  <1>8. Sent(p)' = 1
    BY <1>6, <1>7, FurtherPhases DEF PInv
  <1>9. Domains' /\ Result(p)' /\ Known(p, q)'
    BY <1>1, <1>8 DEF PInv, Domains, Result, Known
  <1>10. Inner(p) /\ Honest(p, m)
    BY <1>1, <1>5, <1>6 DEF Inner, Honest
  <1>11. QED
    BY <1>3, <1>7, <1>9, <1>10, FurtherStep

\* The sizes name the weight of the own block.
LEMMA SwapSizesKeeps ==
  ASSUME PInv, NEW p \in PE, SwapSizes(p)
  PROVE  PInv'
  <1>1. PICK found, m :
          /\ iface' = [iface EXCEPT ![p] = found]
          /\ m = [Blank EXCEPT !.kind = "sizes", !.count = Cardinality(found.nodes),
                               !.weight = WeightOf(NodeWeight, owned[p])]
          /\ chan' = TakeAndSend(p, m)
    BY DEF SwapSizes
  <1>2. /\ pc[p] = "border" /\ HasMessage(p) /\ pc' = [pc EXCEPT ![p] = "sizes"]
        /\ UNCHANGED <<start, owned, color, otherWeight, halo, otherGain, fm>>
    BY DEF SwapSizes
  <1>3. Sent(p) = 1 /\ Stage("sizes") = 2
    BY <1>2 DEF Sent, Stage
  <1>4. PICK q \in PE : q = Partner(p) /\ q # p /\ Meet(p, q, color[p]) /\ Same(p, q)
    <2>1. pc[p] \notin {"round", "done"}
      BY <1>2
    <2>2. QED
      BY <1>2, <1>3, <2>1, InSameRoundWith
  <1>5. IInv'
    BY StepIInv DEF Step
  <1>6. m.kind = "sizes" /\ m.weight = WeightOf(NodeWeight, owned[p])
    BY <1>1 DEF Blank
  <1>7. Further(p, q, "sizes", m)
    BY <1>1, <1>2, <1>3, <1>4, <1>6 DEF Further
  <1>8. Sent(p)' = 2
    BY <1>3, <1>7, FurtherPhases DEF PInv
  <1>9. Domains' /\ Result(p)' /\ Known(p, q)'
    BY <1>2, <1>8 DEF PInv, Domains, Result, Known
  <1>10. Inner(p) /\ Honest(p, m)
    <2>1. \A x \in PE : x # p => iface'[x] = iface[x]
      BY <1>1 DEF PInv, LInv, IInv, Shapes
    <2>2. QED
      BY <1>2, <1>3, <1>6, <2>1 DEF Inner, Honest
  <1>11. QED
    BY <1>5, <1>7, <1>9, <1>10, FurtherStep

\* With the halo goes the region the process itself will refine.
LEMMA SwapHaloKeeps ==
  ASSUME PInv, NEW p \in PE, SwapHalo(p)
  PROVE  PInv'
  <1>1. /\ pc[p] = "sizes" /\ HasMessage(p) /\ pc' = [pc EXCEPT ![p] = "halo"]
        /\ otherWeight' = [otherWeight EXCEPT ![p] = Received(p).weight]
        /\ UNCHANGED <<start, owned, color, iface, halo, otherGain, fm>>
    BY DEF SwapHalo
  <1>2. PICK m : /\ m = [Blank EXCEPT !.kind = "halo",
                       !.nodes = iface[p].nodes,
                       !.cand = iface[p].cand,
                       !.origin = [n \in Node |-> IF n \in iface[p].nodes
                                                 THEN origin[p][n] ELSE -1]]
                 /\ chan' = TakeAndSend(p, m)
    BY DEF SwapHalo
  <1>3. Sent(p) = 2 /\ Stage("halo") = 3
    BY <1>1 DEF Sent, Stage
  <1>4. PICK q \in PE : /\ q = Partner(p) /\ q # p /\ Meet(p, q, color[p]) /\ Same(p, q)
                        /\ Stage(Received(p).kind) = 2 /\ True(Received(p), q)
    <2>1. pc[p] \notin {"round", "done"}
      BY <1>1
    <2>2. QED
      BY <1>1, <1>3, <2>1, InSameRoundWith
  <1>5. IInv'
    BY StepIInv DEF Step
  <1>6. m.kind = "halo" /\ m.nodes = iface[p].nodes /\ m.cand = iface[p].cand
    BY <1>2 DEF Blank
  <1>7. Further(p, q, "halo", m)
    BY <1>1, <1>2, <1>3, <1>4, <1>6 DEF Further
  <1>8. Sent(p)' = 3
    BY <1>3, <1>7, FurtherPhases DEF PInv
  <1>9. Domains' /\ Result(p)'
    BY <1>1, <1>8 DEF PInv, Domains, Result
  <1>10. Known(p, q)'
    <2>1. Received(p).weight = WeightOf(NodeWeight, owned[q])
      BY <1>4, StageKinds DEF True
    <2>2. otherWeight'[p] = WeightOf(NodeWeight, owned[q]) /\ owned' = owned
      BY <1>1, <2>1 DEF PInv, Domains
    <2>3. ~ (3 >= 4) /\ 3 # 5
      OBVIOUS
    <2>4. QED
      BY <1>8, <2>2, <2>3 DEF Known
  <1>11. Inner(p) /\ Honest(p, m)
    BY <1>1, <1>3, <1>6 DEF Inner, Honest, PInv, Domains
  <1>12. QED
    BY <1>5, <1>7, <1>9, <1>10, <1>11, FurtherStep

\* What twoWayLocalFM returns to p is worth its gain on p's data.
LEMMA RefineKeeps ==
  ASSUME PInv, NEW p \in PE, RefineAndSwapGain(p)
  PROVE  PInv'
  <1>1. /\ pc[p] = "halo" /\ HasMessage(p) /\ pc' = [pc EXCEPT ![p] = "gain"]
        /\ UNCHANGED <<start, owned, color, iface, otherWeight, otherGain>>
    BY DEF RefineAndSwapGain
  <1>2. PICK other : other = Received(p)
    OBVIOUS
  <1>3. PICK out \in FMOutcomes(EdgeView(p), NodeWeight, owned[p], other.nodes,
                                iface[p].cand \cup other.cand,
                                WeightOf(NodeWeight, owned[p]),
                                otherWeight[p], Capacity) :
          /\ fm' = [fm EXCEPT ![p] = out]
          /\ chan' = TakeAndSend(p, [Blank EXCEPT !.kind = "gain", !.gain = out.gain])
    BY <1>2 DEF RefineAndSwapGain
  <1>4. halo' = [halo EXCEPT ![p] = [nodes |-> other.nodes, cand |-> other.cand,
                                     origin |-> other.origin]]
    BY <1>2 DEF RefineAndSwapGain
  <1>5. PICK m : /\ m = [Blank EXCEPT !.kind = "gain", !.gain = out.gain]
                 /\ chan' = TakeAndSend(p, m)
    BY <1>3
  <1>6. Sent(p) = 3 /\ Stage("gain") = 4
    BY <1>1 DEF Sent, Stage
  <1>7. PICK q \in PE : /\ q = Partner(p) /\ q # p /\ Meet(p, q, color[p])
                        /\ Same(p, q) /\ Agree(p, q)
                        /\ Stage(other.kind) = 3 /\ True(other, q)
    <2>1. pc[p] \notin {"round", "done"}
      BY <1>1
    <2>2. QED
      BY <1>1, <1>2, <1>6, <2>1, InSameRoundWith
  <1>8. IInv'
    BY StepIInv DEF Step
  <1>9. m.kind = "gain" /\ m.gain = out.gain
    BY <1>5 DEF Blank
  <1>10. Further(p, q, "gain", m)
    BY <1>1, <1>5, <1>6, <1>7, <1>9 DEF Further
  <1>11. Sent(p)' = 4
    BY <1>6, <1>10, FurtherPhases DEF PInv
  <1>12. /\ halo'[p].nodes = other.nodes /\ halo'[p].cand = other.cand /\ fm'[p] = out
         /\ \A x \in PE : x # p => halo'[x] = halo[x] /\ fm'[x] = fm[x]
    BY <1>3, <1>4 DEF PInv, Domains, LInv, IInv, Shapes
  <1>13. other.nodes = iface[q].nodes /\ other.cand = iface[q].cand
    BY <1>7, StageKinds DEF True
  <1>14. out.gain \in Int /\ out.toSecond \subseteq iface[p].cand \cup other.cand
    <2>1. /\ owned[p] \in SUBSET Node /\ other.nodes \in SUBSET Node
          /\ iface[p].cand \cup other.cand \in SUBSET Node
      BY <1>13 DEF PInv, LInv, IInv, Shapes, InterfaceLocal
    <2>2. /\ IsFiniteSet(owned[p]) /\ IsFiniteSet(other.nodes)
          /\ IsFiniteSet(iface[p].cand \cup other.cand)
      BY <2>1, NodeSetWeight
    <2>3. \A n, l \in Node : EdgeView(p)[n][l] \in Int
      BY GraphAssumption DEF EdgeView
    <2>4. \A n \in owned[p] \cup (iface[p].cand \cup other.cand),
             l \in other.nodes \cup (iface[p].cand \cup other.cand) : EdgeView(p)[n][l] \in Int
      BY <2>1, <2>3
    <2>5. QED
      BY <2>2, <2>4, OutcomeType
  <1>15. Result(p)'
    <2>1. Region(p)' = iface[p].cand \cup other.cand
      BY <1>1, <1>12 DEF Region
    <2>2. out.gain > 0 => Fits(p)'
      <3> SUFFICES ASSUME out.gain > 0 PROVE Fits(p)'
        OBVIOUS
      <3> DEFINE T == out.toSecond
                 shift == WeightOf(NodeWeight, T \ other.nodes)
                            - WeightOf(NodeWeight, ((iface[p].cand \cup other.cand)
                                                      \cap other.nodes) \ T)
      <3>1. /\ WeightOf(NodeWeight, owned[p]) - shift <= Capacity
            /\ otherWeight[p] + shift <= Capacity
        BY OutcomeFits
      <3>2. QED
        BY <1>1, <1>12, <2>1, <3>1 DEF Fits, Capacity
    <2>3. QED
      BY <1>12, <1>14, <2>1, <2>2 DEF Result
  <1>16. Known(p, q)'
    <2>1. otherWeight[p] = WeightOf(NodeWeight, owned[q])
      BY <1>6, <1>7 DEF Agree, Known
    <2>2. /\ otherWeight'[p] = WeightOf(NodeWeight, owned'[q]) /\ iface' = iface
          /\ halo'[p].nodes = iface[q].nodes /\ halo'[p].cand = iface[q].cand
      BY <1>1, <1>12, <1>13, <2>1
    <2>3. QED
      BY <1>11, <2>2 DEF Known
  <1>17. Domains' /\ Inner(p) /\ Honest(p, m)
    BY <1>1, <1>3, <1>6, <1>9, <1>12 DEF Inner, Honest, PInv, Domains
  <1>18. QED
    BY <1>8, <1>10, <1>15, <1>16, <1>17, FurtherStep

\* A process without a better assignment goes on only if its partner has none
\* either: neither of them changes its block.
LEMMA NoImprovementLeaves ==
  ASSUME PInv, NEW p \in PE, NoImprovement(p)
  PROVE  /\ Leaves(p) /\ EffBlock' = EffBlock /\ Sent(p) = 4
         /\ \A x \in PE : Same(p, x) => Sent(x) = 4 /\ fm[p].gain <= 0 /\ fm[x].gain <= 0
  <1>1. /\ pc[p] = "gain" /\ HasMessage(p) /\ NextRound(p) /\ chan' = Take(p)
        /\ fm[p].gain <= 0 /\ Received(p).gain <= 0
        /\ UNCHANGED <<start, owned>>
    BY DEF NoImprovement, NoneImproved
  <1>2. Sent(p) = 4
    BY <1>1 DEF Sent, Stage
  <1>3. PICK q \in PE :
           /\ q = Partner(p) /\ q # p /\ color[p] \in DOMAIN Scheme
           /\ Stage(Received(p).kind) = Sent(p)
           /\ Same(p, q) => /\ Same(q, p) /\ Sent(q) >= Sent(p)
                            /\ Agree(q, p) /\ True(Received(p), q)
    <2>1. pc[p] \notin {"round", "done"}
      BY <1>1
    <2>2. QED
      BY <1>1, <2>1, InRoundWith, Zenon
  <1>4. Same(p, q) => fm[q].gain <= 0
    BY <1>1, <1>2, <1>3, StageKinds DEF True
  <1>5. Same(p, q) => Sent(q) = 4
    <2> SUFFICES ASSUME Same(p, q) PROVE Sent(q) = 4
      OBVIOUS
    <2>1. Sent(q) >= 4 /\ Sent(q) \in 0 .. 5 /\ Known(q, p)
      BY <1>2, <1>3, StageType DEF Sent, Agree
    <2>2. fm[p].gain \in Int /\ fm[q].gain \in Int
      BY <1>2, <2>1 DEF PInv, Results, Result
    <2>3. Sent(q) # 5
      BY <1>1, <1>4, <2>1, <2>2 DEF Known
    <2>4. QED
      BY <2>1, <2>3
  <1>6. Leaves(p)
    BY <1>1, <1>2, <1>3, <1>5 DEF Leaves
  <1>7. \A x \in PE : Same(p, x) => x = q
    BY <1>3 DEF Same, Meet, Partner
  <1>8. EffBlock' = EffBlock
    <2>1. EffOwned(p)' = EffOwned(p)
      <3>1. pc'[p] = "round"
        BY <1>1 DEF NextRound, PInv, LInv, IInv, Shapes
      <3>2. QED
        BY <1>1, <3>1 DEF EffOwned
    <2>2. ASSUME NEW x \in PE, x # p PROVE EffOwned(x)' = EffOwned(x)
      <3>1. Same(p, x) => pc[x] # "result"
        BY <1>5, <1>7 DEF Sent, Stage
      <3>2. QED
        BY <1>1, <1>6, <2>2, <3>1, LeaveEff DEF PInv
    <2>3. QED
      BY <2>1, <2>2 DEF EffBlock
  <1>9. QED
    BY <1>1, <1>2, <1>4, <1>5, <1>6, <1>7, <1>8

\* The end of such a round keeps the invariant.
LEMMA NoImprovementKeeps ==
  ASSUME PInv, NEW p \in PE, NoImprovement(p)
  PROVE  PInv'
  <1>1. UNCHANGED <<start, owned>>
    BY DEF NoImprovement
  <1>2. /\ Leaves(p) /\ EffBlock' = EffBlock
        /\ \A x \in PE : Same(p, x) => fm[p].gain <= 0 /\ fm[x].gain <= 0
    BY NoImprovementLeaves
  <1>3. OneOwner' /\ OverloadNeverGrows'
    BY <1>1, <1>2, BlocksUnchanged DEF PInv
  <1>4. IInv'
    BY StepIInv DEF Step
  <1>5. QED
    BY <1>1, <1>2, <1>3, <1>4, LeaveStep

\* Results are sent only if one of the two gains is positive, and then by both.
LEMMA SwapResultKeeps ==
  ASSUME PInv, NEW p \in PE, SwapResult(p)
  PROVE  PInv'
  <1>1. /\ pc[p] = "gain" /\ HasMessage(p) /\ pc' = [pc EXCEPT ![p] = "result"]
        /\ ~ (fm[p].gain <= 0 /\ Received(p).gain <= 0)
        /\ otherGain' = [otherGain EXCEPT ![p] = Received(p).gain]
        /\ UNCHANGED <<start, owned, color, iface, otherWeight, halo, fm>>
    BY DEF SwapResult, NoneImproved
  <1>2. PICK m : /\ m = [Blank EXCEPT !.kind = "result", !.toSecond = fm[p].toSecond]
                 /\ chan' = TakeAndSend(p, m)
    BY DEF SwapResult
  <1>3. Sent(p) = 4 /\ Stage("result") = 5
    BY <1>1 DEF Sent, Stage
  <1>4. PICK q \in PE :
           /\ q = Partner(p) /\ q # p /\ Meet(p, q, color[p])
           /\ Received(p) = chan[<<q, p>>][1] /\ Stage(Received(p).kind) = Sent(p)
           /\ \/ Same(p, q) /\ Sent(q) >= Sent(p) /\ True(Received(p), q)
              \/ Behind(p, q)
           /\ Agree(p, q)
    <2>1. pc[p] \notin {"round", "done"}
      BY <1>1
    <2>2. QED
      BY <1>1, <2>1, InRoundWith, Zenon
  <1>5. ~ Behind(p, q)
    BY <1>1, <1>3, <1>4 DEF Agree, NoResultComes
  <1>6. Same(p, q) /\ Sent(q) >= 4 /\ True(Received(p), q)
    BY <1>3, <1>4, <1>5
  <1>7. IInv'
    BY StepIInv DEF Step
  <1>8. m.kind = "result" /\ m.toSecond = fm[p].toSecond
    BY <1>2 DEF Blank
  <1>9. Further(p, q, "result", m)
    BY <1>1, <1>2, <1>3, <1>4, <1>6, <1>8 DEF Further
  <1>10. Sent(p)' = 5
    BY <1>3, <1>9, FurtherPhases DEF PInv
  <1>11. Received(p).gain = fm[q].gain
    BY <1>3, <1>4, <1>6, StageKinds DEF True
  <1>12. fm[p].gain > 0 \/ fm[q].gain > 0
    <2>1. fm[p].gain \in Int /\ fm[q].gain \in Int
      BY <1>3, <1>6 DEF PInv, Results, Result
    <2>2. QED
      BY <1>1, <1>11, <2>1
  <1>13. Known(p, q)'
    <2>1. /\ otherWeight[p] = WeightOf(NodeWeight, owned[q])
          /\ halo[p].nodes = iface[q].nodes /\ halo[p].cand = iface[q].cand
      BY <1>3, <1>4, <1>6 DEF Agree, Known
    <2>2. otherGain'[p] = fm[q].gain
      BY <1>1, <1>11 DEF PInv, Domains
    <2>3. QED
      BY <1>1, <1>12, <2>1, <2>2 DEF Known
  <1>14. Result(p)'
    <2>1. Result(p)
      BY DEF PInv, Results
    <2>2. QED
      BY <1>1, <1>3, <2>1 DEF Result, Fits, Region, Capacity
  <1>15. Domains' /\ Inner(p) /\ Honest(p, m)
    BY <1>1, <1>3, <1>8 DEF Inner, Honest, PInv, Domains
  <1>16. QED
    BY <1>7, <1>9, <1>13, <1>14, <1>15, FurtherStep

\* A round without a partner changes nothing.
LEMMA IdleLeaves ==
  ASSUME PInv, NEW p \in PE, Idle(p)
  PROVE  Leaves(p) /\ (\A x \in PE : ~ Same(p, x)) /\ EffBlock' = EffBlock
  <1>1. /\ pc[p] = "round" /\ color[p] \in DOMAIN Scheme /\ Partner(p) = p
        /\ NextRound(p) /\ UNCHANGED <<start, owned, chan>>
    BY DEF Idle
  <1>2. Leaves(p)
    BY <1>1 DEF Leaves
  <1>3. \A x \in PE : ~ Same(p, x)
    BY <1>1 DEF Same, Meet, Partner
  <1>4. EffBlock' = EffBlock
    <2>1. EffOwned(p)' = EffOwned(p)
      <3>1. pc'[p] = "round"
        BY <1>1 DEF NextRound, PInv, LInv, IInv, Shapes
      <3>2. QED
        BY <1>1, <3>1 DEF EffOwned
    <2>2. ASSUME NEW x \in PE, x # p PROVE EffOwned(x)' = EffOwned(x)
      BY <1>1, <1>2, <1>3, <2>2, LeaveEff DEF PInv
    <2>3. QED
      BY <2>1, <2>2 DEF EffBlock
  <1>5. QED
    BY <1>2, <1>3, <1>4

\* Its end keeps the invariant.
LEMMA IdleKeeps ==
  ASSUME PInv, NEW p \in PE, Idle(p)
  PROVE  PInv'
  <1>1. UNCHANGED <<start, owned>>
    BY DEF Idle
  <1>2. Leaves(p) /\ (\A x \in PE : ~ Same(p, x)) /\ EffBlock' = EffBlock
    BY IdleLeaves
  <1>3. OneOwner' /\ OverloadNeverGrows'
    BY <1>1, <1>2, BlocksUnchanged DEF PInv
  <1>4. IInv'
    BY StepIInv DEF Step
  <1>5. QED
    BY <1>1, <1>2, <1>3, <1>4, LeaveStep

\* A process q left behind by p finds the assignment of p in its channel: for
\* the pair, the exchange is settled as soon as p has updated its block.
LEMMA LeftBehind ==
  ASSUME PInv, NEW p \in PE, NEW q \in PE, Leaves(p), Same(p, q), Sent(p) = 5, Sent(q) = 5,
         owned'[q] = owned[q]
  PROVE  EffOwned(q)' = NewLocal(q, fm[p].toSecond)
  <1>1. /\ Partner(p) = q /\ Partner(q) = p /\ p # q /\ Same(q, p)
        /\ color[p] = color[q] /\ color[q] \in Int /\ color[q] \in DOMAIN Scheme
    BY InRoundOwned, MeetSymmetric DEF Same, Meet, PInv, LInv, Types
  <1>2. color'[p] = color[p] + 1 /\ color'[q] = color[q]
        /\ chan'[<<p, q>>] = chan[<<p, q>>]
    BY <1>1, LeavesEffect DEF PInv
  <1>3. /\ iface'[q] = iface[q] /\ halo'[q] = halo[q] /\ fm'[q] = fm[q]
        /\ otherGain'[q] = otherGain[q] /\ pc'[q] = pc[q]
    BY <1>1 DEF Leaves, NextRound, PInv, Domains, LInv, IInv, Shapes
  <1>4. pc[q] = "result"
    BY DEF Sent, Stage
  <1>5. Partner(q)' = p
    BY <1>1, <1>2 DEF Partner
  <1>6. PartnerAhead(q)'
    <2>1. color[q] + 1 > color[q]
      BY <1>1
    <2>2. QED
      BY <1>1, <1>2, <1>5, <2>1 DEF PartnerAhead
  <1>7. Received(q)'.toSecond = fm[p].toSecond
    <2>1. /\ Len(chan[<<p, q>>]) = Sent(p) - Due(q) + 1 /\ Due(q) = 5
          /\ \A i \in 1 .. Len(chan[<<p, q>>]) : Stage(chan[<<p, q>>][i].kind) = Due(q) + i - 1
      <3>1. Link(q, p)
        BY <1>1 DEF PInv, LInv, Links
      <3>2. QED
        BY <1>1, <3>1 DEF Link, Due
    <2>2. Len(chan[<<p, q>>]) = 1
      BY <2>1
    <2>3. Stage(chan[<<p, q>>][1].kind) = 5
      BY <2>1, <2>2
    <2>4. True(chan[<<p, q>>][1], p)
      BY <1>1, <2>2 DEF PInv, Agreement, Agree
    <2>5. chan[<<p, q>>][1].toSecond = fm[p].toSecond
      BY <2>3, <2>4, StageKinds DEF True
    <2>6. Received(q)' = chan[<<p, q>>][1]
      BY <1>2, <1>5 DEF Received
    <2>7. QED
      BY <2>5, <2>6
  <1>8. PICK res : res = fm[p].toSecond
    OBVIOUS
  <1>9. NewLocal(q, res)' = NewLocal(q, res)
    BY <1>1, <1>2, <1>3, <1>5
       DEF NewLocal, Deleted, Added, FinalToSecond, OtherWasBetter, Region
  <1>10. EffOwned(q)' = NewLocal(q, res)'
    BY <1>3, <1>4, <1>6, <1>7, <1>8 DEF EffOwned
  <1>11. QED
    BY <1>8, <1>9, <1>10

\* p and q, the first of which updates its data, settle the exchange of d and a.
Settles(p, q, d, a) ==
  /\ EffOwned(p) = owned[p] /\ EffOwned(q) = owned[q]
  /\ EffOwned(p)' = (owned[p] \ d) \cup a
  /\ EffOwned(q)' = (owned[q] \ a) \cup d
  /\ \A x \in PE : x # p /\ x # q => EffOwned(x)' = EffOwned(x)

\* The first process of a pair to apply the result settles the exchange, the
\* second one only follows.
LEMMA ApplyResultLeaves ==
  ASSUME PInv, NEW p \in PE, ApplyResult(p)
  PROVE  /\ Leaves(p) /\ Sent(p) = 5 /\ \A x \in PE : x # p => owned'[x] = owned[x]
         /\ \/ PartnerAhead(p) /\ EffBlock' = EffBlock
            \/ \E q \in PE : /\ Same(p, q) /\ Same(q, p) /\ Sent(q) = 5 /\ p # q
                             /\ \A d, a : Settled(p, q, d, a) => Settles(p, q, d, a)
  <1>1. /\ pc[p] = "result" /\ HasMessage(p) /\ NextRound(p) /\ chan' = Take(p)
        /\ owned' = [owned EXCEPT ![p] = NewLocal(p, Received(p).toSecond)]
        /\ start' = start
    BY DEF ApplyResult
  <1>2. Sent(p) = 5
    BY <1>1 DEF Sent, Stage
  <1>3. PICK q \in PE :
           /\ q = Partner(p) /\ q # p /\ color[p] \in DOMAIN Scheme
           /\ Stage(Received(p).kind) = Sent(p)
           /\ \/ Same(p, q) /\ Same(q, p) /\ Sent(q) >= Sent(p) /\ True(Received(p), q)
              \/ Behind(p, q) /\ ~ Same(p, q)
    <2>1. pc[p] \notin {"round", "done"}
      BY <1>1
    <2>2. QED
      BY <1>1, <2>1, InRoundWith, Zenon
  <1>4. Same(p, q) => Sent(q) = 5
    BY <1>2, <1>3, StageType DEF Sent
  <1>5. Leaves(p)
    BY <1>1, <1>2, <1>3, <1>4 DEF Leaves
  <1>6. \A x \in PE : Same(p, x) => x = q
    BY <1>3 DEF Same, Meet, Partner
  <1>7. /\ owned'[p] = NewLocal(p, Received(p).toSecond)
        /\ \A x \in PE : x # p => owned'[x] = owned[x]
    BY <1>1 DEF PInv, LInv, IInv, Shapes
  <1>8. EffOwned(p)' = NewLocal(p, Received(p).toSecond)
    <2>1. pc'[p] = "round"
      BY <1>1 DEF NextRound, PInv, LInv, IInv, Shapes
    <2>2. QED
      BY <1>7, <2>1 DEF EffOwned
  <1>9. ASSUME NEW x \in PE, x # p, ~ Same(p, x) PROVE EffOwned(x)' = EffOwned(x)
    BY <1>5, <1>7, <1>9, LeaveEff DEF PInv
  <1>10. CASE ~ Same(p, q)
    <2>1. Behind(p, q) /\ PartnerAhead(p)
      BY <1>3, <1>10 DEF PartnerAhead, Behind
    <2>2. EffOwned(p) = NewLocal(p, Received(p).toSecond)
      BY <1>1, <1>3, <2>1 DEF EffOwned, PartnerAhead, Behind
    <2>3. EffBlock' = EffBlock
      <3>1. \A x \in PE : EffOwned(x)' = EffOwned(x)
        BY <1>6, <1>8, <1>9, <1>10, <2>2
      <3>2. QED
        BY <3>1 DEF EffBlock
    <2>4. QED
      BY <1>2, <1>5, <1>7, <2>1, <2>3
  <1>11. CASE Same(p, q)
    <2> SUFFICES ASSUME NEW d, NEW a, Settled(p, q, d, a) PROVE Settles(p, q, d, a)
      BY <1>2, <1>3, <1>4, <1>5, <1>7, <1>11
    <2>1. EffOwned(p) = owned[p] /\ EffOwned(q) = owned[q]
      BY <1>11, InRoundOwned DEF PInv
    <2>2. Received(p).toSecond = fm[q].toSecond
      BY <1>2, <1>3, <1>11, StageKinds DEF True
    <2>3. EffOwned(p)' = (owned[p] \ d) \cup a
      BY <1>8, <2>2 DEF NewLocal, Settled
    <2>4. EffOwned(q)' = (owned[q] \ a) \cup d
      <3>1. EffOwned(q)' = NewLocal(q, fm[p].toSecond)
        BY <1>2, <1>3, <1>4, <1>5, <1>7, <1>11, LeftBehind
      <3>2. QED
        BY <3>1 DEF NewLocal, Settled
    <2>5. \A x \in PE : x # p /\ x # q => EffOwned(x)' = EffOwned(x)
      BY <1>6, <1>9
    <2>6. QED
      BY <2>1, <2>3, <2>4, <2>5 DEF Settles
  <1>12. QED
    BY <1>10, <1>11

\* The exchange keeps the invariant.
LEMMA ApplyResultKeeps ==
  ASSUME PInv, NEW p \in PE, ApplyResult(p)
  PROVE  PInv'
  <1>1. /\ start' = start
        /\ Leaves(p) /\ Sent(p) = 5 /\ \A x \in PE : x # p => owned'[x] = owned[x]
        /\ \/ PartnerAhead(p) /\ EffBlock' = EffBlock
           \/ \E q \in PE : /\ Same(p, q) /\ Same(q, p) /\ Sent(q) = 5 /\ p # q
                            /\ \A d, a : Settled(p, q, d, a) => Settles(p, q, d, a)
    BY ApplyResultLeaves DEF ApplyResult
  <1>2. ASSUME NEW q \in PE, Same(p, q), Sent(q) = 5, p # q,
               \A d, a : Settled(p, q, d, a) => Settles(p, q, d, a)
        PROVE  OneOwner' /\ OverloadNeverGrows'
    <2>1. PICK d, a : Settled(p, q, d, a)
      BY <1>1, <1>2, PairSettles DEF PInv
    <2>2. Settles(p, q, d, a)
      BY <1>2, <2>1
    <2>3. OneOwner'
      <3>1. /\ d \subseteq EffOwned(p) /\ a \subseteq EffOwned(q)
            /\ EffOwned(p) \cap EffOwned(q) = {}
        BY <2>1, <2>2 DEF Settled, Settles
      <3>2. /\ EffOwned(p)' = (EffOwned(p) \ d) \cup a
            /\ EffOwned(q)' = (EffOwned(q) \ a) \cup d
            /\ \A x \in PE : x # p /\ x # q => EffOwned(x)' = EffOwned(x)
        BY <2>2 DEF Settles
      <3>3. QED
        BY <1>2, <3>1, <3>2, ExchangeOneOwner DEF PInv
    <2>4. OverloadNeverGrows'
      <3>1. ASSUME NEW x \in PE
            PROVE  \/ EffBlock'[x] = EffBlock[x]
                   \/ WeightOf(NodeWeight, EffBlock'[x]) <= Capacity
        <4>1. EffBlock'[x] = EffOwned(x)' /\ EffBlock[x] = EffOwned(x)
          BY DEF EffBlock
        <4>2. CASE x = p
          BY <2>1, <2>2, <4>1, <4>2 DEF Settled, Settles
        <4>3. CASE x = q
          BY <2>1, <2>2, <4>1, <4>3 DEF Settled, Settles
        <4>4. CASE x # p /\ x # q
          BY <2>2, <4>1, <4>4 DEF Settles
        <4>5. QED
          BY <4>2, <4>3, <4>4
      <3>2. QED
        BY <1>1, <3>1 DEF OverloadNeverGrows, StartBlock, Capacity, PInv
    <2>5. QED
      BY <2>3, <2>4
  <1>3. OneOwner' /\ OverloadNeverGrows'
    BY <1>1, <1>2, BlocksUnchanged DEF PInv
  <1>4. IInv'
    BY StepIInv DEF Step
  <1>5. QED
    BY <1>1, <1>3, <1>4, LeaveStep

\* After the last round all processes stop together.
LEMMA SynchronizeKeeps ==
  ASSUME PInv, Synchronize
  PROVE  PInv'
  <1>1. /\ \A x \in PE : pc[x] = "round" /\ color[x] = Len(Scheme) + 1
        /\ pc' = [x \in PE |-> "done"]
        /\ UNCHANGED <<start, owned, color, chan, iface, otherWeight, halo, otherGain, fm>>
    BY DEF Synchronize
  <1>2. \A x \in PE : Sent(x) = 0 /\ Sent(x)' = 0
    BY <1>1 DEF Sent, Stage
  <1>3. \A x \in PE : ~ (color[x] \in DOMAIN Scheme)
    BY <1>1, SchemeAssumption
  <1>4. IInv'
    BY NextIInv DEF PInv, LInv, Next
  <1>5. Types'
    BY <1>1 DEF PInv, LInv, Types, Kinds
  <1>6. \A x, y \in PE : /\ ~ Same(x, y) /\ ~ Behind(x, y) /\ ~ Early(x, y)
                         /\ ~ Same(x, y)' /\ ~ Behind(x, y)' /\ ~ Early(x, y)'
    BY <1>1, <1>3 DEF Same, Behind, Early, Meet
  <1>7. Links'
    <2> SUFFICES ASSUME NEW x \in PE, NEW y \in PE, x # y PROVE Link(x, y)'
      BY DEF Links
    <2>1. Link(x, y)
      BY DEF PInv, LInv, Links
    <2>2. QED
      BY <1>1, <1>6, <2>1 DEF Link, Pending, Meet
  <1>8. Agreement' /\ Results' /\ Domains'
    BY <1>1, <1>2, <1>6 DEF Agreement, Agree, Results, Result, PInv, Domains
  <1>9. OneOwner' /\ OverloadNeverGrows'
    <2>1. \A x \in PE : EffOwned(x)' = EffOwned(x)
      BY <1>1 DEF EffOwned
    <2>2. EffBlock' = EffBlock
      BY <2>1 DEF EffBlock
    <2>3. QED
      BY <1>1, <2>2, BlocksUnchanged DEF PInv
  <1>10. QED
    BY <1>4, <1>5, <1>7, <1>8, <1>9 DEF PInv, LInv

\* Nothing changes, and neither does the invariant.
LEMMA StutterKeeps ==
  ASSUME PInv, UNCHANGED vars
  PROVE  PInv'
  <1> USE DEF vars
  <1>1. IInv'
    BY NextIInv DEF PInv, LInv
  <1>2. Types' /\ Domains'
    BY DEF PInv, LInv, Types, Domains
  <1>3. \A x : Sent(x)' = Sent(x) /\ Due(x)' = Due(x)
    BY DEF Sent, Due
  <1>4. \A x, y : /\ (Same(x, y)' <=> Same(x, y)) /\ (Behind(x, y)' <=> Behind(x, y))
                  /\ (Early(x, y)' <=> Early(x, y))
    BY DEF Same, Behind, Early, Meet
  <1>5. Links'
    <2> SUFFICES ASSUME NEW x \in PE, NEW y \in PE, x # y PROVE Link(x, y)'
      BY DEF Links
    <2>1. Link(x, y)
      BY DEF PInv, LInv, Links
    <2>2. Pending(x, y)' = Pending(x, y)
      BY <1>3, <1>4 DEF Pending
    <2>3. QED
      BY <1>3, <1>4, <2>1, <2>2 DEF Link, Meet
  <1>6. Results'
    BY <1>3, ResultSame DEF PInv, Results
  <1>7. Agreement'
    <2>1. \A x, y \in PE : Agree(x, y) => Agree(x, y)'
      BY <1>3, <1>4 DEF Agree, Known, NoResultComes, True
    <2>2. QED
      BY <2>1 DEF PInv, Agreement
  <1>8. OneOwner' /\ OverloadNeverGrows'
    <2>1. \A x \in PE : EffOwned(x)' = EffOwned(x)
      BY DEF EffOwned, PartnerAhead, Partner, NewLocal, Deleted, Added, FinalToSecond,
             OtherWasBetter, Region, Received
    <2>2. EffBlock' = EffBlock
      BY <2>1 DEF EffBlock
    <2>3. QED
      BY <2>2, BlocksUnchanged DEF PInv
  <1>9. QED
    BY <1>1, <1>2, <1>5, <1>6, <1>7, <1>8 DEF PInv, LInv

\* At the start the settled blocks are those of the partition.
LEMMA InitPInv == Init => PInv
  <1> SUFFICES ASSUME Init PROVE PInv
    OBVIOUS
  <1>1. LInv
    BY InitLinks
  <1>2. \A x \in PE : pc[x] = "round" /\ Sent(x) = 0 /\ color[x] = 1
    BY DEF Init, Sent, Stage
  <1>3. Domains /\ Results
    BY <1>2 DEF Init, Domains, Results, Result
  <1>4. Agreement
    <2>1. \A x, y \in PE : chan[<<x, y>>] = <<>> /\ Len(<<>>) = 0
      BY DEF Init
    <2>2. \A x, y \in PE : Known(x, y) /\ NoResultComes(x, y)
      BY <1>2 DEF Known, NoResultComes
    <2>3. QED
      BY <2>1, <2>2 DEF Agreement, Agree
  <1>5. EffBlock = StartBlock
    <2>1. \A x \in PE : EffOwned(x) = owned[x]
      BY <1>2 DEF EffOwned
    <2>2. QED
      BY <2>1 DEF EffBlock, StartBlock, Init
  <1>6. OneOwner
    <2>1. start \in [Node -> PE]
      BY SettingsAssumption DEF Init
    <2>2. \A n \in Node : \A x \in PE : n \in EffBlock[x] <=> start[n] = x
      BY <1>5 DEF StartBlock
    <2>3. QED
      BY <2>1, <2>2 DEF OneOwner
  <1>7. OverloadNeverGrows
    <2> SUFFICES ASSUME NEW x \in PE
                 PROVE  WeightOf(NodeWeight, StartBlock[x]) <= WeightOf(NodeWeight, StartBlock[x])
      BY <1>5 DEF OverloadNeverGrows
    <2>1. WeightOf(NodeWeight, StartBlock[x]) \in Int
      BY NodeSetWeight DEF StartBlock
    <2>2. QED
      BY <2>1
  <1>8. QED
    BY <1>1, <1>3, <1>4, <1>6, <1>7 DEF PInv

\* Every step keeps the invariant.
LEMMA NextPInv == PInv /\ [Next]_vars => PInv'
  <1> SUFFICES ASSUME PInv, [Next]_vars PROVE PInv'
    OBVIOUS
  <1>1. ASSUME NEW p \in PE, Step(p) PROVE PInv'
    BY <1>1, IdleKeeps, SendBorderKeeps, SwapSizesKeeps, SwapHaloKeeps, RefineKeeps,
       NoImprovementKeeps, SwapResultKeeps, ApplyResultKeeps DEF Step
  <1>2. CASE Synchronize
    BY <1>2, SynchronizeKeeps
  <1>3. CASE Returned \/ UNCHANGED vars
    BY <1>3, StutterKeeps DEF Returned
  <1>4. QED
    BY <1>1, <1>2, <1>3 DEF Next

\* The invariant holds in every run.
LEMMA SpecPInv == Spec => []PInv
  BY InitPInv, NextPInv, PTL DEF Spec

\* Every node has exactly one owner at any time of a sweep, although the two
\* processes of a pair decide separately who keeps it.
THEOREM OwnershipStays == Spec => []OneOwner
  <1>1. PInv => OneOwner
    BY DEF PInv
  <1>2. QED
    BY <1>1, SpecPInv, PTL

\* No sweep lets a block grow above its capacity; a block that is too large
\* was at least that large at the start.
THEOREM OverloadStaysBounded == Spec => []OverloadNeverGrows
  <1>1. PInv => OverloadNeverGrows
    BY DEF PInv
  <1>2. QED
    BY <1>1, SpecPInv, PTL

\* ----- The messages.

\* Nobody sends to itself.
Selfless == \A p \in PE : chan[<<p, p>>] = <<>>

\* Every message goes to a partner that is another process.
LEMMA NextSelfless == PInv /\ Selfless /\ [Next]_vars => Selfless'
  <1> SUFFICES ASSUME PInv, Selfless, [Next]_vars PROVE Selfless'
    OBVIOUS
  <1>1. CASE UNCHANGED chan
    BY <1>1 DEF Selfless
  <1>2. ASSUME NEW p \in PE, Step(p), chan' # chan PROVE Selfless'
    <2>1. color[p] \in DOMAIN Scheme /\ Partner(p) # p
      <3>1. SendBorder(p) \/ pc[p] \notin {"round", "done"}
        BY <1>2 DEF Step, Idle, SwapSizes, SwapHalo, RefineAndSwapGain, NoImprovement,
                    SwapResult, ApplyResult
      <3>2. QED
        BY <3>1 DEF SendBorder, PInv, LInv, IInv, Shapes
    <2>2. \/ \E m : chan' = Send(p, m)
          \/ chan' = Take(p)
          \/ \E m : chan' = TakeAndSend(p, m)
      BY <1>2 DEF Step, Idle, SendBorder, SwapSizes, SwapHalo, RefineAndSwapGain,
                  NoImprovement, SwapResult, ApplyResult
    <2>3. IInv
      BY DEF PInv, LInv
    <2>4. CASE \E m : chan' = Send(p, m)
      BY <2>1, <2>3, <2>4, SendEffect DEF Selfless
    <2>5. CASE chan' = Take(p)
      BY <2>1, <2>3, <2>5, TakeEffect DEF Selfless
    <2>6. CASE \E m : chan' = TakeAndSend(p, m)
      <3>1. PICK m : chan' = TakeAndSend(p, m)
        BY <2>6
      <3>2. ASSUME NEW x \in PE PROVE chan'[<<x, x>>] = chan[<<x, x>>]
        <4>1. <<x, x>> # <<p, Partner(p)>> /\ <<x, x>> # <<Partner(p), p>>
          BY <2>1
        <4>2. QED
          BY <2>1, <2>3, <3>1, <4>1, TakeAndSendEffect
      <3>3. QED
        BY <3>2 DEF Selfless
    <2>7. QED
      BY <2>2, <2>4, <2>5, <2>6
  <1>3. QED
    BY <1>1, <1>2 DEF Next, Synchronize, Returned, vars

\* The first message in a channel belongs to the round the receiver is in, or
\* is the one that its sender has sent early.
LEMMA FirstExpected ==
  ASSUME PInv, Selfless
  PROVE  ExpectedMessage
  <1> SUFFICES ASSUME NEW p \in PE, NEW q \in PE, chan[<<q, p>>] # <<>>
               PROVE  \/ chan[<<q, p>>][1].kind = pc[p] /\ Partner(p) = q
                      \/ /\ chan[<<q, p>>][1].kind = "border" /\ Partner(q) = p
                         /\ \/ color[q] > color[p]
                            \/ color[q] = color[p] /\ pc[p] = "round"
    BY DEF ExpectedMessage
  <1> DEFINE s == chan[<<q, p>>]
  <1>1. p # q
    BY DEF Selfless
  <1>2. Link(p, q)
    BY <1>1 DEF PInv, LInv, Links
  <1>3. Len(s) \in Nat /\ Len(s) >= 1
    <2>1. IsSequence(s) /\ Len(s) \in Nat
      BY ChannelSequences DEF PInv, LInv
    <2> HIDE DEF s
    <2>2. QED
      BY <2>1, TailSequence DEF s
  <1>4. /\ color[p] \in Int /\ color[q] \in Int /\ Sent(p) \in 0 .. 5 /\ Sent(q) \in 0 .. 5
        /\ pc[p] \in Kinds
    BY StageType DEF PInv, LInv, Types, Sent
  <1>5. ASSUME Stage(s[1].kind) = Sent(p), Sent(p) # 0
        PROVE  s[1].kind = pc[p]
    BY <1>4, <1>5, StageKinds DEF Sent
  <1>6. CASE Same(p, q)
    <2>1. /\ Stage(s[1].kind) = Due(p) /\ Partner(p) = q /\ Partner(q) = p
          /\ color[q] = color[p] /\ color[p] \in DOMAIN Scheme
      <3>1. /\ Len(s) = Sent(q) - Due(p) + 1
            /\ \A i \in 1 .. Len(s) : Stage(s[i].kind) = Due(p) + i - 1
        BY <1>2, <1>6 DEF Link
      <3>2. Stage(s[1].kind) = Due(p) + 1 - 1 /\ Due(p) \in Int
        BY <1>3, <1>4, <3>1 DEF Due
      <3>3. QED
        BY <1>6, <3>2, MeetSymmetric DEF Same, Meet, Partner
    <2>2. CASE Sent(p) = 0
      <3>1. s[1].kind = "border"
        BY <2>1, <2>2, StageKinds DEF Due
      <3>2. pc[p] = "round"
        <4>1. pc[p] # "done"
          <5>1. color[p] # Len(Scheme) + 1
            BY <2>1, SchemeAssumption
          <5>2. QED
            BY <5>1 DEF PInv, LInv, Types
        <4>2. QED
          BY <1>4, <2>2, <4>1 DEF Kinds, Sent, Stage
      <3>3. QED
        BY <2>1, <3>1, <3>2
    <2>3. CASE Sent(p) # 0
      BY <1>5, <2>1, <2>3 DEF Due
    <2>4. QED
      BY <2>2, <2>3
  <1>7. CASE Behind(p, q)
    <2>1. Stage(s[1].kind) = Sent(p) /\ Sent(p) # 0
      BY <1>2, <1>7 DEF Link
    <2>2. Partner(p) = q
      BY <1>7 DEF Behind, Meet, Partner
    <2>3. QED
      BY <1>5, <2>1, <2>2
  <1>8. CASE ~ Same(p, q) /\ ~ Behind(p, q)
    <2>1. Early(q, p) /\ Len(s) = Sent(q)
      BY <1>2, <1>3, <1>8 DEF Link, Pending
    <2>2. Sent(q) = 1 /\ Stage(s[1].kind) = 1
      <3>1. Sent(q) \in {0, 1} /\ (Sent(q) = 1 => Stage(s[Len(s)].kind) = 1)
        BY <1>2, <2>1 DEF Link
      <3>2. QED
        BY <1>3, <2>1, <3>1
    <2>3. s[1].kind = "border"
      BY <2>2, StageKinds
    <2>4. Partner(q) = p /\ color[q] > color[p]
      BY <2>1 DEF Early, Meet, Partner
    <2>5. QED
      BY <2>3, <2>4
  <1>9. QED
    BY <1>6, <1>7, <1>8

\* The swaps carry no tag, yet no process ever takes a message for another one:
\* what comes first is what it waits for, or the border list of a later round.
THEOREM MessagesExpected == Spec => []ExpectedMessage
  <1>1. Init => Selfless
    BY DEF Init, Selfless
  <1>2. PInv /\ Selfless => ExpectedMessage
    BY FirstExpected
  <1>3. QED
    BY <1>1, <1>2, NextSelfless, SpecPInv, PTL DEF Spec

(***************************************************************************)
(* The sweep as a whole: the gains that the processes report add up to     *)
(* what the cut has lost, and a sweep is an implementation of              *)
(* PairwiseRefinement.                                                     *)
(*                                                                         *)
(* Three things have to hold of a pair for this.  Both count the edges     *)
(* between them alike.  The regions they exchange hold every node whose    *)
(* side matters: the local neighbours of all that may move (Searched) and  *)
(* the nodes at the partner's border (Offered), although the breadth-first *)
(* search may end early.  The gain on its way in the messages is what the  *)
(* cut between the two blocks loses by the moves (Worth), and each process *)
(* books the larger one of the two, once in a round (Recorded).            *)
(*                                                                         *)
(* Other pairs settle in between, but never touch the blocks of this one;  *)
(* and for an edge to a third block it is all the same on which side of    *)
(* the pair its other end lies (PairGain).                                 *)
(*                                                                         *)
(* The first of the three fails in a graph of mixed weights, where a       *)
(* process whose own rows hold no weight but 1 takes the rows it gets for  *)
(* unweighted too (EdgeView), and then the property fails as well;         *)
(* PlainEdges is what excludes it.  The refinement needs the gains: an     *)
(* abstract step of a pair that exchanges nodes lowers the cut.            *)
(***************************************************************************)

\* The edge weights are integers.
LEMMA EntriesInteger == \A n, m \in Node : EdgeWeight[n][m] \in Int
  BY GraphAssumption

\* The breadth-first search as a function of the number of rounds.
LEMMA LayerRounds ==
  ASSUME NEW own \in SUBSET Node, NEW first \in SUBSET Node
  PROVE  /\ Layer(own, first)[0] = first
         /\ \A r \in Nat : Layer(own, first)[r + 1] = Layer(own, first)[r]
              \cup (own \cap NeighborsOf(EdgeWeight, Layer(own, first)[r]))
         /\ \A r \in Nat : Layer(own, first)[r] \in SUBSET Node
  <1> DEFINE S == SUBSET Node
             G == [X \in S |-> X \cup (own \cap NeighborsOf(EdgeWeight, X))]
             Next1(h, r) == IF r = 0 THEN first
                            ELSE h[r - 1] \cup (own \cap NeighborsOf(EdgeWeight, h[r - 1]))
             IsLayer(h) == h = [r \in Nat |-> Next1(h, r)]
             f == CHOOSE h : IsLayer(h)
  <1>1. Layer(own, first) = f
    BY Zenon DEF Layer
  <1>2. G \in [S -> S] /\ first \in S
    OBVIOUS
  <1>3. PICK g \in [Nat -> S] : g[0] = first /\ \A k \in Nat : g[k + 1] = G[g[k]]
    <2> HIDE DEF G, S
    <2>1. QED
      BY <1>2, IterationExists DEF Repeats
  <1>4. IsLayer(g)
    <2>1. ASSUME NEW r \in Nat PROVE g[r] = Next1(g, r)
      <3>1. CASE r = 0
        BY <1>3, <3>1
      <3>2. CASE r # 0
        <4>1. r - 1 \in Nat /\ (r - 1) + 1 = r
          BY <3>2
        <4>2. g[r] = G[g[r - 1]] /\ g[r - 1] \in S
          BY <1>3, <4>1
        <4>3. G[g[r - 1]] = g[r - 1] \cup (own \cap NeighborsOf(EdgeWeight, g[r - 1]))
          BY <4>2
        <4>4. QED
          BY <3>2, <4>2, <4>3
      <3>3. QED
        BY <3>1, <3>2
    <2> HIDE DEF Next1
    <2>2. QED
      BY <1>3, <2>1
  <1>5. IsLayer(f)
    <2> HIDE DEF IsLayer
    <2>1. QED
      BY <1>4
  <1> HIDE DEF f
  <1>6. f[0] = first
    BY <1>5
  <1>7. ASSUME NEW r \in Nat
        PROVE  f[r + 1] = f[r] \cup (own \cap NeighborsOf(EdgeWeight, f[r]))
    <2>1. r + 1 \in Nat /\ r + 1 # 0 /\ (r + 1) - 1 = r
      OBVIOUS
    <2>2. f[r + 1] = Next1(f, r + 1)
      BY <1>5, <2>1, Zenon
    <2>3. QED
      BY <2>1, <2>2
  <1>8. \A r \in Nat : f[r] \in S
    <2> DEFINE B == {r \in Nat : f[r] \notin S}
    <2>1. SUFFICES ASSUME B # {} PROVE FALSE
      OBVIOUS
    <2>2. PICK r \in B : \A k \in B : r <= k
      <3>1. B \in SUBSET Nat
        OBVIOUS
      <3> HIDE DEF B
      <3>2. QED
        BY <2>1, <3>1, LeastNatural
    <2>3. r # 0 /\ r \in Nat
      BY <1>6
    <2>4. r - 1 \in Nat /\ ~ (r <= r - 1) /\ (r - 1) + 1 = r
      BY <2>3
    <2>5. f[r - 1] \in S
      BY <2>2, <2>4
    <2>6. f[r] \in S
      BY <1>7, <2>4, <2>5
    <2>7. QED
      BY <2>6
  <1>9. QED
    BY <1>1, <1>6, <1>7, <1>8

\* The search only adds nodes.
LEMMA LayerKeepsFirst ==
  ASSUME NEW own \in SUBSET Node, NEW first \in SUBSET Node, NEW r \in Nat
  PROVE  first \subseteq Layer(own, first)[r]
  <1> DEFINE f == Layer(own, first)
             B == {k \in Nat : ~ (first \subseteq f[k])}
  <1>1. SUFFICES ASSUME B # {} PROVE FALSE
    OBVIOUS
  <1>2. PICK k \in B : \A j \in B : k <= j
    <2>1. B \in SUBSET Nat
      OBVIOUS
    <2> HIDE DEF B
    <2>2. QED
      BY <1>1, <2>1, LeastNatural
  <1>3. /\ f[0] = first
        /\ \A j \in Nat : f[j + 1] = f[j] \cup (own \cap NeighborsOf(EdgeWeight, f[j]))
    BY LayerRounds
  <1> HIDE DEF f
  <1>4. k # 0 /\ k \in Nat
    BY <1>3
  <1>5. k - 1 \in Nat /\ ~ (k <= k - 1) /\ (k - 1) + 1 = k
    BY <1>4
  <1>6. first \subseteq f[k - 1]
    BY <1>2, <1>5
  <1>7. QED
    BY <1>3, <1>5, <1>6

\* The search has found few nodes, or none in round r.
SearchedEnough(own, first, few, r) ==
  LET found == Layer(own, first)
  IN  \/ Cardinality(found[r]) >= few
      \/ found[r] = IF r = 0 THEN {} ELSE found[r - 1]

\* The search ends after at most as many rounds as there are nodes, because a
\* round without a new node is the last one.
LEMMA SearchEnds ==
  ASSUME NEW own \in SUBSET Node, NEW first \in SUBSET Node, NEW few
  PROVE  \E r \in 0 .. Cardinality(Node) :
           /\ SearchedEnough(own, first, few, r)
           /\ \A s \in 0 .. (r - 1) : ~ SearchedEnough(own, first, few, s)
  <1> DEFINE found == Layer(own, first)
             Stops(r) == found[r] = IF r = 0 THEN {} ELSE found[r - 1]
             Enough(r) == Cardinality(found[r]) >= few \/ Stops(r)
             N == Cardinality(Node)
  <1>1. IsFiniteSet(Node) /\ N \in Nat
    BY GraphAssumption, FS_CardinalityType
  <1>2. /\ found[0] = first
        /\ \A j \in Nat : found[j + 1] = found[j] \cup (own \cap NeighborsOf(EdgeWeight, found[j]))
        /\ \A r \in Nat : found[r] \in SUBSET Node
    BY LayerRounds
  <1> HIDE DEF found, N
  <1>3. \E r \in 0 .. N : Stops(r)
    <2> SUFFICES ASSUME \A r \in 0 .. N : ~ Stops(r) PROVE FALSE
      OBVIOUS
    <2> DEFINE Large(r) == Cardinality(found[r]) >= r + 1
               B == {r \in 0 .. N : ~ Large(r)}
    <2>1. \A r \in Nat : IsFiniteSet(found[r]) /\ Cardinality(found[r]) \in Nat
                         /\ Cardinality(found[r]) <= N
      BY <1>1, <1>2, FS_Subset, FS_CardinalityType DEF N
    <2>2. N \in B
      BY <1>1, <2>1
    <2>3. PICK r \in B : \A k \in B : r <= k
      <3>1. B \in SUBSET Nat /\ B # {}
        BY <1>1, <2>2
      <3> HIDE DEF B
      <3>2. QED
        BY <3>1, LeastNatural
    <2>4. r \in Nat /\ ~ Stops(r) /\ ~ Large(r) /\ r <= N
      BY <1>1
    <2>5. CASE r = 0
      <3>1. found[0] # {}
        BY <2>4, <2>5
      <3>2. Cardinality(found[0]) # 0
        BY <2>1, <3>1, FS_EmptySet
      <3>3. QED
        BY <2>1, <2>4, <2>5, <3>2
    <2>6. CASE r # 0
      <3>1. r - 1 \in Nat /\ ~ (r <= r - 1) /\ (r - 1) + 1 = r /\ r - 1 \in 0 .. N
        BY <1>1, <2>4, <2>6
      <3>2. Large(r - 1)
        BY <2>3, <3>1
      <3>3. found[r] # found[r - 1]
        BY <2>4, <2>6
      <3>4. found[r - 1] \subseteq found[r]
        BY <1>2, <3>1
      <3>5. Cardinality(found[r - 1]) < Cardinality(found[r])
        <4>1. /\ Cardinality(found[r - 1]) <= Cardinality(found[r])
              /\ Cardinality(found[r]) # Cardinality(found[r - 1])
          BY <2>1, <2>4, <3>3, <3>4, FS_Subset
        <4>2. QED
          BY <2>1, <2>4, <3>1, <4>1
      <3>6. QED
        BY <2>1, <2>4, <3>1, <3>2, <3>5
    <2>7. QED
      BY <2>5, <2>6
  <1> DEFINE C == {r \in 0 .. N : Enough(r)}
  <1>4. PICK r \in C : \A k \in C : r <= k
    <2>1. C \in SUBSET Nat /\ C # {}
      BY <1>1, <1>3
    <2> HIDE DEF C
    <2>2. QED
      BY <2>1, LeastNatural
  <1>5. \A s \in 0 .. (r - 1) : s \in 0 .. N /\ ~ (r <= s)
    BY <1>1
  <1>6. \A s \in 0 .. (r - 1) : ~ Enough(s)
    <2> HIDE DEF Enough
    <2>1. QED
      BY <1>4, <1>5
  <1>7. QED
    BY <1>6 DEF found, N, SearchedEnough

\* What getInterfaceNodes promises: all neighbours of a candidate are in the region,
\* and so is every border node with a neighbour on the partner's border.
LEMMA InterfacePromise ==
  ASSUME NEW own \in SUBSET Node, NEW ownBorder \in SUBSET own, NEW foreign, NEW few,
         NEW found, found = InterfaceNodes(own, ownBorder, foreign, few)
  PROVE  /\ \A n \in found.cand : Neighbors(EdgeWeight, n) \cap own \subseteq found.nodes
         /\ BorderToPartner(ownBorder, foreign) \subseteq found.nodes
  <1> DEFINE first == BorderToPartner(ownBorder, foreign)
             f == Layer(own, first)
             Enough(r) == \/ Cardinality(f[r]) >= few
                          \/ f[r] = IF r = 0 THEN {} ELSE f[r - 1]
             Last(r) == Enough(r) /\ \A s \in 0 .. (r - 1) : ~ Enough(s)
             last == CHOOSE r \in 0 .. Cardinality(Node) : Last(r)
             nodes == own \cap f[last + 1]
  <1>1. first \in SUBSET Node /\ first \subseteq own
    BY DEF BorderToPartner
  <1>2. found = [nodes |-> nodes, cand |-> nodes \cap f[last]]
    BY Zenon DEF InterfaceNodes
  <1> HIDE DEF first
  <1>3. \E r \in 0 .. Cardinality(Node) : Last(r)
    <2>1. first \in SUBSET Node
      BY <1>1
    <2>2. \E r \in 0 .. Cardinality(Node) :
            /\ SearchedEnough(own, first, few, r)
            /\ \A s \in 0 .. (r - 1) : ~ SearchedEnough(own, first, few, s)
      BY <2>1, SearchEnds
    <2>3. QED
      BY <2>2 DEF SearchedEnough
  <1>4. last \in Nat
    <2>1. last \in 0 .. Cardinality(Node)
      <3> HIDE DEF Last
      <3>1. QED
        BY <1>3
    <2> HIDE DEF last
    <2>2. QED
      BY <2>1
  <1> HIDE DEF last
  <1>5. f[last + 1] = f[last] \cup (own \cap NeighborsOf(EdgeWeight, f[last]))
    <2>1. \A r \in Nat : f[r + 1] = f[r] \cup (own \cap NeighborsOf(EdgeWeight, f[r]))
      BY <1>1, LayerRounds
    <2> HIDE DEF f
    <2>2. QED
      BY <1>4, <2>1
  <1>6. first \subseteq f[last + 1]
    BY <1>1, <1>4, LayerKeepsFirst
  <1> HIDE DEF f
  <1>7. found.nodes = nodes /\ found.cand = nodes \cap f[last]
    BY <1>2
  <1>8. \A n \in found.cand : Neighbors(EdgeWeight, n) \cap own \subseteq found.nodes
    BY <1>5, <1>7 DEF NeighborsOf
  <1>9. QED
    BY <1>1, <1>6, <1>7, <1>8 DEF first

\* Every border list on its way is the one its sender still has.
BordersTrue ==
  \A p, q \in PE : p # q =>
    \A i \in 1 .. Len(chan[<<q, p>>]) :
      chan[<<q, p>>][i].kind = "border" => chan[<<q, p>>][i].nodes = border[q]

\* All local neighbours of the nodes that may move are in the region.
Searched(p) ==
  Sent(p) >= 2 =>
    \A n \in iface[p].cand : Neighbors(EdgeWeight, n) \cap owned[p] \subseteq iface[p].nodes

\* All nodes with a neighbour in the block of q are in the region.
Offered(p, q) ==
  Same(p, q) /\ Sent(p) >= 2 =>
    \A n \in owned[p] : Neighbors(EdgeWeight, n) \cap owned[q] # {} => n \in iface[p].nodes

\* The gain p reports is the one its assignment has, as far as p can see.
Worth(p) ==
  LET F == owned[p]
      S == halo[p].nodes
      T == fm[p].toSecond
  IN  Sent(p) >= 4 =>
        fm[p].gain = CutBetween(EdgeWeight, F, S)
          - CutBetween(EdgeWeight, (F \cup Region(p)) \ T, (S \ Region(p)) \cup T)

\* gainPerRound: nothing yet for this round before the results are swapped.
Recorded(p) ==
  \A r \in DOMAIN Scheme :
    /\ gains[p][r] \in Int
    /\ r > color[p] \/ (r = color[p] /\ Sent(p) < 5) => gains[p][r] = 0
    /\ r = color[p] /\ Sent(p) = 5 => gains[p][r] = Max({fm[p].gain, otherGain[p]})

Regions == \A p \in PE : Searched(p) /\ \A q \in PE : Offered(p, q)

Gains == gains \in [PE -> [DOMAIN Scheme -> Int]] /\ \A p \in PE : Worth(p) /\ Recorded(p)

GInv == PInv /\ BordersTrue /\ Regions /\ Gains /\ CutAccounting

\* The gain of the better result is what the cut between the two blocks really
\* loses, although p sees only a part of its partner's block.
LEMMA WinnerCut ==
  ASSUME PInv, Regions, NEW p \in PE, NEW q \in PE, Worth(p),
         Same(p, q), Same(q, p), Sent(p) = 5, Sent(q) = 5,
         NEW d, d = iface[p].cand \cap fm[p].toSecond,
         NEW a, a = halo[p].cand \ fm[p].toSecond
  PROVE  /\ CutBetween(EdgeWeight, owned[p], owned[q])
              - CutBetween(EdgeWeight, (owned[p] \ d) \cup a, (owned[q] \ a) \cup d)
              = fm[p].gain
         /\ fm[p].gain \in Int
  <1> DEFINE F == owned[p]
             S == iface[q].nodes
             R == owned[q] \ S
             ip == iface[p].cand
             iq == iface[q].cand
             T == fm[p].toSecond
             G == (F \ d) \cup a
             V == (S \ a) \cup d
             w == EdgeWeight
  <1>1. /\ owned[p] \cap owned[q] = {} /\ p # q
    BY InRoundOwned DEF PInv
  <1>2. halo[p].nodes = S /\ halo[p].cand = iq
    <2>1. Agree(p, q)
      BY <1>1 DEF PInv, Agreement
    <2>2. QED
      BY <2>1 DEF Agree, Known
  <1>3. /\ T \subseteq ip \cup iq /\ ip \subseteq F /\ iq \subseteq S /\ S \subseteq owned[q]
        /\ F \subseteq Node /\ owned[q] \subseteq Node
    <2>1. T \subseteq ip \cup iq
      BY <1>2 DEF PInv, Results, Result, Region
    <2>2. /\ ip \subseteq F /\ iq \subseteq S /\ S \subseteq owned[q]
      BY DEF PInv, LInv, IInv, InterfaceLocal
    <2>3. owned[p] \subseteq Node /\ owned[q] \subseteq Node
      BY DEF PInv, LInv, IInv, Shapes
    <2>4. QED
      BY <2>1, <2>2, <2>3
  <1>4. fm[p].gain = CutBetween(w, F, S)
          - CutBetween(w, (F \cup (ip \cup iq)) \ T, (S \ (ip \cup iq)) \cup T)
    <2>1. Region(p) = ip \cup iq
      BY <1>2 DEF Region
    <2>2. QED
      BY <1>2, <2>1 DEF Worth
  <1>5. d = ip \cap T /\ a = iq \ T /\ F \cap owned[q] = {}
    BY <1>1, <1>2
  <1>6. /\ \A n \in ip, m \in R : w[n][m] = 0
        /\ \A n \in iq, m \in R : w[n][m] = 0
    <2>1. \A n, m \in Node : w[n][m] \in Nat /\ w[n][m] = w[m][n] /\ DOMAIN w = Node
      BY GraphAssumption
    <2>2. ASSUME NEW n \in ip, NEW m \in R PROVE w[n][m] = 0
      <3>1. n \in Node /\ m \in Node /\ m # n /\ m \in owned[q] /\ n \in owned[p] /\ m \notin S
        BY <1>3, <1>5
      <3>2. SUFFICES ASSUME w[m][n] > 0 PROVE FALSE
        BY <2>1, <3>1
      <3>3. n \in Neighbors(w, m) \cap owned[p]
        BY <2>1, <3>1, <3>2 DEF Neighbors
      <3>4. Offered(q, p)
        BY DEF Regions
      <3>5. m \in S
        BY <3>1, <3>3, <3>4 DEF Offered
      <3>6. QED
        BY <3>1, <3>5
    <2>3. ASSUME NEW n \in iq, NEW m \in R PROVE w[n][m] = 0
      <3>1. n \in Node /\ m \in Node /\ m # n /\ m \in owned[q] /\ m \notin S
        BY <1>3
      <3>2. SUFFICES ASSUME w[n][m] > 0 PROVE FALSE
        BY <2>1, <3>1
      <3>3. m \in Neighbors(w, n) \cap owned[q]
        BY <2>1, <3>1, <3>2 DEF Neighbors
      <3>4. Searched(q)
        BY DEF Regions
      <3>5. m \in S
        BY <3>3, <3>4 DEF Searched
      <3>6. QED
        BY <3>1, <3>5
    <2>4. QED
      BY <2>2, <2>3
  <1>7. (F \cup (ip \cup iq)) \ T = G /\ (S \ (ip \cup iq)) \cup T = V
    <2> HIDE DEF F, S, ip, iq, T
    <2>1. QED
      BY <1>3, <1>5
  <1>8. /\ owned[q] = S \cup R /\ (owned[q] \ a) \cup d = V \cup R
        /\ G \cup V = F \cup S /\ G \cap V = {}
        /\ F \cap R = {} /\ S \cap R = {} /\ F \cap S = {}
        /\ F \in SUBSET Node /\ S \in SUBSET Node /\ R \in SUBSET Node
        /\ G \in SUBSET Node /\ V \in SUBSET Node
        /\ F \ G \subseteq ip \cup iq /\ G \ F \subseteq ip \cup iq
    <2> HIDE DEF F, S, ip, iq, T
    <2>1. QED
      BY <1>3, <1>5
  <1>9. /\ IsFiniteSet(Node)
        /\ \A n, m \in Node : w[n][m] \in Nat /\ w[n][m] = w[m][n]
    BY GraphAssumption
  <1>10. NoEdges(w, F \ G, R) /\ NoEdges(w, G \ F, R)
    BY <1>6, <1>8 DEF NoEdges
  <1> HIDE DEF F, S, R, ip, iq, T, G, V, w
  <1>11. /\ CutBetween(w, F, S \cup R) - CutBetween(w, G, V \cup R)
              = CutBetween(w, F, S) - CutBetween(w, G, V)
         /\ CutBetween(w, F, S) \in Int /\ CutBetween(w, G, V) \in Int
    BY <1>8, <1>9, <1>10, CutBeyond
  <1>12. fm[p].gain = CutBetween(w, F, S) - CutBetween(w, G, V)
    BY <1>4, <1>7
  <1>13. CutBetween(w, F, owned[q]) - CutBetween(w, G, (owned[q] \ a) \cup d)
           = CutBetween(w, F, S \cup R) - CutBetween(w, G, V \cup R)
    BY <1>8, Zenon
  <1>14. QED
    BY <1>11, <1>12, <1>13 DEF F, G, w

EffGains == [x \in PE \X DOMAIN Scheme |-> EffGain(x[1], x[2])]

\* All gains of all processes.
LEMMA GainSumIsSum ==
  /\ IsFiniteSet(PE \X DOMAIN Scheme)
  /\ GainSum = Sum(EffGains, PE \X DOMAIN Scheme)
  <1> DEFINE D == PE \X DOMAIN Scheme
             f == EffGains
             Gain(x) == EffGain(x[1], x[2])
             Gained(h) == h = [t \in SUBSET D |->
               IF t = {} THEN 0
               ELSE Gain(CHOOSE x \in t : TRUE) + h[t \ {CHOOSE x \in t : TRUE}]]
             k == CHOOSE h : Gained(h)
  <1>0. IsFiniteSet(D)
    <2>1. IsFiniteSet(PE)
      BY PEAssumption, FS_Interval DEF PE
    <2>2. DOMAIN Scheme = 1 .. Len(Scheme) /\ Len(Scheme) \in Nat
      BY SchemeAssumption
    <2>3. IsFiniteSet(DOMAIN Scheme)
      BY <2>2, FS_Interval
    <2>4. QED
      BY <2>1, <2>3, FS_Product
  <1>1. GainSum = k[D]
    BY Zenon DEF GainSum, MapThenSumSet, MapThenFoldSet
  <1>2. \A h : Gained(h) <=> Sums(h, f, D)
    <2>1. \A t \in SUBSET D : t # {} => f[Pick(t)] = Gain(CHOOSE x \in t : TRUE)
      <3> SUFFICES ASSUME NEW t \in SUBSET D, t # {}
                   PROVE  f[Pick(t)] = Gain(Pick(t))
        BY DEF Pick
      <3>1. Pick(t) \in D
        BY PickIn
      <3>2. QED
        BY <3>1 DEF EffGains
    <2> SUFFICES ASSUME NEW h
                 PROVE  Gained(h) <=> Sums(h, f, D)
      OBVIOUS
    <2> DEFINE Value(t) == IF t = {} THEN 0
                 ELSE Gain(CHOOSE x \in t : TRUE) + h[t \ {CHOOSE x \in t : TRUE}]
               Other(t) == IF t = {} THEN 0 ELSE f[Pick(t)] + h[t \ {Pick(t)}]
    <2>2. \A t \in SUBSET D : Value(t) = Other(t)
      <3> HIDE DEF f, Gain
      <3>1. QED
        BY <2>1 DEF Pick
    <2>3. Gained(h) <=> h = [t \in SUBSET D |-> Value(t)]
      OBVIOUS
    <2>4. Sums(h, f, D) <=> h = [t \in SUBSET D |-> Other(t)]
      BY DEF Sums
    <2> HIDE DEF Value, Other, Gained, Gain, f
    <2>5. [t \in SUBSET D |-> Value(t)] = [t \in SUBSET D |-> Other(t)]
      BY <2>2
    <2>6. QED
      BY <2>3, <2>4, <2>5
  <1> HIDE DEF Gained, f
  <1>3. \E h : Gained(h)
    <2> HIDE DEF D
    <2>1. QED
      BY <1>0, <1>2, SumsExist
  <1>4. Sums(k, f, D)
    BY <1>2, <1>3
  <1>5. k[D] = Sum(f, D)
    <2> DEFINE j == CHOOSE h : Sums(h, f, D)
    <2>1. Sums(j, f, D)
      BY <1>4
    <2>2. Sum(f, D) = j[D] /\ D \in SUBSET D
      BY DEF Sum
    <2> HIDE DEF j, k, D
    <2>3. QED
      BY <1>0, <1>4, <2>1, <2>2, SumsUnique
  <1>6. QED
    BY <1>0, <1>1, <1>5 DEF f

\* If no gain counts anew, the sum stays.
LEMMA GainSumSame ==
  ASSUME \A x \in PE, r \in DOMAIN Scheme : EffGain(x, r)' = EffGain(x, r)
  PROVE  GainSum' = GainSum
  <1>1. EffGains' = EffGains
    BY DEF EffGains
  <1>2. (GainSum = Sum(EffGains, PE \X DOMAIN Scheme))'
    BY GainSumIsSum, PTL
  <1>3. QED
    BY <1>1, <1>2, GainSumIsSum

\* If the gains of two processes count anew for a round, the sum grows by both.
LEMMA GainSumTwo ==
  ASSUME NEW p \in PE, NEW q \in PE, p # q, NEW c \in DOMAIN Scheme,
         \A x \in PE, r \in DOMAIN Scheme : EffGain(x, r) \in Int /\ EffGain(x, r)' \in Int,
         \A x \in PE, r \in DOMAIN Scheme :
           ~ (r = c /\ x \in {p, q}) => EffGain(x, r)' = EffGain(x, r),
         EffGain(p, c) = 0, EffGain(q, c) = 0
  PROVE  GainSum' = GainSum + EffGain(p, c)' + EffGain(q, c)'
         /\ GainSum \in Int
  <1> DEFINE D == PE \X DOMAIN Scheme
             f == EffGains
             g == EffGains'
             y == <<p, c>>
             z == <<q, c>>
  <1>1. GainSum' = Sum(g, D) /\ GainSum = Sum(f, D) /\ IsFiniteSet(D)
    <2>1. (GainSum = Sum(EffGains, PE \X DOMAIN Scheme))'
      BY GainSumIsSum, PTL
    <2>2. QED
      BY <2>1, GainSumIsSum
  <1>2. \A x \in D : x[1] \in PE /\ x[2] \in DOMAIN Scheme
                     /\ f[x] = EffGain(x[1], x[2]) /\ g[x] = EffGain(x[1], x[2])'
    BY DEF EffGains
  <1>3. y \in D /\ z \in D /\ y # z
    OBVIOUS
  <1>4. \A x \in D : f[x] \in Int /\ g[x] \in Int
    <2> HIDE DEF f, g
    <2>1. QED
      BY <1>2
  <1>5. \A x \in D : x # y /\ x # z => g[x] = f[x]
    <2> SUFFICES ASSUME NEW x \in D, x # y, x # z PROVE g[x] = f[x]
      OBVIOUS
    <2>1. ~ (x[2] = c /\ x[1] \in {p, q})
      OBVIOUS
    <2> HIDE DEF f, g
    <2>2. QED
      BY <1>2, <2>1
  <1>6. f[y] = 0 /\ f[z] = 0 /\ g[y] = EffGain(p, c)' /\ g[z] = EffGain(q, c)'
    BY <1>3 DEF EffGains
  <1> HIDE DEF f, g, y, z, D
  <1>7. Sum(g, D) = Sum(f, D) + (g[y] - f[y]) + (g[z] - f[z]) /\ Sum(f, D) \in Int
    <2>1. PICK h, k : h = f /\ k = g
      OBVIOUS
    <2>2. \A x \in D : h[x] \in Int /\ k[x] \in Int
      BY <1>4, <2>1
    <2>3. \A x \in D : x # y /\ x # z => k[x] = h[x]
      BY <1>5, <2>1
    <2>4. IsFiniteSet(D) /\ y \in D /\ z \in D /\ y # z
      BY <1>1, <1>3
    <2>5. Sum(k, D) = Sum(h, D) + (k[y] - h[y]) + (k[z] - h[z]) /\ Sum(h, D) \in Int
      BY ONLY <2>2, <2>3, <2>4, SumChangeTwo
    <2>6. QED
      BY <2>1, <2>5
  <1>8. QED
    BY <1>1, <1>3, <1>4, <1>6, <1>7

\* ----- The gains that count.

GainTypes == gains \in [PE -> [DOMAIN Scheme -> Int]]

LEMMA EffGainType ==
  ASSUME GainTypes
  PROVE  \A x \in PE, r \in DOMAIN Scheme : EffGain(x, r) \in Int
  BY DEF GainTypes, EffGain

\* Inside a round no gain counts yet.
LEMMA FurtherGain ==
  ASSUME LInv, NEW p \in PE, NEW q \in PE, color' = color,
         \A x \in PE, r \in DOMAIN Scheme :
           x # p \/ r # color[p] => gains'[x][r] = gains[x][r],
         gains' = gains \/ Same(p, q)
  PROVE  GainSum' = GainSum
  <1>1. ASSUME NEW x \in PE, NEW r \in DOMAIN Scheme PROVE EffGain(x, r)' = EffGain(x, r)
    <2>1. PartnerAhead(x)' <=> PartnerAhead(x)
      BY DEF PartnerAhead, Partner
    <2>2. CASE gains'[x][r] = gains[x][r]
      BY <2>1, <2>2 DEF EffGain
    <2>3. CASE gains'[x][r] # gains[x][r]
      <3>1. x = p /\ r = color[p] /\ Same(p, q)
        BY <2>3
      <3>2. ~ PartnerAhead(p) /\ color[p] \in Int /\ ~ (color[p] > r)
        BY <3>1 DEF PartnerAhead, Same, Meet, Partner, LInv, Types
      <3>3. QED
        BY <2>1, <3>1, <3>2 DEF EffGain
    <2>4. QED
      BY <2>2, <2>3
  <1>2. QED
    BY <1>1, GainSumSame

\* When p leaves a round, only the gains of this round may begin to count, for p and
\* for a partner that is still in it.
LEMMA LeaveGain ==
  ASSUME LInv, NEW p \in PE, Leaves(p), gains' = gains,
         NEW x \in PE, NEW r \in DOMAIN Scheme,
         ~ (r = color[p] /\ (x = p \/ Same(p, x)))
  PROVE  EffGain(x, r)' = EffGain(x, r)
  <1>1. /\ color'[p] = color[p] + 1 /\ color[p] \in Int /\ color[x] \in Int /\ r \in Int
        /\ \A y \in PE : y # p => color'[y] = color[y]
        /\ \A y \in PE : color[y] \in Int
    <2>1. DOMAIN Scheme \subseteq Int
      BY SchemeAssumption
    <2>2. QED
      BY <2>1, LeavesEffect DEF LInv, Types
  <1>2. CASE x = p
    <2>1. r # color[p]
      BY <1>2
    <2>2. CASE r < color[p]
      BY <1>1, <1>2, <2>2 DEF EffGain
    <2>3. CASE r > color[p]
      <3>1. ~ (color[p] = r) /\ ~ (color[p] > r)
        BY <1>1, <2>3
      <3>2. ~ (color'[p] > r)
        BY <1>1, <2>3
      <3>3. ~ (color'[p] = r /\ PartnerAhead(p)')
        <4> SUFFICES ASSUME color'[p] = r, PartnerAhead(p)' PROVE FALSE
          OBVIOUS
        <4> DEFINE y == Scheme[r][p]
        <4>1. y \in PE /\ color'[y] > r
          BY SchemeAssumption DEF PartnerAhead, Partner
        <4>2. y # p /\ color[y] > r
          BY <1>1, <4>1
        <4>3. Meet(y, p, r)
          BY <4>1, <4>2, SchemeAssumption DEF Meet
        <4>4. Link(y, p)
          BY <4>1, <4>2 DEF LInv, Links
        <4>5. color[p] >= r
          BY <4>2, <4>3, <4>4 DEF Link
        <4>6. QED
          BY <1>1, <2>3, <4>5
      <3>4. QED
        BY <1>2, <3>1, <3>2, <3>3 DEF EffGain
    <2>4. QED
      BY <1>1, <2>1, <2>2, <2>3
  <1>3. CASE x # p
    <2>1. color'[x] = color[x]
      BY <1>1, <1>3
    <2>2. color[x] = r => (PartnerAhead(x)' <=> PartnerAhead(x))
      <3> SUFFICES ASSUME color[x] = r PROVE PartnerAhead(x)' <=> PartnerAhead(x)
        OBVIOUS
      <3> DEFINE y == Scheme[r][x]
      <3>1. y \in PE /\ Partner(x) = y /\ Partner(x)' = y
        BY <2>1, SchemeAssumption DEF Partner
      <3>2. CASE y # p
        BY <1>1, <2>1, <3>1, <3>2 DEF PartnerAhead
      <3>3. CASE y = p
        <4>1. Meet(p, x, r)
          BY <1>3, <3>1, <3>3, SchemeAssumption DEF Meet
        <4>2. color[p] # r
          BY <4>1 DEF Same
        <4>3. color[p] + 1 > r <=> color[p] > r
          BY <1>1, <4>2
        <4>4. QED
          BY <1>1, <2>1, <3>1, <3>3, <4>3 DEF PartnerAhead
      <3>4. QED
        BY <3>2, <3>3
    <2>3. QED
      BY <2>1, <2>2 DEF EffGain
  <1>4. QED
    BY <1>2, <1>3

\* The gains of this round before and after p leaves it.
LEMMA LeaveCounts ==
  ASSUME LInv, NEW p \in PE, Leaves(p), gains' = gains,
         NEW c, c = color[p]
  PROVE  /\ c \in DOMAIN Scheme
         /\ EffGain(p, c)' = gains[p][c]
         /\ PartnerAhead(p) => EffGain(p, c) = gains[p][c]
         /\ ~ PartnerAhead(p) => EffGain(p, c) = 0
         /\ \A x \in PE : Same(p, x) => /\ EffGain(x, c)' = gains[x][c] /\ EffGain(x, c) = 0
                                        /\ ~ PartnerAhead(p)
  <1>1. /\ color'[p] = c + 1 /\ c \in Int /\ c \in DOMAIN Scheme
        /\ \A y \in PE : y # p => color'[y] = color[y]
    BY LeavesEffect DEF LInv, Types, Leaves
  <1>2. color'[p] > c /\ ~ (c > c)
    BY <1>1
  <1>3. ASSUME NEW x \in PE, Same(p, x)
        PROVE  /\ EffGain(x, c)' = gains[x][c] /\ EffGain(x, c) = 0
               /\ ~ PartnerAhead(p)
    <2>1. x # p /\ color[x] = c /\ Scheme[c][p] = x /\ Scheme[c][x] = p
      BY <1>1, <1>3, MeetSymmetric DEF Same, Meet
    <2>2. color'[x] = c
      BY <1>1, <2>1
    <2>3. PartnerAhead(x)'
      BY <1>1, <1>2, <2>1, <2>2 DEF PartnerAhead, Partner
    <2>4. ~ PartnerAhead(x) /\ ~ PartnerAhead(p)
      BY <1>1, <1>2, <2>1 DEF PartnerAhead, Partner
    <2>5. QED
      BY <1>2, <2>1, <2>2, <2>3, <2>4 DEF EffGain
  <1>4. QED
    BY <1>1, <1>2, <1>3 DEF EffGain

\* p leaves a round in which it found nothing, or follows its partner.
LEMMA LeaveGainNone ==
  ASSUME LInv, GainTypes, NEW p \in PE, Leaves(p), gains' = gains,
         \/ PartnerAhead(p)
         \/ gains[p][color[p]] = 0 /\ \A x \in PE : Same(p, x) => gains[x][color[p]] = 0
  PROVE  GainSum' = GainSum
  <1>1. ASSUME NEW x \in PE, NEW r \in DOMAIN Scheme PROVE EffGain(x, r)' = EffGain(x, r)
    <2>1. CASE ~ (r = color[p] /\ (x = p \/ Same(p, x)))
      BY <2>1, LeaveGain
    <2>2. CASE r = color[p] /\ x = p
      BY <2>2, LeaveCounts
    <2>3. CASE r = color[p] /\ Same(p, x)
      BY <2>3, LeaveCounts
    <2>4. QED
      BY <2>1, <2>2, <2>3
  <1>2. QED
    BY <1>1, GainSumSame

\* p is the first of a pair to leave a round: what both have recorded counts.
LEMMA LeaveGainPair ==
  ASSUME LInv, GainTypes, NEW p \in PE, NEW q \in PE, Leaves(p), gains' = gains, Same(p, q)
  PROVE  /\ GainSum' = GainSum + gains[p][color[p]] + gains[q][color[p]]
         /\ GainSum \in Int
  <1>0. PICK c : c = color[p]
    OBVIOUS
  <1>1. p # q /\ \A x \in PE : Same(p, x) => x = q
    BY DEF Same, Meet
  <1>2. /\ c \in DOMAIN Scheme
        /\ EffGain(p, c)' = gains[p][c] /\ EffGain(q, c)' = gains[q][c]
        /\ EffGain(p, c) = 0 /\ EffGain(q, c) = 0
    BY <1>0, LeaveCounts
  <1>3. \A x \in PE, r \in DOMAIN Scheme : EffGain(x, r) \in Int /\ EffGain(x, r)' \in Int
    <2>1. \A x \in PE, r \in DOMAIN Scheme : EffGain(x, r) \in Int
      BY EffGainType
    <2>2. \A x \in PE, r \in DOMAIN Scheme : EffGain(x, r)' \in Int
      BY DEF GainTypes, EffGain
    <2>3. QED
      BY <2>1, <2>2
  <1>4. \A x \in PE, r \in DOMAIN Scheme :
          ~ (r = c /\ x \in {p, q}) => EffGain(x, r)' = EffGain(x, r)
    BY <1>0, <1>1, LeaveGain
  <1>5. GainSum' = GainSum + EffGain(p, c)' + EffGain(q, c)' /\ GainSum \in Int
    BY <1>1, <1>2, <1>3, <1>4, GainSumTwo
  <1>6. QED
    BY <1>0, <1>2, <1>5

\* ----- The border lists on their way.

\* A swap adds at most the own border list.
LEMMA BordersSend ==
  ASSUME LInv, BordersTrue, NEW p \in PE, NEW q \in PE, NEW k, NEW m, Further(p, q, k, m),
         border' = border, m.kind = "border" => m.nodes = border[p]
  PROVE  BordersTrue'
  <1> SUFFICES ASSUME NEW x \in PE, NEW y \in PE, x # y, NEW i \in 1 .. Len(chan'[<<y, x>>]),
                      chan'[<<y, x>>][i].kind = "border"
               PROVE  chan'[<<y, x>>][i].nodes = border[y]
    BY DEF BordersTrue
  <1>1. IInv /\ color[p] \in DOMAIN Scheme /\ Partner(p) = q /\ q # p
    BY DEF Further, Meet, LInv
  <1>2. ASSUME NEW j \in 1 .. Len(chan[<<y, x>>]), chan'[<<y, x>>][i] = chan[<<y, x>>][j]
        PROVE  chan'[<<y, x>>][i].nodes = border[y]
    BY <1>2 DEF BordersTrue
  <1>3. CASE x = q /\ y = p
    <2>1. chan'[<<p, q>>] = Append(chan[<<p, q>>], m)
      <3>1. CASE chan' = Send(p, m)
        BY <1>1, <3>1, SendEffect
      <3>2. CASE chan' = TakeAndSend(p, m)
        BY <1>1, <3>2, TakeAndSendEffect
      <3>3. QED
        BY <3>1, <3>2 DEF Further
    <2>2. IsSequence(chan[<<p, q>>]) /\ Len(chan[<<p, q>>]) \in Nat
      BY <1>1, ChannelSequences
    <2>3. /\ Len(chan'[<<p, q>>]) = Len(chan[<<p, q>>]) + 1
          /\ \A j \in 1 .. Len(chan[<<p, q>>]) : chan'[<<p, q>>][j] = chan[<<p, q>>][j]
          /\ chan'[<<p, q>>][Len(chan[<<p, q>>]) + 1] = m
      BY <2>1, <2>2, AppendSequence
    <2>4. CASE i \in 1 .. Len(chan[<<y, x>>])
      BY <1>2, <1>3, <2>3, <2>4
    <2>5. CASE i = Len(chan[<<y, x>>]) + 1
      BY <1>3, <2>3, <2>5
    <2>6. QED
      BY <1>3, <2>2, <2>3, <2>4, <2>5
  <1>4. CASE x = p /\ y = q
    <2>1. CASE chan' = Send(p, m)
      <3>1. chan'[<<q, p>>] = chan[<<q, p>>]
        BY <1>1, <2>1, SendEffect
      <3>2. QED
        BY <1>2, <1>4, <3>1
    <2>2. CASE HasMessage(p) /\ chan' = TakeAndSend(p, m)
      <3>1. chan'[<<q, p>>] = Tail(chan[<<q, p>>]) /\ chan[<<q, p>>] # <<>>
        BY <1>1, <2>2, TakeAndSendEffect DEF HasMessage
      <3>2. IsSequence(chan[<<q, p>>])
        BY <1>1, ChannelSequences
      <3>3. /\ Len(chan'[<<q, p>>]) = Len(chan[<<q, p>>]) - 1
            /\ Len(chan[<<q, p>>]) \in Nat
            /\ chan'[<<q, p>>][i] = chan[<<q, p>>][i + 1]
        BY <1>4, <3>1, <3>2, TailSequence
      <3>4. i + 1 \in 1 .. Len(chan[<<q, p>>])
        BY <1>4, <3>3
      <3>5. QED
        BY <1>2, <1>4, <3>3, <3>4
    <2>3. QED
      BY <2>1, <2>2 DEF Further
  <1>5. CASE ~ (x = q /\ y = p) /\ ~ (x = p /\ y = q)
    <2>1. <<y, x>> # <<p, Partner(p)>> /\ <<y, x>> # <<Partner(p), p>>
      BY <1>1, <1>5
    <2>2. chan'[<<y, x>>] = chan[<<y, x>>]
      <3>1. CASE chan' = Send(p, m)
        BY <1>1, <1>5, <3>1, SendEffect
      <3>2. CASE chan' = TakeAndSend(p, m)
        BY <1>1, <2>1, <3>2, TakeAndSendEffect
      <3>3. QED
        BY <3>1, <3>2 DEF Further
    <2>3. QED
      BY <1>2, <2>2
  <1>6. QED
    BY <1>3, <1>4, <1>5

\* A process that has a result has no border list under way.
LEMMA NoBorderLeft ==
  ASSUME LInv, NEW p \in PE, Sent(p) = 5, NEW x \in PE, x # p,
         NEW i \in 1 .. Len(chan[<<p, x>>])
  PROVE  chan[<<p, x>>][i].kind # "border"
  <1>1. Link(x, p) /\ Len(chan[<<p, x>>]) \in Nat
    BY ChannelSequences DEF LInv, Links
  <1>2. Sent(x) \in 0 .. 5 /\ color[p] \in Int /\ color[x] \in Int
    BY StageType DEF Sent, LInv, Types
  <1>3. CASE Same(x, p)
    <2>1. Sent(x) >= 4 /\ Due(x) = Sent(x)
      BY <1>1, <1>2, <1>3 DEF Link, Due
    <2>2. Stage(chan[<<p, x>>][i].kind) = Due(x) + i - 1
      BY <1>1, <1>3 DEF Link
    <2>3. Stage(chan[<<p, x>>][i].kind) # 1
      BY <1>1, <1>2, <2>1, <2>2
    <2>4. QED
      BY <2>3, StageKinds
  <1>4. CASE ~ Same(x, p)
    <2>1. ~ Early(p, x)
      BY <1>1 DEF Link
    <2>2. Len(chan[<<p, x>>]) = IF Behind(x, p) THEN 1 ELSE 0
      BY <1>1, <1>4, <2>1 DEF Link, Pending
    <2>3. Behind(x, p) /\ i = 1
      BY <2>2
    <2>4. Stage(chan[<<p, x>>][1].kind) \in {4, 5}
      BY <1>1, <2>3 DEF Link
    <2>5. QED
      BY <2>3, <2>4, StageKinds
  <1>5. QED
    BY <1>3, <1>4

\* A process that leaves a round may change its border, as it has no list under way.
LEMMA BordersLeave ==
  ASSUME LInv, BordersTrue, NEW p \in PE, Leaves(p),
         \A x \in PE : x # p => border'[x] = border[x],
         border'[p] = border[p] \/ Sent(p) = 5
  PROVE  BordersTrue'
  <1> SUFFICES ASSUME NEW x \in PE, NEW y \in PE, x # y, NEW i \in 1 .. Len(chan'[<<y, x>>]),
                      chan'[<<y, x>>][i].kind = "border"
               PROVE  chan'[<<y, x>>][i].nodes = border'[y]
    BY DEF BordersTrue
  <1>1. CASE x # p
    <2>1. chan'[<<y, x>>] = chan[<<y, x>>]
      BY <1>1, LeavesEffect
    <2>2. border'[y] = border[y]
      <3>1. CASE y = p
        BY <1>1, <2>1, <3>1, NoBorderLeft
      <3>2. QED
        BY <3>1
    <2>3. QED
      BY <2>1, <2>2 DEF BordersTrue
  <1>2. CASE x = p
    <2>1. chan'[<<y, p>>] = IF Same(p, y) \/ Behind(p, y)
                              THEN Tail(chan[<<y, p>>]) ELSE chan[<<y, p>>]
      BY <1>2, LeavesEffect
    <2>2. border'[y] = border[y] /\ y # p
      BY <1>2
    <2>3. CASE chan'[<<y, p>>] = chan[<<y, p>>]
      BY <1>2, <2>2, <2>3 DEF BordersTrue
    <2>4. CASE Same(p, y) \/ Behind(p, y)
      <3>1. y = Partner(p) /\ HasMessage(p)
        BY <2>2, <2>4, LeavesEffect DEF Leaves
      <3>2. chan[<<y, p>>] # <<>> /\ IsSequence(chan[<<y, p>>])
        BY <3>1, ChannelSequences DEF HasMessage, LInv
      <3>3. chan'[<<y, p>>] = Tail(chan[<<y, p>>])
        BY <2>1, <2>4
      <3>4. /\ Len(chan'[<<y, p>>]) = Len(chan[<<y, p>>]) - 1
            /\ Len(chan[<<y, p>>]) \in Nat
            /\ chan'[<<y, p>>][i] = chan[<<y, p>>][i + 1]
        BY <1>2, <3>2, <3>3, TailSequence
      <3>5. i + 1 \in 1 .. Len(chan[<<y, p>>])
        BY <1>2, <3>4
      <3>6. QED
        BY <1>2, <2>2, <3>4, <3>5 DEF BordersTrue
    <2>5. QED
      BY <2>1, <2>3, <2>4
  <1>3. QED
    BY <1>1, <1>2

\* ----- What the steps inside a round do to the gains.

\* p takes a message inside a round and answers with m.
Answers(p, m) ==
  /\ pc[p] \in {"border", "sizes", "halo", "gain"} /\ HasMessage(p)
  /\ pc[p] = "gain" => ~ (fm[p].gain <= 0 /\ Received(p).gain <= 0)
  /\ pc' = [pc EXCEPT ![p] = m.kind] /\ color' = color /\ chan' = TakeAndSend(p, m)
  /\ m.kind # "border" /\ Stage(m.kind) = Sent(p) + 1

\* It does so in the same round as its partner.
LEMMA AnswerGoesFurther ==
  ASSUME PInv, NEW p \in PE, NEW m, Answers(p, m)
  PROVE  \E q \in PE :
           /\ Further(p, q, m.kind, m) /\ (m.kind = "border" => m.nodes = border[p])
           /\ Same(p, q) /\ True(Received(p), q)
  <1>1. PICK q \in PE :
           /\ q = Partner(p) /\ q # p /\ Meet(p, q, color[p])
           /\ Received(p) = chan[<<q, p>>][1]
           /\ \/ Same(p, q) /\ True(Received(p), q)
              \/ Behind(p, q) /\ Sent(p) \in {4, 5}
           /\ Agree(p, q)
    <2>1. pc[p] \notin {"round", "done"}
      BY DEF Answers
    <2>2. QED
      BY <2>1, InRoundWith, Zenon DEF Answers
  <1>2. Sent(p) \in 1 .. 4 /\ (Sent(p) = 4 => pc[p] = "gain")
    BY DEF Sent, Stage, Answers
  <1>3. ~ (Behind(p, q) /\ Sent(p) \in {4, 5})
    <2> SUFFICES ASSUME Behind(p, q), Sent(p) \in {4, 5} PROVE FALSE
      OBVIOUS
    <2>1. Sent(p) = 4
      BY <1>2
    <2>2. QED
      BY <1>1, <1>2, <2>1 DEF Agree, NoResultComes, Answers
  <1>4. Same(p, q) /\ True(Received(p), q)
    BY <1>1, <1>3
  <1>5. Further(p, q, m.kind, m)
    BY <1>1, <1>2, <1>4 DEF Further, Answers
  <1>6. QED
    BY <1>4, <1>5 DEF Answers

\* The swaps of a round, each a step of Further.
LEMMA SwapGoesFurther ==
  ASSUME PInv, NEW p \in PE,
         \/ SendBorder(p) \/ SwapSizes(p) \/ SwapHalo(p)
         \/ RefineAndSwapGain(p) \/ SwapResult(p)
  PROVE  \E q \in PE : \E k, m :
           /\ Further(p, q, k, m) /\ (m.kind = "border" => m.nodes = border[p])
           /\ Sent(p) # 0 => Same(p, q) /\ True(Received(p), q)
  <1>1. CASE SendBorder(p)
    <2>1. /\ pc[p] = "round" /\ color[p] \in DOMAIN Scheme /\ Partner(p) # p
          /\ pc' = [pc EXCEPT ![p] = "border"] /\ color' = color
      BY <1>1 DEF SendBorder
    <2>2. PICK q \in PE : q = Partner(p) /\ q # p
      BY <2>1, PartnerIsPE
    <2>3. PICK m : /\ m = [Blank EXCEPT !.kind = "border", !.nodes = border[p]]
                   /\ chan' = Send(p, m)
      BY <1>1 DEF SendBorder
    <2>4. m.kind = "border" /\ m.nodes = border[p]
      BY <2>3 DEF Blank
    <2>5. Sent(p) = 0 /\ Stage("border") = 1
      BY <2>1 DEF Sent, Stage
    <2>6. Further(p, q, "border", m)
      BY <2>1, <2>2, <2>3, <2>4, <2>5 DEF Further, Meet, Partner
    <2>7. QED
      BY <2>4, <2>5, <2>6
  <1>2. CASE SwapSizes(p)
    <2>1. PICK m : m.kind = "sizes" /\ chan' = TakeAndSend(p, m)
      BY <1>2 DEF SwapSizes, Blank
    <2>2. /\ pc[p] = "border" /\ HasMessage(p) /\ pc' = [pc EXCEPT ![p] = m.kind] /\ color' = color
      BY <1>2, <2>1 DEF SwapSizes
    <2>3. m.kind # "border" /\ Stage(m.kind) = Sent(p) + 1 /\ Sent(p) # 0
      BY <2>1, <2>2 DEF Sent, Stage
    <2>4. PICK q \in PE :
            /\ Further(p, q, m.kind, m) /\ (m.kind = "border" => m.nodes = border[p])
            /\ Same(p, q) /\ True(Received(p), q)
      <3>1. Answers(p, m)
        BY <2>1, <2>2, <2>3 DEF Answers
      <3>2. QED
        BY <3>1, AnswerGoesFurther
    <2>5. QED
      BY <2>4
  <1>3. CASE SwapHalo(p)
    <2>1. PICK m : m.kind = "halo" /\ chan' = TakeAndSend(p, m)
      BY <1>3 DEF SwapHalo, Blank
    <2>2. /\ pc[p] = "sizes" /\ HasMessage(p) /\ pc' = [pc EXCEPT ![p] = m.kind] /\ color' = color
      BY <1>3, <2>1 DEF SwapHalo
    <2>3. m.kind # "border" /\ Stage(m.kind) = Sent(p) + 1 /\ Sent(p) # 0
      BY <2>1, <2>2 DEF Sent, Stage
    <2>4. PICK q \in PE :
            /\ Further(p, q, m.kind, m) /\ (m.kind = "border" => m.nodes = border[p])
            /\ Same(p, q) /\ True(Received(p), q)
      <3>1. Answers(p, m)
        BY <2>1, <2>2, <2>3 DEF Answers
      <3>2. QED
        BY <3>1, AnswerGoesFurther
    <2>5. QED
      BY <2>4
  <1>4. CASE RefineAndSwapGain(p)
    <2>1. PICK m : m.kind = "gain" /\ chan' = TakeAndSend(p, m)
      BY <1>4 DEF RefineAndSwapGain, Blank
    <2>2. /\ pc[p] = "halo" /\ HasMessage(p) /\ pc' = [pc EXCEPT ![p] = m.kind] /\ color' = color
      BY <1>4, <2>1 DEF RefineAndSwapGain
    <2>3. m.kind # "border" /\ Stage(m.kind) = Sent(p) + 1 /\ Sent(p) # 0
      BY <2>1, <2>2 DEF Sent, Stage
    <2>4. PICK q \in PE :
            /\ Further(p, q, m.kind, m) /\ (m.kind = "border" => m.nodes = border[p])
            /\ Same(p, q) /\ True(Received(p), q)
      <3>1. Answers(p, m)
        BY <2>1, <2>2, <2>3 DEF Answers
      <3>2. QED
        BY <3>1, AnswerGoesFurther
    <2>5. QED
      BY <2>4
  <1>5. CASE SwapResult(p)
    <2>1. PICK m : m.kind = "result" /\ chan' = TakeAndSend(p, m)
      BY <1>5 DEF SwapResult, Blank
    <2>2. /\ pc[p] = "gain" /\ HasMessage(p) /\ pc' = [pc EXCEPT ![p] = m.kind] /\ color' = color
          /\ ~ (fm[p].gain <= 0 /\ Received(p).gain <= 0)
      BY <1>5, <2>1 DEF SwapResult, NoneImproved
    <2>3. m.kind # "border" /\ Stage(m.kind) = Sent(p) + 1 /\ Sent(p) # 0
      BY <2>1, <2>2 DEF Sent, Stage
    <2>4. PICK q \in PE :
            /\ Further(p, q, m.kind, m) /\ (m.kind = "border" => m.nodes = border[p])
            /\ Same(p, q) /\ True(Received(p), q)
      <3>1. Answers(p, m)
        BY <2>1, <2>2, <2>3 DEF Answers
      <3>2. QED
        BY <3>1, AnswerGoesFurther
    <2>5. QED
      BY <2>4
  <1>6. QED
    BY <1>1, <1>2, <1>3, <1>4, <1>5

\* A swap keeps the invariant if it does so for the process itself.
LEMMA FurtherGains ==
  ASSUME GInv, PInv', NEW p \in PE, NEW q \in PE, NEW k, NEW m, Further(p, q, k, m),
         m.kind = "border" => m.nodes = border[p],
         Inner(p), border' = border, GainTypes',
         \A x \in PE, r \in DOMAIN Scheme :
           x # p \/ r # color[p] => gains'[x][r] = gains[x][r],
         gains' = gains \/ Same(p, q),
         Searched(p)', \A y \in PE : Offered(p, y)', Worth(p)', Recorded(p)'
  PROVE  GInv'
  <1>1. /\ LInv /\ color' = color
        /\ \A x \in PE : x # p => Sent(x)' = Sent(x)
        /\ \A x, y \in PE : (Same(x, y)' <=> Same(x, y))
    BY FurtherPhases DEF GInv, PInv, Further
  <1>2. BordersTrue'
    BY <1>1, BordersSend DEF GInv
  <1>3. Regions'
    <2>1. ASSUME NEW x \in PE, x # p PROVE Searched(x)' /\ \A y \in PE : Offered(x, y)'
      BY <1>1, <2>1 DEF GInv, Regions, Searched, Offered, Inner
    <2>2. QED
      BY <2>1 DEF Regions
  <1>4. Gains'
    <2>1. ASSUME NEW x \in PE, x # p PROVE Worth(x)' /\ Recorded(x)'
      <3>1. Worth(x) /\ Recorded(x)
        BY DEF GInv, Gains
      <3>2. Worth(x)'
        BY <1>1, <2>1, <3>1 DEF Worth, Inner, Region
      <3>3. Recorded(x)'
        BY <1>1, <2>1, <3>1 DEF Recorded, Inner
      <3>4. QED
        BY <3>2, <3>3
    <2>2. QED
      BY <2>1 DEF Gains, GainTypes
  <1>5. CutAccounting'
    <2>1. EffBlock' = EffBlock
      BY <1>1, AdvanceEff DEF Inner
    <2>2. GainSum' = GainSum
      BY <1>1, FurtherGain
    <2>3. StartBlock' = StartBlock
      BY DEF StartBlock, Inner
    <2>4. QED
      BY <2>1, <2>2, <2>3 DEF GInv, CutAccounting
  <1>6. QED
    BY <1>2, <1>3, <1>4, <1>5 DEF GInv

\* Before the results are swapped nothing is recorded.
LEMMA NotYetRecorded ==
  ASSUME NEW p \in PE, Recorded(p), color' = color, gains' = gains, Sent(p)' = Sent(p) + 1,
         Sent(p) < 4
  PROVE  Recorded(p)'
  <1>1. Sent(p) < 5 /\ Sent(p)' < 5 /\ Sent(p)' # 5
    BY StageType DEF Sent
  <1>2. QED
    BY <1>1 DEF Recorded

\* A region that has been found stays.
LEMMA RegionStays ==
  ASSUME GInv, NEW p \in PE, Sent(p) >= 2, owned' = owned, iface'[p] = iface[p],
         \A y \in PE : (Same(p, y)' <=> Same(p, y))
  PROVE  Searched(p)' /\ \A y \in PE : Offered(p, y)'
  BY DEF GInv, Regions, Searched, Offered

\* The first swap.
LEMMA SendBorderGains ==
  ASSUME GInv, NEW p \in PE, SendBorder(p)
  PROVE  GInv'
  <1>1. PICK q, k, m : /\ q \in PE /\ Further(p, q, k, m)
                       /\ m.kind = "border" => m.nodes = border[p]
    BY SwapGoesFurther DEF GInv
  <1>2. PInv'
    BY SendBorderKeeps DEF GInv
  <1>3. Sent(p) = 0 /\ Sent(p)' = 1
    <2>1. Sent(p) = 0
      BY DEF SendBorder, Sent, Stage
    <2>2. QED
      BY <1>1, <2>1, FurtherPhases DEF GInv, PInv
  <1>4. Inner(p) /\ border' = border /\ gains' = gains /\ color' = color
    BY <1>3 DEF SendBorder, Inner
  <1>5. GainTypes'
    BY <1>4 DEF GInv, Gains, GainTypes
  <1>6. Searched(p)' /\ Worth(p)' /\ \A y \in PE : Offered(p, y)'
    BY <1>3 DEF Searched, Offered, Worth
  <1>7. Recorded(p)'
    BY <1>3, <1>4, NotYetRecorded DEF GInv, Gains
  <1>8. QED
    BY <1>1, <1>2, <1>4, <1>5, <1>6, <1>7, FurtherGains

\* The region p finds holds all that its partner needs to see.
LEMMA SwapSizesGains ==
  ASSUME GInv, NEW p \in PE, SwapSizes(p)
  PROVE  GInv'
  <1>1. Sent(p) = 1 /\ HasMessage(p) /\ pc[p] = "border"
    BY DEF SwapSizes, Sent, Stage
  <1>2. PICK q, k, m : /\ q \in PE /\ Further(p, q, k, m)
                       /\ (m.kind = "border" => m.nodes = border[p])
                       /\ Same(p, q)
    BY <1>1, SwapGoesFurther DEF GInv
  <1>3. PInv'
    BY SwapSizesKeeps DEF GInv
  <1>4. Sent(p)' = 2 /\ \A y \in PE : (Same(p, y)' <=> Same(p, y))
    BY <1>1, <1>2, FurtherPhases DEF GInv, PInv
  <1>5. PICK found : /\ found = InterfaceNodes(owned[p], border[p], Received(p).nodes,
                                              MinBorderNodes[p])
                     /\ iface' = [iface EXCEPT ![p] = found]
    BY DEF SwapSizes
  <1>6. /\ owned' = owned /\ start' = start /\ halo' = halo /\ fm' = fm
        /\ otherWeight' = otherWeight /\ otherGain' = otherGain
        /\ border' = border /\ gains' = gains /\ color' = color
    BY DEF SwapSizes
  <1>7. iface'[p] = found /\ \A x \in PE : x # p => iface'[x] = iface[x]
    BY <1>5 DEF GInv, PInv, LInv, IInv, Shapes
  <1>8. Inner(p)
    BY <1>1, <1>6, <1>7 DEF Inner
  <1>9. GainTypes' /\ Worth(p)' /\ Recorded(p)'
    <2>1. GainTypes' /\ Worth(p)'
      BY <1>4, <1>6 DEF GInv, Gains, GainTypes, Worth
    <2>2. Recorded(p)'
      BY <1>1, <1>4, <1>6, NotYetRecorded DEF GInv, Gains
    <2>3. QED
      BY <2>1, <2>2
  <1>10. /\ owned[p] \in SUBSET Node /\ border[p] \in SUBSET owned[p] /\ owned[q] \in SUBSET Node
         /\ \A x \in PE : border[x] = {n \in owned[x] : Neighbors(EdgeWeight, n) \ owned[x] # {}}
    BY <1>2 DEF GInv, PInv, LInv, IInv, Shapes, BorderExact
  <1>11. /\ \A n \in found.cand : Neighbors(EdgeWeight, n) \cap owned[p] \subseteq found.nodes
         /\ BorderToPartner(border[p], Received(p).nodes) \subseteq found.nodes
    <2>1. owned[p] \in SUBSET Node /\ border[p] \in SUBSET owned[p]
      BY <1>10
    <2>2. PICK own, bd, foreign, few : /\ own = owned[p] /\ bd = border[p]
                                       /\ foreign = Received(p).nodes /\ few = MinBorderNodes[p]
      OBVIOUS
    <2>3. /\ own \in SUBSET Node /\ bd \in SUBSET own
          /\ found = InterfaceNodes(own, bd, foreign, few)
      BY <1>5, <2>1, <2>2
    <2>4. /\ \A n \in found.cand : Neighbors(EdgeWeight, n) \cap own \subseteq found.nodes
          /\ BorderToPartner(bd, foreign) \subseteq found.nodes
      BY <2>3, InterfacePromise
    <2>5. QED
      BY <2>2, <2>4
  <1>12. Searched(p)'
    BY <1>6, <1>7, <1>11 DEF Searched
  <1>13. Received(p).nodes = border[q]
    <2>1. /\ Stage(Received(p).kind) = 1 /\ Received(p) = chan[<<Partner(p), p>>][1]
          /\ Len(chan[<<Partner(p), p>>]) >= 1
      BY <1>1, Received1 DEF GInv, PInv
    <2>2. Partner(p) = q /\ q # p /\ Received(p).kind = "border"
      BY <1>2, <2>1, StageKinds DEF Further
    <2>3. Len(chan[<<q, p>>]) \in Nat
      BY ChannelSequences DEF GInv, PInv, LInv
    <2>4. 1 \in 1 .. Len(chan[<<q, p>>])
      BY <2>1, <2>2, <2>3
    <2>5. QED
      BY <1>2, <2>1, <2>2, <2>4 DEF GInv, BordersTrue
  <1>14. ASSUME NEW y \in PE PROVE Offered(p, y)'
    <2> SUFFICES ASSUME Same(p, y), NEW n \in owned[p], NEW l \in owned[y],
                        l \in Neighbors(EdgeWeight, n)
                 PROVE  n \in found.nodes
      BY <1>4, <1>6, <1>7 DEF Offered
    <2>1. y = q /\ owned[p] \cap owned[q] = {}
      BY <1>2, InRoundOwned DEF GInv, PInv, Same, Meet
    <2>2. n \in border[p]
      BY <1>10, <2>1
    <2>3. n \in Node /\ l \in Node /\ n \in Neighbors(EdgeWeight, l)
      BY <1>10, <2>1, GraphAssumption DEF Neighbors
    <2>4. l \in border[q]
      BY <1>10, <2>1, <2>3
    <2>5. n \in BorderToPartner(border[p], Received(p).nodes)
      BY <1>13, <2>2, <2>4 DEF BorderToPartner
    <2>6. QED
      BY <1>11, <2>5
  <1>15. QED
    BY <1>2, <1>3, <1>6, <1>8, <1>9, <1>12, <1>14, FurtherGains

\* The halo says nothing about gains.
LEMMA SwapHaloGains ==
  ASSUME GInv, NEW p \in PE, SwapHalo(p)
  PROVE  GInv'
  <1>1. Sent(p) = 2
    BY DEF SwapHalo, Sent, Stage
  <1>2. PICK q, k, m : /\ q \in PE /\ Further(p, q, k, m)
                       /\ m.kind = "border" => m.nodes = border[p]
    BY SwapGoesFurther DEF GInv
  <1>3. PInv'
    BY SwapHaloKeeps DEF GInv
  <1>4. Sent(p)' = 3 /\ \A y \in PE : (Same(p, y)' <=> Same(p, y))
    BY <1>1, <1>2, FurtherPhases DEF GInv, PInv
  <1>5. /\ owned' = owned /\ start' = start /\ halo' = halo /\ fm' = fm /\ iface' = iface
        /\ otherGain' = otherGain /\ border' = border /\ gains' = gains /\ color' = color
        /\ \A x \in PE : x # p => otherWeight'[x] = otherWeight[x]
    BY DEF SwapHalo, GInv, PInv, Domains
  <1>6. Inner(p)
    BY <1>5 DEF Inner
  <1>7. GainTypes' /\ Worth(p)' /\ Recorded(p)'
    <2>1. GainTypes' /\ Worth(p)'
      BY <1>4, <1>5 DEF GInv, Gains, GainTypes, Worth
    <2>2. Recorded(p)'
      BY <1>1, <1>4, <1>5, NotYetRecorded DEF GInv, Gains
    <2>3. QED
      BY <2>1, <2>2
  <1>8. Searched(p)' /\ \A y \in PE : Offered(p, y)'
    BY <1>1, <1>4, <1>5, RegionStays
  <1>9. QED
    BY <1>2, <1>3, <1>5, <1>6, <1>7, <1>8, FurtherGains

\* The gain p reports is that of its assignment, if p sees the edges as they are.
LEMMA RefineGains ==
  ASSUME GInv, NEW p \in PE, RefineAndSwapGain(p), EdgeView(p) = EdgeWeight
  PROVE  GInv'
  <1>1. Sent(p) = 3 /\ HasMessage(p)
    BY DEF RefineAndSwapGain, Sent, Stage
  <1>2. PICK q, k, m : /\ q \in PE /\ Further(p, q, k, m)
                       /\ (m.kind = "border" => m.nodes = border[p])
                       /\ Same(p, q) /\ True(Received(p), q)
    BY <1>1, SwapGoesFurther DEF GInv
  <1>3. PInv'
    BY RefineKeeps DEF GInv
  <1>4. Sent(p)' = 4 /\ \A y \in PE : (Same(p, y)' <=> Same(p, y))
    BY <1>1, <1>2, FurtherPhases DEF GInv, PInv
  <1>5. PICK other : other = Received(p)
    OBVIOUS
  <1>6. PICK out \in FMOutcomes(EdgeWeight, NodeWeight, owned[p], other.nodes,
                                iface[p].cand \cup other.cand,
                                WeightOf(NodeWeight, owned[p]),
                                otherWeight[p], Capacity) :
          fm' = [fm EXCEPT ![p] = out]
    BY <1>5 DEF RefineAndSwapGain
  <1>7. /\ halo' = [halo EXCEPT ![p] = [nodes |-> other.nodes, cand |-> other.cand,
                                        origin |-> other.origin]]
        /\ owned' = owned /\ start' = start /\ iface' = iface /\ otherWeight' = otherWeight
        /\ otherGain' = otherGain /\ border' = border /\ gains' = gains /\ color' = color
    BY <1>5 DEF RefineAndSwapGain
  <1>8. /\ halo'[p].nodes = other.nodes /\ halo'[p].cand = other.cand /\ fm'[p] = out
        /\ \A x \in PE : x # p => halo'[x] = halo[x] /\ fm'[x] = fm[x]
    BY <1>6, <1>7 DEF GInv, PInv, Domains, LInv, IInv, Shapes
  <1>9. Inner(p)
    BY <1>1, <1>7, <1>8 DEF Inner
  <1>10. other.nodes = iface[q].nodes /\ other.cand = iface[q].cand
    <2>1. Stage(other.kind) = 3
      <3>1. LInv /\ Sent(p) # 0
        BY <1>1 DEF GInv, PInv
      <3>2. Stage(Received(p).kind) = Sent(p)
        BY <1>1, <3>1, Received1
      <3>3. QED
        BY <1>1, <1>5, <3>2
    <2>2. QED
      BY <1>2, <1>5, <2>1, StageKinds DEF True
  <1>11. Worth(p)'
    <2> DEFINE F == owned[p]
               S == other.nodes
               cand == iface[p].cand \cup other.cand
               sizeF == WeightOf(NodeWeight, owned[p])
               sizeS == otherWeight[p]
               T == out.toSecond
    <2>1. /\ F \in SUBSET Node /\ S \in SUBSET Node /\ F \cap S = {} /\ cand \subseteq F \cup S
      BY <1>2, <1>10, InRoundOwned DEF GInv, PInv, LInv, IInv, Shapes, InterfaceLocal
    <2>2. IsFiniteSet(F) /\ IsFiniteSet(S)
      BY <2>1, NodeSetWeight
    <2>3. \A n \in F, l \in S : EdgeWeight[n][l] \in Int
      <3>1. \A n, l \in Node : EdgeWeight[n][l] \in Int
        BY EntriesInteger
      <3> HIDE DEF F, S, cand
      <3>2. QED
        BY <2>1, <3>1
    <2>4. out \in FMOutcomes(EdgeWeight, NodeWeight, F, S, cand, sizeF, sizeS, Capacity)
      BY <1>6
    <2> HIDE DEF F, S, cand, sizeF, sizeS
    <2>5. out.gain = CutBetween(EdgeWeight, F, S)
                       - CutBetween(EdgeWeight, (F \cup cand) \ T, (S \ cand) \cup T)
      BY <2>1, <2>2, <2>3, <2>4, OutcomeGain
    <2>6. Region(p)' = cand
      BY <1>7, <1>8 DEF Region, cand
    <2>7. QED
      BY <1>7, <1>8, <2>5, <2>6 DEF Worth, F, S
  <1>12. GainTypes' /\ Recorded(p)'
    <2>1. GainTypes'
      BY <1>7 DEF GInv, Gains, GainTypes
    <2>2. Recorded(p)'
      BY <1>1, <1>4, <1>7, NotYetRecorded DEF GInv, Gains
    <2>3. QED
      BY <2>1, <2>2
  <1>13. Searched(p)' /\ \A y \in PE : Offered(p, y)'
    BY <1>1, <1>4, <1>7, RegionStays
  <1>14. QED
    BY <1>2, <1>3, <1>7, <1>9, <1>11, <1>12, <1>13, FurtherGains

\* Both processes of a pair record the gain of the better result.
LEMMA SwapResultGains ==
  ASSUME GInv, NEW p \in PE, SwapResult(p)
  PROVE  GInv'
  <1>1. Sent(p) = 4 /\ HasMessage(p)
    BY DEF SwapResult, Sent, Stage
  <1>2. PICK q, k, m : /\ q \in PE /\ Further(p, q, k, m)
                       /\ (m.kind = "border" => m.nodes = border[p])
                       /\ Same(p, q) /\ True(Received(p), q)
    BY <1>1, SwapGoesFurther DEF GInv
  <1>3. PInv'
    BY SwapResultKeeps DEF GInv
  <1>4. Sent(p)' = 5 /\ \A y \in PE : (Same(p, y)' <=> Same(p, y))
    BY <1>1, <1>2, FurtherPhases DEF GInv, PInv
  <1>5. PICK g : g = Max({fm[p].gain, Received(p).gain})
    OBVIOUS
  <1>6. /\ gains' = [gains EXCEPT ![p][color[p]] = g]
        /\ otherGain' = [otherGain EXCEPT ![p] = Received(p).gain]
        /\ owned' = owned /\ start' = start /\ iface' = iface /\ otherWeight' = otherWeight
        /\ halo' = halo /\ fm' = fm /\ border' = border /\ color' = color
    BY <1>5 DEF SwapResult, GainThisRound
  <1>7. otherGain'[p] = Received(p).gain /\ \A x \in PE : x # p => otherGain'[x] = otherGain[x]
    BY <1>6 DEF GInv, PInv, Domains
  <1>8. Inner(p)
    BY <1>6, <1>7 DEF Inner
  <1>9. g \in Int
    <2>0. LInv /\ Sent(p) # 0 /\ Partner(p) = q
      BY <1>1, <1>2 DEF GInv, PInv, Further
    <2>1. Stage(Received(p).kind) = 4 /\ Sent(q) >= 4
      BY <1>1, <1>2, <2>0, Received1
    <2>2. Received(p).gain = fm[q].gain
      BY <1>2, <2>1, StageKinds DEF True
    <2>4. fm[p].gain \in Int /\ fm[q].gain \in Int
      BY <1>2, <1>1, <2>1 DEF GInv, PInv, Results, Result
    <2>5. QED
      BY <1>5, <2>2, <2>4, MaxTwo
  <1>10. PICK c \in DOMAIN Scheme : c = color[p]
    BY <1>2 DEF Same, Meet
  <1>11. /\ gains' \in [PE -> [DOMAIN Scheme -> Int]]
         /\ gains'[p][c] = g
         /\ \A x \in PE, r \in DOMAIN Scheme : x # p \/ r # c => gains'[x][r] = gains[x][r]
    BY <1>6, <1>9, <1>10 DEF GInv, Gains
  <1>12. Worth(p)'
    <2>1. Worth(p)
      BY DEF GInv, Gains
    <2>2. QED
      BY <1>1, <1>4, <1>6, <2>1 DEF Worth, Region
  <1>13. Recorded(p)'
    <2>1. Recorded(p)
      BY DEF GInv, Gains
    <2>2. color'[p] = c /\ fm'[p].gain = fm[p].gain
      BY <1>6, <1>10
    <2>3. g = Max({fm'[p].gain, otherGain'[p]})
      BY <1>5, <1>7, <2>2
    <2>4. ASSUME NEW r \in DOMAIN Scheme
          PROVE  /\ gains'[p][r] \in Int
                 /\ r > c => gains'[p][r] = 0
                 /\ r = c => gains'[p][r] = g
      <3>1. CASE r = c
        <4>1. c \in Int /\ ~ (c > c)
          BY <1>10 DEF GInv, PInv, LInv, Types
        <4>2. QED
          BY <1>9, <1>11, <3>1, <4>1
      <3>2. CASE r # c
        BY <1>10, <1>11, <2>1, <3>2 DEF Recorded
      <3>3. QED
        BY <3>1, <3>2
    <2>5. QED
      BY <1>4, <2>2, <2>3, <2>4 DEF Recorded
  <1>14. Searched(p)' /\ \A y \in PE : Offered(p, y)'
    BY <1>1, <1>4, <1>6, RegionStays
  <1>15. GainTypes'
    BY <1>11 DEF GainTypes
  <1>16. QED
    BY <1>2, <1>3, <1>6, <1>8, <1>10, <1>11, <1>12, <1>13, <1>14, <1>15, FurtherGains

\* ----- What the end of a round does to the gains.

\* The end of a round keeps the invariant if it keeps the account.
LEMMA LeaveGains ==
  ASSUME GInv, PInv', NEW p \in PE, Leaves(p), gains' = gains,
         \A x \in PE : x # p => owned'[x] = owned[x] /\ border'[x] = border[x],
         border'[p] = border[p] \/ Sent(p) = 5,
         CutAccounting'
  PROVE  GInv'
  <1>1. /\ LInv /\ color'[p] = color[p] + 1 /\ Sent(p)' = 0
        /\ \A x \in PE : x # p => color'[x] = color[x] /\ Sent(x)' = Sent(x)
        /\ \A x \in PE : color[x] \in Int
    BY LeavesEffect DEF GInv, PInv, LInv, Types
  <1>2. \A x \in PE : x # p => /\ iface'[x] = iface[x] /\ halo'[x] = halo[x] /\ fm'[x] = fm[x]
                               /\ otherGain'[x] = otherGain[x]
    BY DEF Leaves, NextRound, GInv, PInv, Domains, LInv, IInv, Shapes
  <1>3. BordersTrue'
    BY <1>1, BordersLeave DEF GInv
  <1>4. Regions'
    <2>1. Searched(p)' /\ \A y \in PE : Offered(p, y)'
      BY <1>1 DEF Searched, Offered
    <2>2. ASSUME NEW x \in PE, x # p PROVE Searched(x)'
      BY <1>1, <1>2, <2>2 DEF GInv, Regions, Searched
    <2>3. ASSUME NEW x \in PE, x # p, NEW y \in PE PROVE Offered(x, y)'
      <3>1. CASE y # p
        <4>1. Same(x, y)' <=> Same(x, y)
          BY <1>1, <2>3, <3>1 DEF Same, Meet
        <4>2. QED
          BY <1>1, <1>2, <2>3, <3>1, <4>1 DEF GInv, Regions, Offered
      <3>2. CASE y = p
        <4> SUFFICES ASSUME Same(x, p)' PROVE ~ (Sent(x) >= 2)
          BY <1>1, <2>3, <3>2 DEF Offered
        <4>1. Meet(x, p, color[x]) /\ color[x] = color[p] + 1
          BY <1>1, <2>3 DEF Same, Meet
        <4>2. Early(x, p)
          BY <1>1, <4>1 DEF Early
        <4>3. Sent(x) \in {0, 1}
          BY <1>1, <2>3, <4>2 DEF LInv, Links, Link
        <4>4. QED
          BY <4>3
      <3>3. QED
        BY <3>1, <3>2
    <2>4. QED
      BY <2>1, <2>2, <2>3 DEF Regions
  <1>5. Gains'
    <2>1. Worth(p)'
      BY <1>1 DEF Worth
    <2>2. Recorded(p)'
      <3>1. \A r \in DOMAIN Scheme : r \in Int
        BY SchemeAssumption
      <3>2. Recorded(p)
        BY DEF GInv, Gains
      <3>3. \A r \in DOMAIN Scheme : r > color'[p] \/ r = color'[p] => r > color[p]
        BY <1>1, <3>1
      <3>4. QED
        BY <1>1, <3>2, <3>3 DEF Recorded
    <2>3. ASSUME NEW x \in PE, x # p PROVE Worth(x)' /\ Recorded(x)'
      <3>1. Worth(x) /\ Recorded(x)
        BY DEF GInv, Gains
      <3>2. Worth(x)'
        BY <1>1, <1>2, <2>3, <3>1 DEF Worth, Region
      <3>3. Recorded(x)'
        BY <1>1, <1>2, <2>3, <3>1 DEF Recorded
      <3>4. QED
        BY <3>2, <3>3
    <2>4. QED
      BY <2>1, <2>2, <2>3 DEF Gains, GInv
  <1>6. QED
    BY <1>3, <1>4, <1>5 DEF GInv

\* The account does not change when nothing is settled.
LEMMA AccountSame ==
  ASSUME CutAccounting, EffBlock' = EffBlock, GainSum' = GainSum, start' = start
  PROVE  CutAccounting'
  <1>1. StartBlock' = StartBlock
    BY DEF StartBlock
  <1>2. QED
    BY <1>1 DEF CutAccounting

\* A round without a partner has no gain.
LEMMA IdleGains ==
  ASSUME GInv, NEW p \in PE, Idle(p)
  PROVE  GInv'
  <1>1. UNCHANGED <<start, owned, border, gains>> /\ pc[p] = "round"
    BY DEF Idle
  <1>2. Leaves(p) /\ (\A x \in PE : ~ Same(p, x)) /\ EffBlock' = EffBlock
    BY IdleLeaves DEF GInv
  <1>3. gains[p][color[p]] = 0
    <2>1. Sent(p) = 0 /\ color[p] \in DOMAIN Scheme /\ Recorded(p)
      BY <1>1, <1>2 DEF Sent, Stage, Leaves, GInv, Gains
    <2>2. QED
      BY <2>1 DEF Recorded
  <1>4. GainSum' = GainSum
    BY <1>1, <1>2, <1>3, LeaveGainNone DEF GInv, PInv, Gains, GainTypes
  <1>5. CutAccounting'
    BY <1>1, <1>2, <1>4, AccountSame DEF GInv
  <1>6. PInv'
    BY IdleKeeps DEF GInv
  <1>7. QED
    BY <1>1, <1>2, <1>5, <1>6, LeaveGains

\* A round without an improvement has none either.
LEMMA NoImprovementGains ==
  ASSUME GInv, NEW p \in PE, NoImprovement(p)
  PROVE  GInv'
  <1>1. UNCHANGED <<start, owned, border, gains>>
    BY DEF NoImprovement
  <1>2. /\ Leaves(p) /\ EffBlock' = EffBlock /\ Sent(p) = 4
        /\ \A x \in PE : Same(p, x) => Sent(x) = 4
    BY NoImprovementLeaves DEF GInv
  <1>3. gains[p][color[p]] = 0 /\ \A x \in PE : Same(p, x) => gains[x][color[p]] = 0
    <2>1. color[p] \in DOMAIN Scheme /\ \A x \in PE : Recorded(x)
      BY <1>2 DEF Leaves, GInv, Gains
    <2>2. ASSUME NEW x \in PE, color[x] = color[p], Sent(x) = 4 PROVE gains[x][color[p]] = 0
      <3>1. Sent(x) < 5
        BY <2>2
      <3>2. QED
        BY <2>1, <2>2, <3>1 DEF Recorded
    <2>3. QED
      BY <1>2, <2>2 DEF Same
  <1>4. GainSum' = GainSum
    BY <1>1, <1>2, <1>3, LeaveGainNone DEF GInv, PInv, Gains, GainTypes
  <1>5. CutAccounting'
    BY <1>1, <1>2, <1>4, AccountSame DEF GInv
  <1>6. PInv'
    BY NoImprovementKeeps DEF GInv
  <1>7. QED
    BY <1>1, <1>2, <1>5, <1>6, LeaveGains

\* What a pair settles changes the cut of all blocks by twice what the cut between
\* the two blocks changes.
LEMMA SettledCut ==
  ASSUME PInv, NEW p \in PE, NEW q \in PE, Same(p, q), NEW d, NEW a,
         Settled(p, q, d, a), Settles(p, q, d, a)
  PROVE  LET cut == CutBetween(EdgeWeight, owned[p], owned[q])
             left == CutBetween(EdgeWeight, (owned[p] \ d) \cup a, (owned[q] \ a) \cup d)
         IN  /\ CutSum(EdgeWeight, EffBlock') = CutSum(EdgeWeight, EffBlock) - 2 * (cut - left)
             /\ CutSum(EdgeWeight, EffBlock) \in Int /\ cut \in Int /\ left \in Int
  <1> DEFINE w == EdgeWeight
             other == EffBlock'
             block == EffBlock
  <1>1. /\ IsFiniteSet(DOMAIN w) /\ DOMAIN w = Node
        /\ \A n, m \in DOMAIN w : w[n][m] \in Nat /\ w[n][m] = w[m][n]
    BY GraphAssumption
  <1>2. IsFiniteSet(PE) /\ p # q
    BY PEAssumption, FS_Interval DEF PE, Same, Meet
  <1>3. /\ d \subseteq owned[p] /\ a \subseteq owned[q] /\ owned[p] \cap owned[q] = {}
        /\ \A x \in PE : owned[x] \in SUBSET Node /\ halo[x].cand \in SUBSET Node
    BY DEF Settled, PInv, LInv, IInv, Shapes, Sound
  <1>4. \A x \in PE : EffOwned(x) \in SUBSET Node
    BY <1>3 DEF EffOwned, NewLocal, Added
  <1>5. \A x \in PE : EffOwned(x)' \in SUBSET Node
    BY <1>3, <1>4 DEF Settles
  <1>6. block \in [PE -> SUBSET DOMAIN w] /\ other \in [PE -> SUBSET DOMAIN w]
    BY <1>1, <1>4, <1>5 DEF EffBlock
  <1>7. /\ block[p] = owned[p] /\ block[q] = owned[q]
        /\ other[p] = (owned[p] \ d) \cup a /\ other[q] = (owned[q] \ a) \cup d
        /\ \A x \in PE : x # p /\ x # q => other[x] = block[x]
    BY DEF EffBlock, Settles
  <1>8. /\ block[p] \cap block[q] = {} /\ other[p] \cap other[q] = {}
        /\ block[p] \cup block[q] = other[p] \cup other[q]
    <2> HIDE DEF block, other
    <2>1. QED
      BY <1>3, <1>7
  <1>9. PICK v, f, g : v = w /\ f = block /\ g = other
    OBVIOUS
  <1> HIDE DEF w, block, other
  <1>10. /\ CutSum(v, g) = CutSum(v, f)
              - 2 * (CutBetween(v, f[p], f[q]) - CutBetween(v, g[p], g[q]))
         /\ CutSum(v, g) \in Int /\ CutSum(v, f) \in Int
         /\ CutBetween(v, f[p], f[q]) \in Int
         /\ CutBetween(v, g[p], g[q]) \in Int
    <2>1. /\ IsFiniteSet(DOMAIN v) /\ IsFiniteSet(PE) /\ p # q
          /\ \A n, m \in DOMAIN v : v[n][m] \in Nat /\ v[n][m] = v[m][n]
      BY <1>1, <1>2, <1>9
    <2>2. f \in [PE -> SUBSET DOMAIN v] /\ g \in [PE -> SUBSET DOMAIN v]
      BY <1>6, <1>9
    <2>3. \A x \in PE : x # p /\ x # q => g[x] = f[x]
      BY <1>7, <1>9
    <2>4. /\ f[p] \cap f[q] = {} /\ g[p] \cap g[q] = {}
          /\ f[p] \cup f[q] = g[p] \cup g[q]
      BY <1>8, <1>9
    <2>5. p \in PE /\ q \in PE
      OBVIOUS
    <2>6. QED
      BY ONLY <2>1, <2>2, <2>3, <2>4, <2>5, CutSumShare
  <1>11. QED
    BY <1>7, <1>9, <1>10 DEF w, block, other

\* Both of a pair have recorded the larger gain, and it is that of the result they
\* settle on.
LEMMA PairGain ==
  ASSUME GInv, NEW p \in PE, NEW q \in PE, Same(p, q), Same(q, p), Sent(p) = 5, Sent(q) = 5,
         OtherWasBetter(q)
  PROVE  \E d, a :
           /\ Settled(p, q, d, a) /\ Settled(q, p, a, d)
           /\ CutBetween(EdgeWeight, owned[p], owned[q])
                - CutBetween(EdgeWeight, (owned[p] \ d) \cup a, (owned[q] \ a) \cup d)
                = fm[p].gain
           /\ fm[p].gain \in Int
           /\ gains[p][color[p]] = fm[p].gain /\ gains[q][color[p]] = fm[p].gain
  <1> DEFINE d == iface[p].cand \cap fm[p].toSecond
             a == halo[p].cand \ fm[p].toSecond
  <1>1. /\ Partner(q) = p /\ color[q] = color[p] /\ color[p] \in DOMAIN Scheme /\ p # q
    BY InRoundOwned DEF GInv, PInv, Same, Meet
  <1>2. /\ otherGain[p] = fm[q].gain /\ otherGain[q] = fm[p].gain
        /\ fm[p].gain \in Int /\ fm[q].gain \in Int
    <2>1. Known(p, q) /\ Known(q, p)
      BY <1>1 DEF GInv, PInv, Agreement, Agree
    <2>2. QED
      BY <2>1 DEF Known, GInv, PInv, Results, Result
  <1>3. fm[p].gain >= fm[q].gain
    BY <1>2 DEF OtherWasBetter
  <1>4. gains[p][color[p]] = fm[p].gain /\ gains[q][color[p]] = fm[p].gain
    <2>1. /\ gains[p][color[p]] = Max({fm[p].gain, fm[q].gain})
          /\ gains[q][color[p]] = Max({fm[q].gain, fm[p].gain})
      BY <1>1, <1>2 DEF GInv, Gains, Recorded
    <2>2. PICK x, y \in Int : x = fm[p].gain /\ y = fm[q].gain
      BY <1>2
    <2>3. Max({x, y}) = x /\ Max({y, x}) = x
      BY <1>3, <2>2, MaxTwo
    <2>4. QED
      BY <2>1, <2>2, <2>3
  <1>5. Settled(p, q, d, a)
    BY Winner DEF GInv, PInv
  <1>6. Settled(q, p, a, d)
    <2> HIDE DEF d, a
    <2>1. QED
      BY <1>5 DEF Settled
  <1>7. /\ CutBetween(EdgeWeight, owned[p], owned[q])
              - CutBetween(EdgeWeight, (owned[p] \ d) \cup a, (owned[q] \ a) \cup d)
              = fm[p].gain
        /\ fm[p].gain \in Int
    BY WinnerCut DEF GInv, Gains
  <1> HIDE DEF d, a
  <1>8. QED
    BY <1>4, <1>5, <1>6, <1>7

Settling(p, q) == \A d, a : Settled(p, q, d, a) => Settles(p, q, d, a)

\* When a pair settles, the cut of all blocks falls by what both have recorded.
LEMMA PairAccount ==
  ASSUME GInv, NEW p \in PE, NEW q \in PE, Same(p, q), Same(q, p), Sent(p) = 5, Sent(q) = 5,
         OtherWasBetter(q), Settling(p, q)
  PROVE  \E g \in Int :
           /\ CutSum(EdgeWeight, EffBlock') = CutSum(EdgeWeight, EffBlock) - 2 * g
           /\ CutSum(EdgeWeight, EffBlock) \in Int
           /\ gains[p][color[p]] = g /\ gains[q][color[p]] = g
  <1>1. PICK d, a :
           /\ Settled(p, q, d, a)
           /\ CutBetween(EdgeWeight, owned[p], owned[q])
                - CutBetween(EdgeWeight, (owned[p] \ d) \cup a, (owned[q] \ a) \cup d)
                = fm[p].gain
           /\ fm[p].gain \in Int
           /\ gains[p][color[p]] = fm[p].gain /\ gains[q][color[p]] = fm[p].gain
    BY PairGain
  <1>2. Settles(p, q, d, a)
    BY <1>1 DEF Settling
  <1>3. PICK cut, left :
          /\ cut = CutBetween(EdgeWeight, owned[p], owned[q])
          /\ left = CutBetween(EdgeWeight, (owned[p] \ d) \cup a, (owned[q] \ a) \cup d)
    OBVIOUS
  <1>4. /\ CutSum(EdgeWeight, EffBlock') = CutSum(EdgeWeight, EffBlock) - 2 * (cut - left)
        /\ CutSum(EdgeWeight, EffBlock) \in Int
    <2>1. PInv
      BY DEF GInv
    <2>2. QED
      BY <1>1, <1>2, <1>3, <2>1, SettledCut
  <1>5. cut - left = fm[p].gain
    BY <1>1, <1>3
  <1>6. QED
    BY <1>1, <1>4, <1>5

\* Whichever of the two results is the better one.
LEMMA EitherAccount ==
  ASSUME GInv, NEW p \in PE, NEW q \in PE, Same(p, q), Same(q, p), Sent(p) = 5, Sent(q) = 5,
         Settling(p, q)
  PROVE  \E g \in Int :
           /\ CutSum(EdgeWeight, EffBlock') = CutSum(EdgeWeight, EffBlock) - 2 * g
           /\ CutSum(EdgeWeight, EffBlock) \in Int
           /\ gains[p][color[p]] = g /\ gains[q][color[p]] = g
  <1>1. color[q] = color[p] /\ p # q
    BY DEF Same, Meet
  <1>2. CASE OtherWasBetter(q)
    BY <1>2, PairAccount
  <1>3. CASE OtherWasBetter(p)
    <2>1. Settling(q, p)
      <3> SUFFICES ASSUME NEW d, NEW a, Settled(q, p, d, a) PROVE Settles(q, p, d, a)
        BY DEF Settling
      <3>1. Settled(p, q, a, d)
        BY DEF Settled
      <3>2. Settles(p, q, a, d)
        BY <3>1 DEF Settling
      <3>3. QED
        BY <3>2 DEF Settles
    <2>2. QED
      BY <1>1, <1>3, <2>1, PairAccount
  <1>4. OtherWasBetter(p) \/ OtherWasBetter(q)
    <2>1. Known(p, q) /\ Known(q, p) /\ Partner(p) = q /\ Partner(q) = p
      BY <1>1, InRoundOwned DEF GInv, PInv, Agreement, Agree
    <2>2. /\ otherGain[p] = fm[q].gain /\ otherGain[q] = fm[p].gain
          /\ fm[p].gain \in Int /\ fm[q].gain \in Int
      BY <2>1 DEF Known, GInv, PInv, Results, Result
    <2>3. p \in Int /\ q \in Int
      BY PEAssumption DEF PE
    <2>4. QED
      BY <1>1, <2>1, <2>2, <2>3 DEF OtherWasBetter
  <1>5. QED
    BY <1>2, <1>3, <1>4

\* The first process of a pair to apply the result brings the gains to account.
LEMMA ApplyResultGains ==
  ASSUME GInv, NEW p \in PE, ApplyResult(p)
  PROVE  GInv'
  <1>1. /\ start' = start /\ gains' = gains
        /\ \A x \in PE : x # p => border'[x] = border[x]
    BY DEF ApplyResult, GInv, PInv, LInv, IInv, Shapes
  <1>2. /\ Leaves(p) /\ Sent(p) = 5 /\ \A x \in PE : x # p => owned'[x] = owned[x]
        /\ \/ PartnerAhead(p) /\ EffBlock' = EffBlock
           \/ \E q \in PE : /\ Same(p, q) /\ Same(q, p) /\ Sent(q) = 5 /\ p # q
                            /\ Settling(p, q)
    BY ApplyResultLeaves DEF GInv, Settling
  <1>3. LInv /\ GainTypes
    BY DEF GInv, PInv, Gains, GainTypes
  <1>4. CASE PartnerAhead(p) /\ EffBlock' = EffBlock
    <2>1. GainSum' = GainSum
      BY <1>1, <1>2, <1>3, <1>4, LeaveGainNone
    <2>2. CutAccounting'
      BY <1>1, <1>4, <2>1, AccountSame DEF GInv
    <2>3. PInv'
      BY ApplyResultKeeps DEF GInv
    <2>4. QED
      BY <1>1, <1>2, <2>2, <2>3, LeaveGains
  <1>5. ASSUME NEW q \in PE, Same(p, q), Same(q, p), Sent(q) = 5, p # q, Settling(p, q)
        PROVE  GInv'
    <2>2. PICK g \in Int :
           /\ CutSum(EdgeWeight, EffBlock') = CutSum(EdgeWeight, EffBlock) - 2 * g
           /\ CutSum(EdgeWeight, EffBlock) \in Int
           /\ gains[p][color[p]] = g /\ gains[q][color[p]] = g
      BY <1>2, <1>5, EitherAccount
    <2>3. GainSum' = GainSum + gains[p][color[p]] + gains[q][color[p]] /\ GainSum \in Int
      BY <1>1, <1>2, <1>3, <1>5, LeaveGainPair
    <2>4. StartBlock' = StartBlock
      BY <1>1 DEF StartBlock
    <2>5. CutSum(EdgeWeight, StartBlock) \in Int
      <3>1. StartBlock \in [PE -> SUBSET DOMAIN EdgeWeight]
        BY GraphAssumption DEF StartBlock
      <3>2. IsFiniteSet(PE)
        BY PEAssumption, FS_Interval DEF PE
      <3>3. /\ IsFiniteSet(DOMAIN EdgeWeight)
            /\ \A n, m \in DOMAIN EdgeWeight : EdgeWeight[n][m] \in Int
        BY GraphAssumption
      <3>4. QED
        BY <3>1, <3>2, <3>3, CutSumType
    <2>6. CutAccounting'
      <3>1. CutSum(EdgeWeight, EffBlock) = CutSum(EdgeWeight, StartBlock) - GainSum
        BY DEF GInv, CutAccounting
      <3>2. CutSum(EdgeWeight, EffBlock') = CutSum(EdgeWeight, StartBlock) - GainSum'
        BY <2>2, <2>3, <2>5, <3>1
      <3>3. QED
        BY <2>4, <3>2 DEF CutAccounting
    <2>7. PInv'
      BY ApplyResultKeeps DEF GInv
    <2>8. QED
      BY <1>1, <1>2, <2>6, <2>7, LeaveGains
  <1>6. QED
    BY <1>2, <1>4, <1>5

\* After the last round the gains are what they were.
LEMMA SynchronizeGains ==
  ASSUME GInv, Synchronize
  PROVE  GInv'
  <1>1. /\ \A x \in PE : pc[x] = "round" /\ color[x] = Len(Scheme) + 1
        /\ pc' = [x \in PE |-> "done"]
        /\ UNCHANGED <<start, owned, border, color, chan, iface, halo, otherGain, fm, gains>>
    BY DEF Synchronize
  <1>2. \A x \in PE : Sent(x) = 0 /\ Sent(x)' = 0
    BY <1>1 DEF Sent, Stage
  <1>3. PInv'
    BY SynchronizeKeeps DEF GInv
  <1>4. BordersTrue'
    BY <1>1 DEF GInv, BordersTrue
  <1>5. Regions'
    BY <1>2 DEF Regions, Searched, Offered
  <1>6. Gains'
    <2>1. ASSUME NEW x \in PE PROVE Worth(x)' /\ Recorded(x)'
      <3>1. Recorded(x)
        BY DEF GInv, Gains
      <3>2. QED
        BY <1>1, <1>2, <3>1 DEF Worth, Recorded
    <2>2. QED
      BY <1>1, <2>1 DEF GInv, Gains
  <1>7. CutAccounting'
    <2>1. \A x \in PE : EffOwned(x)' = EffOwned(x)
      BY <1>1 DEF EffOwned
    <2>2. EffBlock' = EffBlock
      BY <2>1 DEF EffBlock
    <2>3. \A x \in PE, r \in DOMAIN Scheme : EffGain(x, r)' = EffGain(x, r)
      BY <1>1 DEF EffGain, PartnerAhead, Partner
    <2>4. QED
      BY <1>1, <2>2, <2>3, GainSumSame, AccountSame DEF GInv
  <1>8. QED
    BY <1>3, <1>4, <1>5, <1>6, <1>7 DEF GInv

\* Nothing changes, and neither do the gains.
LEMMA StutterGains ==
  ASSUME GInv, UNCHANGED vars
  PROVE  GInv'
  <1> USE DEF vars
  <1>1. PInv'
    BY StutterKeeps DEF GInv
  <1>2. \A x : Sent(x)' = Sent(x)
    BY DEF Sent
  <1>3. BordersTrue'
    BY DEF GInv, BordersTrue
  <1>4. Regions'
    <2>1. \A x, y \in PE : (Searched(x) => Searched(x)') /\ (Offered(x, y) => Offered(x, y)')
      BY <1>2 DEF Searched, Offered, Same, Meet
    <2>2. QED
      BY <2>1 DEF GInv, Regions
  <1>5. Gains'
    <2>1. \A x \in PE : (Worth(x) => Worth(x)') /\ (Recorded(x) => Recorded(x)')
      BY <1>2 DEF Worth, Recorded, Region
    <2>2. QED
      BY <2>1 DEF GInv, Gains
  <1>6. CutAccounting'
    <2>1. \A x \in PE : EffOwned(x)' = EffOwned(x)
      BY DEF EffOwned, PartnerAhead, Partner, NewLocal, Deleted, Added, FinalToSecond,
             OtherWasBetter, Region, Received
    <2>2. EffBlock' = EffBlock
      BY <2>1 DEF EffBlock
    <2>3. \A x \in PE, r \in DOMAIN Scheme : EffGain(x, r)' = EffGain(x, r)
      BY DEF EffGain, PartnerAhead, Partner
    <2>4. QED
      BY <2>2, <2>3, GainSumSame, AccountSame DEF GInv
  <1>7. QED
    BY <1>1, <1>3, <1>4, <1>5, <1>6 DEF GInv

\* At the start nothing has been gained.
LEMMA InitGInv == Init => GInv
  <1> SUFFICES ASSUME Init PROVE GInv
    OBVIOUS
  <1>1. PInv
    BY InitPInv
  <1>2. \A x \in PE : pc[x] = "round" /\ Sent(x) = 0 /\ color[x] = 1
    BY DEF Init, Sent, Stage
  <1>3. BordersTrue
    BY DEF Init, BordersTrue
  <1>4. Regions
    BY <1>2 DEF Regions, Searched, Offered
  <1>5. Gains
    BY <1>2 DEF Gains, Worth, Recorded, Init
  <1>6. CutAccounting
    <2>1. EffBlock = StartBlock
      <3>1. \A x \in PE : EffOwned(x) = owned[x]
        BY <1>2 DEF EffOwned
      <3>2. QED
        BY <3>1 DEF EffBlock, StartBlock, Init
    <2>2. GainSum = 0
      <3>1. \A x \in PE \X DOMAIN Scheme : EffGains[x] = 0
        BY DEF EffGains, EffGain, Init
      <3>2. QED
        BY <3>1, GainSumIsSum, SumZero
    <2>3. CutSum(EdgeWeight, StartBlock) \in Int
      <3>1. StartBlock \in [PE -> SUBSET DOMAIN EdgeWeight]
        BY GraphAssumption DEF StartBlock
      <3>2. IsFiniteSet(PE)
        BY PEAssumption, FS_Interval DEF PE
      <3>3. /\ IsFiniteSet(DOMAIN EdgeWeight)
            /\ \A n, m \in DOMAIN EdgeWeight : EdgeWeight[n][m] \in Int
        BY GraphAssumption
      <3>4. QED
        BY <3>1, <3>2, <3>3, CutSumType
    <2>4. QED
      BY <2>1, <2>2, <2>3 DEF CutAccounting
  <1>7. QED
    BY <1>1, <1>3, <1>4, <1>5, <1>6 DEF GInv

\* Every process takes the edges for what they are.
TrueViews == \A p \in PE : EdgeView(p) = EdgeWeight

\* As long as that is so, every step keeps the account.
LEMMA NextGInv == GInv /\ TrueViews /\ [Next]_vars => GInv'
  <1> SUFFICES ASSUME GInv, TrueViews, [Next]_vars PROVE GInv'
    OBVIOUS
  <1>1. ASSUME NEW p \in PE, Step(p) PROVE GInv'
    <2>1. EdgeView(p) = EdgeWeight
      BY DEF TrueViews
    <2>2. QED
      BY <1>1, <2>1, IdleGains, SendBorderGains, SwapSizesGains, SwapHaloGains, RefineGains,
         NoImprovementGains, SwapResultGains, ApplyResultGains DEF Step
  <1>2. CASE Synchronize
    BY <1>2, SynchronizeGains
  <1>3. CASE Returned \/ UNCHANGED vars
    BY <1>3, StutterGains DEF Returned
  <1>4. QED
    BY <1>1, <1>2, <1>3 DEF Next

\* The account is true in every run in which all processes see the edges as they are.
LEMMA SpecGInv == Spec /\ []TrueViews => []GInv
  BY InitGInv, NextGInv, PTL DEF Spec

\* An unweighted graph, or one in which every node with an edge of weight 1 has
\* a heavier one: no set of rows makes a process take the one for the other.
PlainEdges ==
  \/ \A n, m \in Node : EdgeWeight[n][m] <= 1
  \/ \A n \in Node : (\E m \in Node : EdgeWeight[n][m] = 1)
                       => \E m \in Node : EdgeWeight[n][m] > 1

\* In such a graph all processes see the edges as they are.
LEMMA PlainEdgesSeen ==
  ASSUME PlainEdges, NEW p \in PE, owned[p] \in SUBSET Node
  PROVE  EdgeView(p) = EdgeWeight
  <1> DEFINE D == owned[p] \X Node
             S == {0} \cup {EdgeWeight[n][m] : n \in owned[p], m \in Node}
             View(weighted) == [n \in Node |-> [m \in Node |->
               IF weighted \/ EdgeWeight[n][m] = 0 THEN EdgeWeight[n][m] ELSE 1]]
  <1>1. /\ IsFiniteSet(Node) /\ IsFiniteSet(owned[p])
        /\ \A n, m \in Node : EdgeWeight[n][m] \in Nat
        /\ EdgeWeight = [n \in Node |-> [m \in Node |-> EdgeWeight[n][m]]]
    BY GraphAssumption, FS_Subset
  <1>2. EdgeView(p) = View(Max(S) # 1)
    BY DEF EdgeView
  <1>3. View(TRUE) = EdgeWeight
    BY <1>1
  <1>4. CASE \A n, m \in Node : EdgeWeight[n][m] <= 1
    <2>1. View(FALSE) = EdgeWeight
      <3>1. \A n, m \in Node : EdgeWeight[n][m] = 0 \/ EdgeWeight[n][m] = 1
        <4> SUFFICES ASSUME NEW n \in Node, NEW m \in Node
                     PROVE  EdgeWeight[n][m] = 0 \/ EdgeWeight[n][m] = 1
          OBVIOUS
        <4>1. EdgeWeight[n][m] \in Nat /\ EdgeWeight[n][m] <= 1
          BY <1>1, <1>4
        <4>2. QED
          BY <4>1
      <3>2. QED
        BY <1>1, <3>1
    <2> HIDE DEF View, S
    <2>2. CASE Max(S) # 1
      BY <1>2, <1>3, <2>2
    <2>3. CASE Max(S) = 1
      BY <1>2, <2>1, <2>3
    <2>4. QED
      BY <2>2, <2>3
  <1>5. CASE \A n \in Node : (\E m \in Node : EdgeWeight[n][m] = 1)
                               => \E m \in Node : EdgeWeight[n][m] > 1
    <2>1. IsFiniteSet(S)
      <3>1. S = {0} \cup Entries(EdgeWeight, owned[p], Node)
        BY DEF Entries
      <3>2. IsFiniteSet(Entries(EdgeWeight, owned[p], Node)) /\ IsFiniteSet({0})
        BY <1>1, FiniteEntries, FS_Singleton
      <3> HIDE DEF S
      <3>3. QED
        BY <3>1, <3>2, FS_Union
    <2>2. \A x \in S : x \in Int
      BY <1>1
    <2>3. Max(S) \in S /\ \A y \in S : Max(S) >= y
      <3>1. \E x \in S : \A y \in S : x >= y
        <4>1. S # {}
          OBVIOUS
        <4> HIDE DEF S
        <4>2. PICK f : f = [x \in S |-> x]
          OBVIOUS
        <4>3. \A x \in S : f[x] \in Int
          BY <2>2, <4>2
        <4>4. \E x \in S : \A y \in S : f[y] <= f[x]
          BY <2>1, <4>1, <4>3, FiniteMax
        <4>5. QED
          BY <2>2, <4>2, <4>4
      <3> HIDE DEF S
      <3>2. QED
        BY <3>1 DEF Max
    <2>4. Max(S) # 1
      <3> SUFFICES ASSUME Max(S) = 1 PROVE FALSE
        OBVIOUS
      <3>1. 1 \in S /\ \A y \in S : y <= 1
        BY <2>2, <2>3
      <3>2. PICK n \in owned[p], m \in Node : EdgeWeight[n][m] = 1
        BY <3>1
      <3>3. PICK l \in Node : EdgeWeight[n][l] > 1
        BY <1>5, <3>2
      <3>4. EdgeWeight[n][l] \in S /\ EdgeWeight[n][l] \in Nat
        BY <1>1
      <3> HIDE DEF S
      <3>5. ~ (EdgeWeight[n][l] <= 1)
        BY <3>3, <3>4
      <3>6. QED
        BY <3>1, <3>4, <3>5
    <2> HIDE DEF View, S
    <2>5. QED
      BY <1>2, <1>3, <2>4
  <1>6. QED
    BY <1>4, <1>5 DEF PlainEdges

\* The total cut falls by exactly the gains the processes report, whatever pairs
\* work at the same time, as long as no process can take weighted edges for
\* unweighted ones.  (Where one can, the account fails.)
THEOREM GainsAreReal == PlainEdges => (Spec => []CutAccounting)
  <1> SUFFICES ASSUME PlainEdges PROVE Spec => []CutAccounting
    OBVIOUS
  <1>1. IInv => TrueViews
    BY PlainEdgesSeen DEF IInv, Shapes, TrueViews
  <1>2. GInv => CutAccounting
    BY DEF GInv
  <1>3. QED
    BY <1>1, <1>2, AlwaysIInv, SpecGInv, PTL

(***************************************************************************)
(* The refinement.  DistributedFM implements PairwiseRefinement: the       *)
(* abstract step of a pair is the one in which the first of the two leaves *)
(* the round.                                                              *)
(***************************************************************************)

\* ----- The rounds as the processes of a pair have settled them.

\* A process that enters a round is not late for it: its partner there waits.
LEMMA NobodyMissed ==
  ASSUME LInv, NEW p \in PE, Leaves(p)
  PROVE  ~ PartnerAhead(p)'
  <1>1. /\ color'[p] = color[p] + 1
        /\ \A x \in PE : x # p => color'[x] = color[x]
        /\ \A x \in PE : color[x] \in Int
    BY LeavesEffect DEF LInv, Types
  <1> SUFFICES ASSUME PartnerAhead(p)' PROVE FALSE
    OBVIOUS
  <1>2. PICK r : r = color[p] + 1
    OBVIOUS
  <1>3. PICK y : y = Scheme[r][p]
    OBVIOUS
  <1>4. r \in DOMAIN Scheme /\ color'[y] > r
    BY <1>1, <1>2, <1>3 DEF PartnerAhead, Partner
  <1>5. y \in PE /\ Scheme[r][y] = p
    BY <1>3, <1>4, SchemeAssumption
  <1>6. y # p /\ color[y] > r
    BY <1>1, <1>2, <1>4, <1>5
  <1>7. Meet(y, p, r) /\ Link(y, p)
    BY <1>4, <1>5, <1>6 DEF Meet, LInv, Links
  <1>8. color[p] >= r
    BY <1>4, <1>6, <1>7 DEF Link
  <1>9. QED
    BY <1>1, <1>2, <1>8

\* The end of a round counts for both of a pair when the first one leaves.
LEMMA LeaveRounds ==
  ASSUME LInv, NEW p \in PE, Leaves(p)
  PROVE  /\ EffRound[p] = IF PartnerAhead(p) THEN color[p] + 1 ELSE color[p]
         /\ EffRound'[p] = color[p] + 1
         /\ \A x \in PE : Same(p, x) => EffRound[x] = color[p] /\ EffRound'[x] = color[p] + 1
         /\ \A x \in PE : x # p /\ ~ Same(p, x) => EffRound'[x] = EffRound[x]
  <1>1. /\ color'[p] = color[p] + 1
        /\ \A x \in PE : x # p => color'[x] = color[x]
        /\ \A x \in PE : color[x] \in Int
    BY LeavesEffect DEF LInv, Types
  <1>2. EffRound'[p] = color[p] + 1
    BY <1>1, NobodyMissed DEF EffRound
  <1>3. ASSUME NEW x \in PE, Same(p, x)
        PROVE  EffRound[x] = color[p] /\ EffRound'[x] = color[p] + 1
    <2>1. /\ color[x] = color[p] /\ x # p /\ color[x] \in DOMAIN Scheme
          /\ Scheme[color[x]][x] = p
      BY <1>3, MeetSymmetric DEF Same, Meet
    <2>2. Partner(x) = p /\ Partner(x)' = p
      BY <1>1, <2>1 DEF Partner
    <2>3. color'[p] > color'[x] /\ ~ (color[p] > color[x]) /\ color'[x] = color[x]
      BY <1>1, <2>1
    <2>4. PartnerAhead(x)' /\ ~ PartnerAhead(x)
      BY <2>1, <2>2, <2>3 DEF PartnerAhead
    <2>5. QED
      BY <1>1, <2>1, <2>4 DEF EffRound
  <1>4. ASSUME NEW x \in PE, x # p, ~ Same(p, x)
        PROVE  EffRound'[x] = EffRound[x]
    <2>1. color'[x] = color[x]
      BY <1>1, <1>4
    <2>2. CASE color[x] \in DOMAIN Scheme /\ Partner(x) = p
      <3>1. Meet(p, x, color[x])
        BY <1>4, <2>2, SchemeAssumption DEF Meet, Partner
      <3>2. color[x] # color[p]
        BY <1>4, <3>1 DEF Same
      <3>3. color[p] > color[x] <=> color'[p] > color[x]
        BY <1>1, <3>2
      <3>4. Partner(x)' = p
        BY <2>1, <2>2 DEF Partner
      <3>5. QED
        BY <2>1, <2>2, <3>3, <3>4 DEF EffRound, PartnerAhead
    <2>3. CASE color[x] \in DOMAIN Scheme /\ Partner(x) # p
      <3>1. Partner(x) \in PE
        BY <2>3, SchemeAssumption DEF Partner
      <3>2. Partner(x)' = Partner(x) /\ color'[Partner(x)] = color[Partner(x)]
        BY <1>1, <2>1, <2>3, <3>1 DEF Partner
      <3>3. QED
        BY <2>1, <2>3, <3>2 DEF EffRound, PartnerAhead
    <2>4. CASE color[x] \notin DOMAIN Scheme
      BY <2>1, <2>4 DEF EffRound, PartnerAhead
    <2>5. QED
      BY <2>2, <2>3, <2>4
  <1>5. EffRound[p] = IF PartnerAhead(p) THEN color[p] + 1 ELSE color[p]
    BY DEF EffRound
  <1>6. QED
    BY <1>2, <1>3, <1>4, <1>5

\* A pair that has settled nothing new, or a process whose partner has settled
\* before it, does not change what the abstract sweep sees.
Unseen == start' = start /\ EffBlock' = EffBlock /\ EffRound' = EffRound

\* Inside a round.
LEMMA FurtherUnseen ==
  ASSUME PInv, NEW p \in PE,
         \/ SendBorder(p) \/ SwapSizes(p) \/ SwapHalo(p)
         \/ RefineAndSwapGain(p) \/ SwapResult(p)
  PROVE  Unseen
  <1>1. PICK q, k, m : q \in PE /\ Further(p, q, k, m)
    BY SwapGoesFurther
  <1>2. /\ UNCHANGED <<start, owned>>
        /\ \A x \in PE : x # p =>
             /\ iface'[x] = iface[x] /\ halo'[x] = halo[x] /\ fm'[x] = fm[x]
             /\ otherWeight'[x] = otherWeight[x] /\ otherGain'[x] = otherGain[x]
    BY DEF SendBorder, SwapSizes, SwapHalo, RefineAndSwapGain, SwapResult, PInv, LInv, IInv,
           Shapes, Domains
  <1>3. EffBlock' = EffBlock
    BY <1>1, <1>2, AdvanceEff DEF PInv
  <1>4. EffRound' = EffRound
    BY <1>1 DEF Further, EffRound, PartnerAhead, Partner
  <1>5. QED
    BY <1>2, <1>3, <1>4 DEF Unseen

\* Behind the last round.
LEMMA RestUnseen ==
  ASSUME Synchronize \/ UNCHANGED vars
  PROVE  Unseen
  <1>1. EffRound' = EffRound /\ start' = start
    BY DEF Synchronize, vars, EffRound, PartnerAhead, Partner
  <1>2. \A x \in PE : EffOwned(x)' = EffOwned(x)
    <2>1. CASE Synchronize
      BY <2>1 DEF Synchronize, EffOwned
    <2>2. CASE UNCHANGED vars
      BY <2>2 DEF vars, EffOwned, PartnerAhead, Partner, NewLocal, Deleted, Added,
                  FinalToSecond, OtherWasBetter, Region, Received
    <2>3. QED
      BY <2>1, <2>2
  <1>3. EffBlock' = EffBlock
    BY <1>2 DEF EffBlock
  <1>4. QED
    BY <1>1, <1>3 DEF Unseen

\* The abstract sweep measures weights and cuts as the concrete one.
LEMMA SameMeasures ==
  ASSUME NEW w, NEW S
  PROVE  Abs!WeightOf(w, S) = WeightOf(w, S) /\ Abs!CutSum(w, S) = CutSum(w, S)
  <1>1. Abs!WeightOf(w, S) = WeightOf(w, S)
    BY Zenon DEF WeightOf, MapThenSumSet, MapThenFoldSet,
       Abs!WeightOf, Abs!MapThenSumSet, Abs!MapThenFoldSet
  <1>2. Abs!CutSum(w, S) = CutSum(w, S)
    BY Zenon DEF CutSum, CutBetween, MapThenSumSet, MapThenFoldSet,
       Abs!CutSum, Abs!CutBetween, Abs!MapThenSumSet, Abs!MapThenFoldSet
  <1>3. QED
    BY <1>1, <1>2

\* p leaves a round without a partner.
LEMMA IdleRefines ==
  ASSUME PInv, NEW p \in PE, Idle(p)
  PROVE  Abs!Idle(p)
  <1>1. /\ Leaves(p) /\ (\A x \in PE : ~ Same(p, x)) /\ EffBlock' = EffBlock /\ start' = start
        /\ color[p] \in DOMAIN Scheme /\ Scheme[color[p]][p] = p
    BY IdleLeaves DEF Idle, Partner
  <1>2. color[p] \in Int
    BY DEF PInv, LInv, Types
  <1>3. ~ PartnerAhead(p)
    BY <1>1, <1>2 DEF PartnerAhead, Partner
  <1>4. /\ EffRound[p] = color[p] /\ EffRound'[p] = color[p] + 1
        /\ \A x \in PE : x # p => EffRound'[x] = EffRound[x]
    BY <1>1, <1>3, LeaveRounds DEF PInv
  <1>5. EffRound' = [EffRound EXCEPT ![p] = @ + 1]
    BY <1>4 DEF EffRound
  <1>6. QED
    BY <1>1, <1>4, <1>5 DEF Abs!Idle

\* The first process of a pair that leaves the round takes both to the next one.
LEMMA PairRounds ==
  ASSUME PInv, NEW p \in PE, NEW q \in PE, Leaves(p), Same(p, q)
  PROVE  /\ EffRound[p] \in DOMAIN Scheme /\ Scheme[EffRound[p]][p] = q
         /\ EffRound[q] = EffRound[p] /\ p # q
         /\ EffRound' = [EffRound EXCEPT ![p] = @ + 1, ![q] = @ + 1]
  <1>1. /\ color[p] \in DOMAIN Scheme /\ Scheme[color[p]][p] = q /\ p # q
        /\ color[q] = color[p] /\ color[p] \in Int
    BY DEF Same, Meet, PInv, LInv, Types
  <1>2. ~ PartnerAhead(p)
    BY <1>1 DEF PartnerAhead, Partner
  <1>3. \A x \in PE : Same(p, x) => x = q
    BY <1>1 DEF Same, Meet
  <1>4. /\ EffRound[p] = color[p] /\ EffRound'[p] = color[p] + 1
        /\ EffRound[q] = color[p] /\ EffRound'[q] = color[p] + 1
        /\ \A x \in PE : x # p /\ x # q => EffRound'[x] = EffRound[x]
    BY <1>2, <1>3, LeaveRounds DEF PInv
  <1>5. EffRound' = [EffRound EXCEPT ![p] = @ + 1, ![q] = @ + 1]
    BY <1>1, <1>4 DEF EffRound
  <1>6. QED
    BY <1>1, <1>4, <1>5

\* A process that leaves a round after its partner follows only.
LEMMA FollowerUnseen ==
  ASSUME PInv, NEW p \in PE, Leaves(p), PartnerAhead(p), EffBlock' = EffBlock, start' = start
  PROVE  Unseen
  <1>1. \A x \in PE : ~ Same(p, x)
    <2>1. \A x \in PE : color[x] \in Int
      BY DEF PInv, LInv, Types
    <2>2. QED
      BY <2>1 DEF PartnerAhead, Same, Meet, Partner
  <1>2. \A x \in PE : EffRound'[x] = EffRound[x]
    BY <1>1, LeaveRounds DEF PInv
  <1>3. EffRound' = EffRound
    BY <1>2 DEF EffRound
  <1>4. QED
    BY <1>3 DEF Unseen

\* The pair has found no improvement.
LEMMA NoImprovementRefines ==
  ASSUME PInv, NEW p \in PE, NoImprovement(p)
  PROVE  Unseen \/ \E q \in PE : Abs!Refine(p, q)
  <1>1. Leaves(p) /\ EffBlock' = EffBlock /\ start' = start /\ pc[p] = "gain" /\ HasMessage(p)
    BY NoImprovementLeaves DEF NoImprovement
  <1>2. CASE \E q \in PE : Same(p, q)
    <2>1. PICK q \in PE : Same(p, q)
      BY <1>2
    <2>2. Abs!Refine(p, q)
      BY <1>1, <2>1, PairRounds DEF Abs!Refine
    <2>3. QED
      BY <2>2
  <1>3. CASE \A q \in PE : ~ Same(p, q)
    <2>1. Partner(p) \in PE /\ Behind(p, Partner(p))
      BY <1>1, <1>3, InRound
    <2>2. PartnerAhead(p)
      BY <2>1 DEF PartnerAhead, Behind, Meet
    <2>3. QED
      BY <1>1, <2>2, FollowerUnseen
  <1>4. QED
    BY <1>2, <1>3

\* The better result of the two has a gain.
LEMMA GainPositive ==
  ASSUME GInv, NEW p \in PE, NEW q \in PE, Same(p, q), Sent(p) = 5, Sent(q) = 5
  PROVE  gains[p][color[p]] > 0
  <1>1. /\ color[p] \in DOMAIN Scheme /\ p # q
        /\ Same(q, p)
    BY MeetSymmetric DEF Same, Meet
  <1>2. Known(p, q)
    BY <1>1 DEF GInv, PInv, Agreement, Agree
  <1>3. PICK a, b : a = fm[p].gain /\ b = otherGain[p]
    OBVIOUS
  <1>4. /\ a \in Int /\ b \in Int /\ (a > 0 \/ b > 0)
    BY <1>2, <1>3 DEF Known, GInv, PInv, Results, Result
  <1>5. gains[p][color[p]] = Max({a, b})
    BY <1>1, <1>3 DEF GInv, Gains, Recorded
  <1>6. QED
    BY <1>4, <1>5, MaxTwo

\* The first process of a pair to apply the result makes the abstract step.
LEMMA ApplyResultRefines ==
  ASSUME GInv, NEW p \in PE, ApplyResult(p)
  PROVE  Unseen \/ \E q \in PE : Abs!Refine(p, q)
  <1>1. /\ start' = start
        /\ Leaves(p) /\ Sent(p) = 5
        /\ \/ PartnerAhead(p) /\ EffBlock' = EffBlock
           \/ \E q \in PE : /\ Same(p, q) /\ Same(q, p) /\ Sent(q) = 5 /\ p # q
                            /\ Settling(p, q)
    BY ApplyResultLeaves DEF ApplyResult, GInv, Settling
  <1>2. CASE PartnerAhead(p) /\ EffBlock' = EffBlock
    BY <1>1, <1>2, FollowerUnseen DEF GInv
  <1>3. ASSUME NEW q \in PE, Same(p, q), Same(q, p), Sent(q) = 5, p # q, Settling(p, q)
        PROVE  Abs!Refine(p, q)
    <2>1. CutSum(EdgeWeight, EffBlock') < CutSum(EdgeWeight, EffBlock)
      <3>1. PICK g \in Int :
              /\ CutSum(EdgeWeight, EffBlock') = CutSum(EdgeWeight, EffBlock) - 2 * g
              /\ CutSum(EdgeWeight, EffBlock) \in Int
              /\ gains[p][color[p]] = g
        BY <1>1, <1>3, EitherAccount
      <3>2. g > 0
        BY <1>1, <1>3, <3>1, GainPositive
      <3>3. QED
        BY <3>1, <3>2
    <2>2. PICK d, a : Settled(p, q, d, a)
      BY <1>1, <1>3, PairSettles DEF GInv, PInv
    <2>3. Settles(p, q, d, a)
      BY <1>3, <2>2 DEF Settling
    <2>4. PICK old : old = EffBlock
      OBVIOUS
    <2>5. PICK new : new = EffBlock'
      OBVIOUS
    <2>6. /\ old[p] = owned[p] /\ old[q] = owned[q]
          /\ new[p] = (owned[p] \ d) \cup a /\ new[q] = (owned[q] \ a) \cup d
          /\ \A x \in PE : x # p /\ x # q => new[x] = old[x]
          /\ DOMAIN old = PE /\ DOMAIN new = PE
          /\ new = [x \in PE |-> new[x]]
      BY <2>3, <2>4, <2>5 DEF Settles, EffBlock
    <2>7. d \subseteq owned[p] /\ a \subseteq owned[q] /\ owned[p] \cap owned[q] = {}
      BY <2>2 DEF Settled
    <2>8. Abs!Exchange(p, q)
      <3>1. /\ new[p] \in SUBSET (old[p] \cup old[q])
            /\ new[q] = (old[p] \cup old[q]) \ new[p]
        BY <2>6, <2>7
      <3>2. new = [old EXCEPT ![p] = new[p], ![q] = (old[p] \cup old[q]) \ new[p]]
        BY <1>3, <2>6, <3>1
      <3>3. QED
        BY <2>4, <2>5, <3>1, <3>2 DEF Abs!Exchange
    <2>9. Abs!BothFit(p, q)
      <3>1. WeightOf(NodeWeight, new[p]) <= Capacity /\ WeightOf(NodeWeight, new[q]) <= Capacity
        BY <2>2, <2>6 DEF Settled
      <3>2. /\ Abs!WeightOf(NodeWeight, new[p]) <= Capacity
            /\ Abs!WeightOf(NodeWeight, new[q]) <= Capacity
        BY <3>1, SameMeasures
      <3>3. QED
        BY <2>5, <3>2 DEF Abs!BothFit
    <2>10. Abs!CutSum(EdgeWeight, EffBlock') < Abs!CutSum(EdgeWeight, EffBlock)
      <3>1. CutSum(EdgeWeight, new) < CutSum(EdgeWeight, old)
        BY <2>1, <2>4, <2>5
      <3>2. Abs!CutSum(EdgeWeight, new) < Abs!CutSum(EdgeWeight, old)
        BY <3>1, SameMeasures
      <3>3. QED
        BY <2>4, <2>5, <3>2
    <2>11. QED
      BY <1>1, <1>3, <2>8, <2>9, <2>10, PairRounds DEF GInv, Abs!Refine
  <1>4. QED
    BY <1>1, <1>2, <1>3

\* Every step is one of the abstract sweep, or not seen by it.
LEMMA NextRefines == GInv /\ [Next]_vars => [Abs!Next]_(Abs!vars)
  <1> SUFFICES ASSUME GInv, [Next]_vars PROVE Abs!Next \/ Unseen
    BY DEF Unseen, Abs!vars
  <1>1. ASSUME NEW p \in PE, Step(p) PROVE Abs!Next \/ Unseen
    <2>1. PInv
      BY DEF GInv
    <2>2. CASE Idle(p)
      <3>1. Abs!Idle(p)
        BY <2>1, <2>2, IdleRefines
      <3>2. p \in Abs!PE
        BY DEF PE, Abs!PE
      <3>3. QED
        BY <3>1, <3>2 DEF Abs!Next
    <2>3. CASE NoImprovement(p) \/ ApplyResult(p)
      <3>1. Unseen \/ \E q \in PE : Abs!Refine(p, q)
        BY <2>1, <2>3, NoImprovementRefines, ApplyResultRefines
      <3>2. PE = Abs!PE
        BY DEF PE, Abs!PE
      <3>3. QED
        BY <3>1, <3>2 DEF Abs!Next
    <2>4. QED
      BY <1>1, <2>1, <2>2, <2>3, FurtherUnseen DEF Step
  <1>2. CASE Synchronize \/ Returned \/ UNCHANGED vars
    BY <1>2, RestUnseen DEF Returned
  <1>3. QED
    BY <1>1, <1>2 DEF Next

\* A sweep starts where the abstract one does.
LEMMA InitRefines == Init => Abs!Init
  <1> SUFFICES ASSUME Init PROVE Abs!Init
    OBVIOUS
  <1>1. \A x \in PE : pc[x] = "round" /\ color[x] = 1
    BY DEF Init
  <1>2. EffBlock = Abs!StartBlock
    BY <1>1 DEF EffBlock, EffOwned, Init, StartBlock, Abs!StartBlock, PE, Abs!PE
  <1>3. \A x \in PE : ~ PartnerAhead(x)
    <2>1. ASSUME NEW x \in PE, color[x] \in DOMAIN Scheme PROVE Partner(x) \in PE
      BY <2>1, SchemeAssumption DEF Partner
    <2>2. QED
      BY <1>1, <2>1 DEF PartnerAhead
  <1>4. EffRound = [x \in Abs!PE |-> 1]
    BY <1>1, <1>3 DEF EffRound, PE, Abs!PE
  <1>5. QED
    BY <1>2, <1>4 DEF Abs!Init, Init

\* Whatever the interleaving of the processes and however far one is ahead of
\* another, a sweep amounts to whole steps of pairs one after the other, each of
\* which lowers the cut and leaves both blocks within the capacity.
THEOREM SweepRefines == PlainEdges => (Spec => RefinesPairwise)
  <1> SUFFICES ASSUME PlainEdges PROVE Spec => RefinesPairwise
    OBVIOUS
  <1>1. IInv => TrueViews
    BY PlainEdgesSeen DEF IInv, Shapes, TrueViews
  <1>2. QED
    BY <1>1, AlwaysIInv, SpecGInv, InitRefines, NextRefines, PTL DEF Spec, RefinesPairwise, Abs!Spec

(***************************************************************************)
(* The promise of the abstract sweep itself, for variables of its own and  *)
(* so for everything that implements it.  OneOwner is inductive as it      *)
(* stands.  OverloadNeverGrows is, too, once the start partition is known  *)
(* to stay the same.                                                       *)
(***************************************************************************)
VARIABLES anyBlock, anyRound

Sweep == INSTANCE PairwiseRefinement WITH block <- anyBlock, round <- anyRound

\* Exchanging nodes between two blocks keeps the blocks a partition.
LEMMA ExchangePartition ==
  ASSUME Sweep!OneOwner, anyBlock \in [Sweep!PE -> SUBSET Node],
         NEW p \in Sweep!PE, NEW q \in Sweep!PE, p # q, Sweep!Exchange(p, q)
  PROVE  Sweep!OneOwner' /\ anyBlock' \in [Sweep!PE -> SUBSET Node]
  <1>1. PICK new \in SUBSET (anyBlock[p] \cup anyBlock[q]) :
          anyBlock' = [anyBlock EXCEPT ![p] = new,
                                 ![q] = (anyBlock[p] \cup anyBlock[q]) \ new]
    BY DEF Sweep!Exchange
  <1>2. /\ anyBlock'[p] = new /\ anyBlock'[q] = (anyBlock[p] \cup anyBlock[q]) \ new
        /\ \A r \in Sweep!PE \ {p, q} : anyBlock'[r] = anyBlock[r]
        /\ anyBlock' \in [Sweep!PE -> SUBSET Node]
    BY <1>1
  <1>3. ASSUME NEW n \in Node
        PROVE  \E r \in Sweep!PE : /\ n \in anyBlock'[r]
                                   /\ \A s \in Sweep!PE \ {r} : n \notin anyBlock'[s]
    <2>1. PICK r \in Sweep!PE : n \in anyBlock[r] /\ \A s \in Sweep!PE \ {r} : n \notin anyBlock[s]
      BY DEF Sweep!OneOwner
    <2>2. CASE r \notin {p, q}
      <3>1. n \notin anyBlock[p] /\ n \notin anyBlock[q]
        BY <2>1, <2>2
      <3>2. n \in anyBlock'[r] /\ \A s \in Sweep!PE \ {r} : n \notin anyBlock'[s]
        BY <1>2, <2>1, <2>2, <3>1
      <3>3. QED
        BY <3>2
    <2>3. CASE r \in {p, q} /\ n \in new
      <3>1. n \in anyBlock'[p] /\ \A s \in Sweep!PE \ {p} : n \notin anyBlock'[s]
        BY <1>2, <2>1, <2>3
      <3>2. QED
        BY <3>1
    <2>4. CASE r \in {p, q} /\ n \notin new
      <3>1. n \in anyBlock'[q] /\ \A s \in Sweep!PE \ {q} : n \notin anyBlock'[s]
        BY <1>2, <2>1, <2>4
      <3>2. QED
        BY <3>1
    <2>5. QED
      BY <2>2, <2>3, <2>4
  <1>4. QED
    BY <1>2, <1>3 DEF Sweep!OneOwner

\* In every state of a sweep each node belongs to exactly one block.
THEOREM AlwaysOneOwner ==
  ASSUME StartOwners \subseteq [Node -> Sweep!PE]
  PROVE  Sweep!Spec => [](Sweep!OneOwner /\ anyBlock \in [Sweep!PE -> SUBSET Node])
  <1> DEFINE Inv == Sweep!OneOwner /\ anyBlock \in [Sweep!PE -> SUBSET Node]
  <1>1. Sweep!Init => Inv
    <2> SUFFICES ASSUME Sweep!Init PROVE Inv
      OBVIOUS
    <2>1. start \in [Node -> Sweep!PE]
      BY DEF Sweep!Init
    <2>2. \A p \in Sweep!PE : anyBlock[p] = {n \in Node : start[n] = p}
      BY DEF Sweep!Init, Sweep!StartBlock
    <2>3. anyBlock \in [Sweep!PE -> SUBSET Node]
      BY DEF Sweep!Init, Sweep!StartBlock
    <2>4. ASSUME NEW n \in Node
          PROVE  /\ start[n] \in Sweep!PE
                 /\ n \in anyBlock[start[n]]
                 /\ \A q \in Sweep!PE \ {start[n]} : n \notin anyBlock[q]
      BY <2>1, <2>2
    <2>5. QED
      BY <2>3, <2>4 DEF Sweep!OneOwner
  <1>2. Inv /\ [Sweep!Next]_(Sweep!vars) => Inv'
    <2> SUFFICES ASSUME Inv, [Sweep!Next]_(Sweep!vars) PROVE Inv'
      OBVIOUS
    <2>1. CASE anyBlock' = anyBlock
      BY <2>1 DEF Sweep!OneOwner
    <2>2. ASSUME NEW p \in Sweep!PE, NEW q \in Sweep!PE, p # q, Sweep!Exchange(p, q) PROVE Inv'
      BY <2>2, ExchangePartition
    <2>3. QED
      BY <2>1, <2>2 DEF Sweep!Next, Sweep!Idle, Sweep!Refine, Sweep!Returned, Sweep!vars
  <1>3. QED
    BY <1>1, <1>2, PTL DEF Sweep!Spec

\* No block outgrows the capacity in a sweep; one that was too large before it
\* either is untouched or fits now.
THEOREM OverloadBounded ==
  ASSUME StartOwners \subseteq [Node -> Sweep!PE]
  PROVE  Sweep!Spec => []Sweep!OverloadNeverGrows
  <1>1. Sweep!Init => Sweep!OverloadNeverGrows
    BY DEF Sweep!Init, Sweep!OverloadNeverGrows
  <1>2. anyBlock \in [Sweep!PE -> SUBSET Node] /\ Sweep!OverloadNeverGrows
          /\ [Sweep!Next]_(Sweep!vars) => Sweep!OverloadNeverGrows'
    <2> SUFFICES ASSUME anyBlock \in [Sweep!PE -> SUBSET Node], Sweep!OverloadNeverGrows,
                        [Sweep!Next]_(Sweep!vars)
                 PROVE  Sweep!OverloadNeverGrows'
      OBVIOUS
    <2>1. start' = start /\ Sweep!StartBlock' = Sweep!StartBlock
      BY DEF Sweep!Next, Sweep!Idle, Sweep!Refine, Sweep!Returned, Sweep!vars, Sweep!StartBlock
    <2>2. CASE anyBlock' = anyBlock
      BY <2>1, <2>2 DEF Sweep!OverloadNeverGrows
    <2>3. ASSUME NEW p \in Sweep!PE, NEW q \in Sweep!PE, Sweep!Exchange(p, q), Sweep!BothFit(p, q)
          PROVE  Sweep!OverloadNeverGrows'
      <3>1. \A r \in Sweep!PE \ {p, q} : anyBlock'[r] = anyBlock[r]
        BY <2>3 DEF Sweep!Exchange
      <3>2. \A r \in {p, q} : Sweep!WeightOf(NodeWeight, anyBlock'[r]) <= Capacity
        BY <2>3 DEF Sweep!BothFit
      <3>3. QED
        BY <2>1, <3>1, <3>2 DEF Sweep!OverloadNeverGrows
    <2>4. QED
      BY <2>2, <2>3 DEF Sweep!Next, Sweep!Idle, Sweep!Refine, Sweep!Returned, Sweep!vars
  <1>3. QED
    BY <1>1, <1>2, AlwaysOneOwner, PTL DEF Sweep!Spec
=============================================================================
