------------------------------- MODULE FileIO -------------------------------
(***************************************************************************)
(* Files that P processes write together and any number of processes read  *)
(* together (FileIO.cpp): graphs, coordinates, partitions, block sizes,    *)
(* edge lists, surfaces and trees of processors; and structured grids,     *)
(* which the processes generate instead.  A file is a header and its       *)
(* lines, the last of which may lack its end; a line is the sequence of    *)
(* its numbers.                                                            *)
(*                                                                         *)
(* A process works alone between two collective operations and may throw;  *)
(* the others then wait in the next one.  The program is built without     *)
(* assert() (CMakeLists.txt: Release), but SCAI_ASSERT stays.              *)
(***************************************************************************)
EXTENDS EdgeList, CommTree, StructuredMesh

CONSTANTS
  P,     \* number of processes that write
  Jobs   \* each a format, the rows of all points and who owns each point, or
         \* the lines of a file; the damage done to the file; the dimension
         \* and the number of processes to read with

VARIABLES
  job,     \* the job
  pc,      \* where each process is: the writers, later the readers
  round,   \* whose turn it is to write
  file,    \* the file
  got      \* what each reader has
vars == <<job, pc, round, file, got>>

PE == 0 .. (P - 1)
In(formats) == job.format \in formats
Meshes == {"mesh", "meshseq"}
N == IF In(Meshes) THEN NumPoints(job.head)
     ELSE IF In({"mmcoords", "edges"}) THEN job.head[1] ELSE Len(job.rows)
Everybody(where) == \A p \in DOMAIN pc : pc[p] = where
Goto(p, where) == pc' = [pc EXCEPT ![p] = where]
Together(where) == pc' = [p \in DOMAIN pc |-> where]
NumEntries(rows) == FoldLeft(LAMBDA sum, row : sum + Len(row), 0, rows)

InTurns == {"partition", "vector", "bincoords", "input"}
Written == {"graph", "coords", "central"} \cup InTurns

Init ==
  /\ job \in Jobs
  /\ pc = [p \in PE |-> IF In(Written) THEN "start" ELSE "written"]
  /\ round = 0 /\ got = <<>>
  /\ file = [head |-> job.head, lines |-> IF In(Written) THEN <<>> ELSE job.rows, closed |-> TRUE]

\* scai's block distribution: blocks of n / size rounded up.
BlockRange(q, n, size) ==
  LET b == (n + size - 1) \div size
  IN [begin |-> Min({q * b, n}), end |-> Min({(q + 1) * b, n})]
Length(range) == range.end - range.begin

-----------------------------------------------------------------------------
(* Writing.                                                                *)

\* Graphs, coordinates and central vectors are replicated and written by
\* process 0.
WriteReplicated(format, head) ==
  /\ Everybody("start") /\ In({format})
  /\ file' = [file EXCEPT !.lines = job.rows, !.head = head]
  /\ Together("written")
  /\ UNCHANGED <<job, round, got>>

\* The header of a graph has the number of nodes and of edges, of weights of a
\* node (writeGraph writes none) and of an edge.
WriteGraph ==
  LET numEdges == NumEntries(job.rows) \div (2 * (1 + job.head[2]))
  IN WriteReplicated("graph", <<N, numEdges, 0, job.head[2]>>)
WriteCoords == WriteReplicated("coords", <<>>)
WriteDenseVectorCentral == WriteReplicated("central", <<>>)

OwnRows(p) ==
  LET own == SelectSeq([i \in 1 .. N |-> i], LAMBDA i : job.owner[i] = p)
  IN [i \in DOMAIN own |-> job.rows[own[i]]]

\* Binary coordinates must be distributed in blocks.
StartTurns(p) ==
  /\ pc[p] = "start" /\ In(InTurns)
  /\ Goto(p, IF In({"bincoords"}) /\ Len(OwnRows(p)) # Length(BlockRange(p, N, P)) THEN "threw" ELSE "turn")
  /\ UNCHANGED <<job, round, file, got>>

MayWriteMut(p) == TRUE
MayWrite(p) == p = round

\* writeDenseVectorParallel takes the position in bytes for a number of lines.
Bytes(lines) == FoldLeft(LAMBDA sum, row : sum + (IF row[1] < 10 THEN 2 ELSE 3), 0, lines)
Misplaced(p, lines) ==
  LET own == BlockRange(p, N, P)
  IN \/ In({"vector"}) /\ Bytes(lines) # (IF p = P - 1 THEN N ELSE Length(own) * (p + 1))
     \/ In({"bincoords"}) /\ Len(lines) # own.end

\* writeInputParallel puts out coordinates only, and never ends a line.
Appended(lines, own) ==
  IF In({"input"}) THEN <<FlattenSeq(lines \o [i \in DOMAIN own |-> SubSeq(own[i], 1, job.dim)])>>
  ELSE lines \o own

\* Process 0 starts the file, the others append to it.
WriteTurn(p) ==
  /\ pc[p] = "turn" /\ MayWrite(p)
  /\ file' = [file EXCEPT !.lines = Appended(IF p = 0 THEN <<>> ELSE @, OwnRows(p)),
                          !.closed = ~In({"input"})]
  /\ Goto(p, IF Misplaced(p, file'.lines) THEN "threw" ELSE "arrived")
  /\ UNCHANGED <<job, round, got>>

WaitTurn(p) ==
  /\ pc[p] = "turn" /\ ~MayWrite(p)
  /\ Goto(p, "arrived")
  /\ UNCHANGED <<job, round, file, got>>

Synchronize ==
  /\ Everybody("arrived")
  /\ round' = round + 1
  /\ Together(IF round' = P THEN "written" ELSE "turn")
  /\ UNCHANGED <<job, file, got>>

-----------------------------------------------------------------------------
(* Between writing and reading the file may have been damaged: the last    *)
(* line lost, alone or with the end of the line before it, or its end, or  *)
(* its last number (not the space before that); the last line doubled, or  *)
(* overwritten with a number that is too large.                            *)

Damaged ==
  LET lines == file.lines
  IN CASE job.damage = "none" -> file
       [] job.damage = "cut" -> [file EXCEPT !.lines = Front(lines)]
       [] job.damage = "torn" -> [file EXCEPT !.lines = Front(lines), !.closed = FALSE]
       [] job.damage = "short" -> [file EXCEPT !.lines = Append(Front(lines), Front(Last(lines))), !.closed = FALSE]
       [] job.damage = "open" -> [file EXCEPT !.closed = FALSE]
       [] job.damage = "extra" -> [file EXCEPT !.lines = Append(lines, Last(lines))]
       [] job.damage = "illegal" -> [file EXCEPT !.lines = Append(Front(lines), <<N + 1>>)]

Reader == 0 .. (job.readers - 1)
LastReader == job.readers - 1
\* What the readers have, in the order of the readers.
Result == FlattenSeq([i \in 1 .. job.readers |-> got[i - 1]])

Open ==
  /\ Everybody("written")
  /\ file' = Damaged
  /\ pc' = [q \in Reader |-> "open"]
  /\ got' = [q \in Reader |-> <<>>]
  /\ UNCHANGED <<job, round>>

-----------------------------------------------------------------------------
(* Reading.  Each operator gives where a process gets to on its own and    *)
(* what it has then.                                                       *)

Stop(where) == [at |-> where, rows |-> <<>>]
Have(where, rows) == [at |-> where, rows |-> rows]

\* A line beyond the end is empty, or the last line again if that had no end.
LineAt(i) ==
  IF i <= Len(file.lines) THEN file.lines[i]
  ELSE IF file.closed THEN <<>> ELSE Last(file.lines)
OwnRange(q) == BlockRange(q, N, job.readers)
OwnLines(q) == [i \in 1 .. Length(OwnRange(q)) |-> LineAt(OwnRange(q).begin + i)]

\* The process that reads the last line looks whether the file goes on.  An
\* open line more is taken for the end.
GoesOnMut(range) == range.end = N /\ Len(file.lines) >= N
GoesOn(range) ==
  range.end = N /\ Len(file.lines) > N /\ ~(Len(file.lines) = N + 1 /\ ~file.closed)

\* readGraph (METIS): scrolling to the own lines, a process leaves when a line
\* or the end of the last one is missing; reading them, it does not notice.
\* A line has the weights of the node, of which missing ones are taken for 0,
\* and its neighbours, each with the weight of the edge if edges have weights.
NumNodeWeights == file.head[3]
PerEdge == 1 + file.head[4]
EdgePart(line) == SubSeq(line, NumNodeWeights + 1, Len(line))
NumNeighbours(rows) == FoldLeft(LAMBDA sum, line : sum + Len(EdgePart(line)) \div PerEdge, 0, rows)
ReadGraph(q) ==
  LET range == OwnRange(q)
      scrolls == range.begin = 0 \/ range.begin < Len(file.lines) + (IF file.closed THEN 1 ELSE 0)
      Illegal(edges) == \E i \in DOMAIN edges : (i - 1) % PerEdge = 0 /\ edges[i] \notin 1 .. N
      Unfinished(edges) == Len(edges) % PerEdge # 0
      broken == \E line \in ToSet(OwnLines(q)) : Illegal(EdgePart(line)) \/ Unfinished(EdgePart(line))
      Weights(line) == [w \in 1 .. NumNodeWeights |-> IF w <= Len(line) THEN line[w] ELSE 0]
  IN IF ~scrolls \/ broken \/ GoesOn(range) THEN Stop("threw")
     ELSE Have("read", [i \in DOMAIN OwnLines(q) |-> Weights(OwnLines(q)[i]) \o EdgePart(OwnLines(q)[i])])

\* readCoords and readCoordsOcean (an index leads each line).  A missing line
\* throws; in a line that is short of a value the search for it never ends, as
\* a space follows the last value (writeCoords writes one), or throws (Ocean).
\* The check of the index, "!nodeIndex == i + 1", refuses a 0 in the first
\* own line, and nothing else.
\* readCoordsTEEC takes one value more than there are dimensions, the weight.
skip == IF In({"ocean"}) THEN 1 ELSE 0
Weighted == {"teec", "input"}
width == job.dim + (IF In(Weighted) THEN 1 ELSE 0)
ReadCoords(q) ==
  LET range == OwnRange(q)
      Missing(i) == range.begin + i > Len(file.lines)
      Short(i) == Len(OwnLines(q)[i]) < width + skip
      WrongIndex(i) == In({"ocean"}) /\ i = 1 /\ OwnLines(q)[i][1] = 0
      bad == {i \in 1 .. Length(range) : Missing(i) \/ Short(i) \/ WrongIndex(i)}
  IN IF bad # {} THEN Stop(IF Missing(Min(bad)) \/ In({"ocean"}) THEN "threw" ELSE "spins")
     ELSE IF GoesOn(range) THEN Stop("threw")
     ELSE Have("done", [i \in DOMAIN OwnLines(q) |-> SubSeq(OwnLines(q)[i], 1 + skip, width + skip)])

\* readCoordsMatrixMarket: one value in a line.  Of the own lines only the
\* last one may be missing, its value is then not initialised.
ReadCoordsMatrixMarket(q) ==
  LET range == OwnRange(q)
      dim == job.head[2]
      values == [i \in 1 .. (dim * Length(range)) |-> LineAt(dim * range.begin + i)]
      left == Len(file.lines) - dim * N
      goesOn == range.end = N /\ left > 0 /\ ~(left = 1 /\ ~file.closed)
  IN IF (Length(range) > 0 /\ dim * range.end - 1 > Len(file.lines)) \/ goesOn THEN Stop("threw")
     ELSE Have("done", [i \in 1 .. Length(range) |-> FlattenSeq(SubSeq(values, dim * (i - 1) + 1, dim * i))])

\* readGraphBinary: no node may be isolated, nothing is checked at the end.
fileTypeVersionNumber == 3
ReadGraphBinary(q) ==
  IF job.head[1] # fileTypeVersionNumber \/ \E row \in ToSet(OwnLines(q)) : row = <<>> \/ \E j \in ToSet(row) : j >= N
  THEN Stop("threw")
  ELSE Have("read", OwnLines(q))

\* readPartition does not look what follows.
ReadPartition(q) ==
  LET range == OwnRange(q)
  IN IF range.end > Len(file.lines) /\ range.end > range.begin THEN Stop("threw")
     ELSE Have("done", OwnLines(q))

\* readCoordsBinary: three numbers are taken for each point whatever the
\* dimension is; the position afterwards is divided by the size of a point,
\* and by the rank on all but the last process, and must be a whole share.
ReadCoordsBinary(q) ==
  LET range == OwnRange(q)
      flat == FlattenSeq(file.lines)
      position == range.end
      complete == range.begin = range.end \/ 3 * range.end <= Len(flat)
      placed == IF q = LastReader THEN position = N ELSE position \div (q + 1) = Length(range)
  IN IF ~complete \/ ~placed THEN Stop("threw")
     ELSE Have("done", [i \in 1 .. Length(range) |->
                          [d \in 1 .. job.dim |-> flat[3 * (range.begin + i - 1) + d]]])

\* readEdgeList: equal shares of the edges, the rest for the last process.
EdgeShare(q) ==
  LET avg == job.head[2] \div job.readers
  IN SubSeq(file.lines, q * avg + 1, IF q = LastReader THEN job.head[2] ELSE (q + 1) * avg)
ReadEdgeList(q) ==
  IF \E e \in ToSet(EdgeShare(q)) : \E v \in ToSet(e) : v >= job.head[1] THEN Stop("threw")
  ELSE Have("read", Doubled(EdgeShare(q)))

EdgeLists == {"edges", "distedges"}
\* readEdgeListDistributed: every process has a file, and no bound for nodes.
ReadEdgeListDistributed(q) == Have("read", Doubled(OwnRows(q)))

\* createStructured2D3DMesh_dist and createStructured3DMesh_seq.
CreateMesh(q) ==
  Have("read", IF In({"meshseq"}) THEN SequentialPoints(job.head)
               ELSE MeshPoints(OwnRange(q).begin, OwnRange(q).end, job.head, job.dim))

\* readOFFTriangularCentral: the lines of the points (in a short one the search
\* for a value never ends), then those of the triangles, their corners led by
\* their number.  A corner that is missing in a line stays 0.
\* readAlyaCentral: the lines of the elements, without such checks, then those
\* of the points and a mark for their end.
\* Neighbours are the corners of a triangle, or consecutive nodes of an element.
Neighbours(face) == {<<face[i], face[j]>> : <<i, j>> \in {x \in (DOMAIN face) \X (DOMAIN face) : x[1] # x[2]}}
Consecutive(face) ==
  LET next(i) == (i % Len(face)) + 1
  IN UNION {{<<face[i], face[next(i)]>>, <<face[next(i)], face[i]>>} : i \in DOMAIN face}
\* getCSRmatrixFromAdjList_NoEgdeWeights.
AdjacencyRows(pairs, n) ==
  [v \in 1 .. n |-> SetToSortSeq({e[2] : e \in {f \in pairs : f[1] = v - 1}}, <)]
Corners(line) == [i \in 1 .. 3 |-> IF i < Len(line) THEN line[i + 1] ELSE 0]
ReadOFF ==
  LET numPoints == job.head[1]
      numFaces == job.head[2]
      numEdges == job.head[3]
      Missing(i) == i > Len(file.lines)
      badPoints == {i \in 1 .. numPoints : Missing(i) \/ Len(file.lines[i]) < 3}
      faces == SubSeq(file.lines, numPoints + 1, numPoints + numFaces)
      pairs == UNION {Neighbours(Corners(f)) : f \in ToSet(faces)}
      wrong == (3 * Len(faces)) \div 2 # numEdges \/ Cardinality(pairs) \div 2 # numEdges
  IN IF badPoints # {} THEN Stop(IF Missing(Min(badPoints)) THEN "threw" ELSE "spins")
     ELSE IF Missing(numPoints + numFaces) \/ (\E f \in ToSet(faces) : f[1] # 3) \/ (numEdges # 0 /\ wrong) THEN Stop("threw")
     ELSE Have("done", AdjacencyRows(pairs, numPoints))
EndCoordinates == <<>>
ReadAlya ==
  LET numPoints == job.head[1]
      numElements == job.head[2]
      elements == SubSeq(file.lines, 1, numElements)
      short == \E i \in 1 .. numPoints : Len(LineAt(numElements + i)) < job.dim
      marked == numElements + numPoints < Len(file.lines) /\ file.lines[numElements + numPoints + 1] = EndCoordinates
  IN IF short \/ ~marked THEN Stop("threw")
     ELSE Have("done", AdjacencyRows(UNION {Consecutive(f) : f \in ToSet(elements)}, numPoints))

\* readBlockSizes: process 0 reads; only the last line may be missing, its
\* sizes are not initialised then; whether the file goes on is asked after it
\* has been closed and never found.
numWeights == job.head[2]
ReadBlockSizes(q) ==
  IF q # 0 THEN Have("read", <<>>)
  ELSE IF job.head[1] # job.dim \/ job.dim > Len(file.lines) + 1 THEN Stop("threw")
  ELSE Have("read", [i \in 1 .. job.dim |-> LineAt(i)])

\* readPETree: a line is a label and the weights of a leaf.  Only the last line
\* may be missing: an empty one has no label and throws, an open one is read
\* again.  A weight that is missing repeats the word before it, which throws
\* if that is the mark between label and weights.  Without a file the tree
\* comes from the number of children on each level.
Hash == -1   \* the mark
LabelOf(line) == SubSeq(line, 1, SelectInSeq(line, LAMBDA x : x = Hash) - 1)
WeightsOf(line) == SubSeq(line, SelectInSeq(line, LAMBDA x : x = Hash) + 1, Len(line))
ReadPETree ==
  LET lost == Len(file.lines) < N /\ (file.closed \/ Len(file.lines) < N - 1)
      Weights(line) == [w \in DOMAIN job.isProp |-> IF w <= Len(WeightsOf(line)) THEN WeightsOf(line)[w] ELSE Last(line)]
      unweighted == \E i \in 1 .. N : Last(LineAt(i)) = Hash
  IN IF job.head # <<>> THEN Have("read", CreateFromLevels(job.head))
     ELSE IF lost \/ unweighted THEN Stop("threw")
     ELSE Have("read", CreateTreeFromLeaves([i \in 1 .. N |-> Leaf(i - 1, LabelOf(LineAt(i)), Weights(LineAt(i)))]))

Reading(q) ==
  CASE In({"graph", "wgraph"}) -> ReadGraph(q)
    [] In({"coords", "ocean"} \cup Weighted) -> ReadCoords(q)
    [] In({"mmcoords"}) -> ReadCoordsMatrixMarket(q)
    [] In({"bgraph"}) -> ReadGraphBinary(q)
    [] In({"partition", "central"}) -> ReadPartition(q)
    [] In({"bincoords"}) -> ReadCoordsBinary(q)
    [] In({"edges"}) -> ReadEdgeList(q)
    [] In({"distedges"}) -> ReadEdgeListDistributed(q)
    [] In(Meshes) -> CreateMesh(q)
    [] In({"off"}) -> ReadOFF
    [] In({"alya"}) -> ReadAlya
    [] In({"sizes"}) -> ReadBlockSizes(q)
    [] In({"tree"}) -> ReadPETree

Read(q) ==
  /\ pc[q] = "open"
  /\ Goto(q, Reading(q).at)
  /\ got' = [got EXCEPT ![q] = Reading(q).rows]
  /\ UNCHANGED <<job, round, file>>

\* All sum up the entries and compare with the header.
JoinGraph ==
  /\ Everybody("read") /\ In({"graph", "wgraph"})
  /\ Together(IF FoldFunction(LAMBDA rows, sum : NumNeighbours(rows) + sum, 0, got) = 2 * file.head[2]
              THEN "done" ELSE "threw")
  /\ UNCHANGED <<job, round, file, got>>

JoinGraphBinary ==
  /\ Everybody("read") /\ In({"bgraph"})
  /\ Together("done")
  /\ UNCHANGED <<job, round, file, got>>

\* So do they for a grid; alone, a point without neighbours is refused too.
JoinMesh ==
  /\ Everybody("read") /\ In(Meshes)
  /\ LET entries == FoldFunction(LAMBDA points, sum : FoldLeft(LAMBDA s, x : s + Len(x.row), 0, points) + sum, 0, got)
         lonely == \E x \in ToSet(got[0]) : x.row = <<>>
     IN Together(IF entries # 2 * NumEdges(job.head) \/ (In({"meshseq"}) /\ lonely) THEN "threw" ELSE "done")
  /\ UNCHANGED <<job, round, file, got>>

\* Of the sizes that process 0 has read only those of the first weight are
\* broadcast (numWeights times); for other weights the others keep 0.  A
\* process whose sizes do not suffice for the weights of the nodes throws; on
\* the others the sizes become a flat tree.  Which of its weights are
\* proportional is nowhere said, which main.cpp does not survive.
Unset == {0, 7}   \* what a variable that is not initialised may hold
JoinBlockSizes ==
  /\ Everybody("read") /\ In({"sizes"})
  /\ \E unset \in Unset :
       LET Size(w, i) == IF w > Len(got[0][i]) THEN unset ELSE got[0][i][w]
           Sizes(q) == [w \in 1 .. numWeights |->
                          [i \in 1 .. job.dim |-> IF q = 0 \/ w = 1 THEN Size(w, i) ELSE 0]]
           used == Len(job.total)
           Suffice(q) == used <= numWeights /\ \A w \in 1 .. used : FoldFunction(+, 0, Sizes(q)[w]) >= job.total[w]
       IN got' = [q \in Reader |-> IF Suffice(q) THEN CreateFlat(SubSeq(Sizes(q), 1, used)) ELSE <<>>]
  /\ Together("threw")
  /\ UNCHANGED <<job, round, file>>

\* The tree is adapted to the node weights of the graph.
JoinTree ==
  /\ Everybody("read") /\ In({"tree"})
  /\ IF AdaptFails(got[0], job.total, job.isProp)
     THEN Together("threw") /\ UNCHANGED got
     ELSE /\ got' = [q \in Reader |-> AdaptWeights(got[q], job.total, job.isProp)]
          /\ Together("done")
  /\ UNCHANGED <<job, round, file>>

\* Edge lists: sort all pairs, look for gaps, hand over the last nodes, check.
SortEdges ==
  /\ Everybody("read") /\ In(EdgeLists)
  /\ got' = SortShares(got)
  /\ pc' = [q \in Reader |-> IF HasGap(got'[q]) THEN "threw" ELSE "sorted"]
  /\ UNCHANGED <<job, round, file>>

\* A process that has handed over everything and got nothing reads the last
\* of its pairs where there is none.
HandOver ==
  /\ Everybody("sorted")
  /\ got' = [q \in Reader |-> Unique(PassLast(got)[q])]
  /\ pc' = [q \in Reader |-> IF got'[q] = <<>> THEN "crashed"
                             ELSE IF InOrder(got'[q]) THEN "joined" ELSE "threw"]
  /\ UNCHANGED <<job, round, file>>

\* readEdgeList has the nodes distributed in blocks in the end, which a graph
\* whose last nodes are isolated does not survive; its number of nodes is the
\* largest node in the file and one more.
CheckNodes ==
  /\ Everybody("joined")
  /\ IF CheckSum(got) # MaxNode(got) \/ (In({"edges"}) /\ MaxNode(got) + 1 # job.head[1])
     THEN Together("threw") /\ UNCHANGED got
     ELSE /\ pc' = [q \in Reader |-> IF HasGap(got[q]) THEN "threw" ELSE "done"]
          /\ got' = IF In({"distedges"}) \/ (\E q \in Reader : HasGap(got[q])) THEN got
                    ELSE [q \in Reader |->
                            SelectSeq(Result, LAMBDA e : e[1] \in OwnRange(q).begin .. OwnRange(q).end - 1)]
  /\ UNCHANGED <<job, round, file>>

-----------------------------------------------------------------------------

Failed == \E p \in DOMAIN pc : pc[p] \in {"threw", "spins", "crashed"}
Ended == (Everybody("done") \/ Failed) /\ UNCHANGED vars

Next ==
  \/ WriteGraph \/ WriteCoords \/ WriteDenseVectorCentral \/ Synchronize \/ Open
  \/ \E p \in DOMAIN pc : StartTurns(p) \/ WriteTurn(p) \/ WaitTurn(p) \/ Read(p)
  \/ JoinGraph \/ JoinGraphBinary \/ JoinMesh \/ JoinBlockSizes \/ JoinTree
  \/ SortEdges \/ HandOver \/ CheckNodes
  \/ Ended

Spec == Init /\ [][Next]_vars

-----------------------------------------------------------------------------
(* Properties.                                                             *)

Reached == got # <<>>
Symmetric(rows) ==
  \A v, u \in DOMAIN rows : (u - 1 \in ToSet(rows[v])) = (v - 1 \in ToSet(rows[u]))

\* What the writers had, or the given file before it was damaged.  A partition
\* is written in the order of the processes, whoever owns the points.
MeantRows ==
  LET rows == IF In({"partition"}) THEN FlattenSeq([i \in 1 .. P |-> OwnRows(i - 1)]) ELSE job.rows
  IN IF job.damage = "illegal" THEN Append(Front(rows), <<N + 1>>) ELSE rows
Meant ==
  CASE In({"coords", "ocean", "bincoords", "teec"}) -> [i \in 1 .. N |-> SubSeq(MeantRows[i], 1 + skip, width + skip)]
    [] In({"mmcoords"}) -> [i \in 1 .. N |-> [d \in 1 .. job.dim |-> MeantRows[job.dim * (i - 1) + d][1]]]
    [] OTHER -> [i \in 1 .. N |-> MeantRows[i]]
\* What the readers do not notice (for surfaces and trees see below): the last
\* line of a graph is read twice, or
\* only the weights of the last node, which has no neighbours, are missing and
\* taken for 0; the last value is missing, and is the value before it again or
\* not set.
LineTwice == In({"graph", "wgraph"}) /\ job.damage = "torn" /\ Result = Append(Front(Meant), Meant[N - 1])
WeightsLost ==
  /\ In({"wgraph"}) /\ EdgePart(Last(Meant)) = <<>> /\ Len(Result) = N /\ Front(Result) = Front(Meant)
  /\ \A w \in 1 .. NumNodeWeights : Last(Result)[w] \in {0, Last(Meant)[w]}
ValueLost ==
  LET values == FlattenSeq(Result)
      all == FlattenSeq(Meant)
  IN In({"mmcoords"}) /\ values \in {Front(all), Append(Front(all), Last(Front(all)))}
Announced == ToSet(SubSeq(job.rows, 1, job.head[2]))
GridMeant ==
  LET L1(a, b) == FoldFunction(+, 0, [d \in 1 .. 3 |-> IF a[d] < b[d] THEN b[d] - a[d] ELSE a[d] - b[d]])
      \* Lexicographic counting.
      Number(at) == (at[1] * job.head[2] + at[2]) * job.head[3] + at[3]
      Places == (0 .. job.head[1] - 1) \X (0 .. job.head[2] - 1) \X (0 .. job.head[3] - 1)
  IN \A at \in Places :
       LET x == Result[Number(at) + 1]
       IN /\ Cardinality(ToSet(x.row)) = Len(x.row)
          /\ ToSet(x.row) = {Number(b) : b \in {c \in Places : L1(at, c) = 1}}
          /\ x.at = IF job.dim = 2 THEN <<0, 0>> ELSE at
EdgesWhole ==
  LET Nodes(q) == {e[1] : e \in ToSet(got[q])}
  IN /\ ToSet(Result) = Announced \cup {Reverse(e) : e \in Announced}
     /\ Cardinality(ToSet(Result)) = Len(Result)
     /\ UNION {Nodes(q) : q \in Reader} = 0 .. MaxNode(got)
     /\ \A q, r \in Reader : q # r => Nodes(q) \cap Nodes(r) = {}
\* A process whose share has pairs of one node only.
Lonely ==
  LET Read1(q) == IF In({"edges"}) THEN ReadEdgeList(q) ELSE ReadEdgeListDistributed(q)
      shares == SortShares([q \in Reader |-> Read1(q).rows])
  IN \E q \in Reader : \A e \in ToSet(shares[q]) : e[1] = shares[q][1][1]
\* Such a node can end on two processes; the check sum does not see it if node
\* 0 is missing as well.
NodeTwice == Lonely /\ \A e \in Announced : 0 \notin ToSet(e)
MeshMeant(rows) ==
  LET Triangle(f) == {f[2], f[3], f[4]}
      faces == {Triangle(job.rows[i]) : i \in job.head[1] + 1 .. job.head[1] + job.head[2]}
  IN \A v, u \in DOMAIN rows :
       (u - 1 \in ToSet(rows[v])) = (u # v /\ \E f \in faces : {u - 1, v - 1} \subseteq f)
CornerLost == job.damage = "short" /\ job.head[3] = 0
LeavesMeant(leaves) ==
  LET Same(i, j) == /\ leaves[i].label = LabelOf(job.rows[j])
                    /\ \A w \in DOMAIN job.isProp : ~job.isProp[w] => leaves[i].w[w] = WeightsOf(job.rows[j])[w]
  IN /\ \A i \in 1 .. N - 1 : Same(i, i)
     /\ \/ Same(N, N)
        \/ job.damage = "torn" /\ Same(N, N - 1)
        \/ job.damage = "short" /\ leaves[N].label = LabelOf(job.rows[N])

\* What all readers together accept is what the writers had, or the given file
\* before it was damaged, whoever wrote and however many read: no row, line or
\* value is lost, doubled or out of place, but for the losses at the end of a
\* file named above, which the readers do not notice.  Of an edge list every
\* edge is there in both directions and every node is on exactly one process;
\* a grid has its neighbours and places; corners of a triangle are neighbours;
\* an ALYA file has its end; a tree has the leaves of the file.
AcceptedIsMeant ==
  Reached /\ Everybody("done") =>
    /\ In({"graph", "wgraph", "bgraph", "coords", "ocean", "teec", "mmcoords", "partition", "central", "bincoords"}) =>
         Result = Meant \/ LineTwice \/ WeightsLost \/ ValueLost
    /\ In(EdgeLists) => EdgesWhole \/ NodeTwice
    /\ In(Meshes) => GridMeant
    /\ In({"off", "alya"}) => \A q \in Reader : got[q] = got[0] /\ Symmetric(got[q])
    /\ In({"off"}) => \A q \in Reader : MeshMeant(got[q]) \/ CornerLost
    /\ In({"alya"}) => job.damage \in {"none", "open", "extra"}
    /\ In({"tree"}) /\ job.head = <<>> => \A q \in Reader : LeavesMeant(Leaves(got[q]))

\* A graph is accepted only if no process has read past the end of the file:
\* "if we have read past the end of the file, the node count was incorrect"
\* (FileIO.cpp:690, an assertion that is not compiled).
PastEndNoticed ==
  Reached /\ In({"graph"}) /\ Everybody("done") =>
    \A q \in Reader : OwnRange(q).end <= Len(file.lines)

\* A file that was written and not damaged is refused only when binary
\* coordinates are not three-dimensional or leave a process before the last
\* without points, when more values are asked for than a line has, when it was
\* written by writeInputParallel, which ends no line and leaves the weights out
\* (against the comment at FileIO.cpp:338), when the
\* indices of the points start at 0, when a surface is not closed or not made
\* of triangles, when a node of an edge list fills the share of a
\* process or is missing, when the weights do not fit into the tree; block
\* sizes are always refused.
RefusedForCause ==
  Reached /\ Failed /\ job.damage = "none" =>
    \/ In({"bincoords"}) /\ (job.dim # 3 \/ \E q \in Reader \ {LastReader} : Length(OwnRange(q)) = 0)
    \/ In({"coords", "ocean", "teec"}) /\ \E row \in ToSet(job.rows) : Len(row) < width + skip
    \/ In({"input"})
    \/ In({"alya"}) /\ \E i \in 1 .. job.head[1] : Len(job.rows[job.head[2] + i]) < job.dim
    \/ In({"ocean"}) /\ job.rows[1][1] = 0
    \/ In({"off"}) /\ LET faces == job.head[1] + 1 .. job.head[1] + job.head[2] IN
         \/ \E f \in faces : job.rows[f][1] # 3
         \/ \E f \in faces : \E e \in Neighbours(Corners(job.rows[f])) :
              Cardinality({g \in faces : e \in Neighbours(Corners(job.rows[g]))}) # 2
    \/ In(Meshes) /\ (job.head[2] = 1 \/ (In({"meshseq"}) /\ 1 \in ToSet(Tail(job.head))))
    \/ In({"bgraph"}) /\ (<<>> \in ToSet(job.rows) \/ job.head[1] # fileTypeVersionNumber)
    \/ In(EdgeLists) /\ (Lonely \/ {v \in 0 .. job.head[1] - 1 : \A e \in Announced : v \notin ToSet(e)} # {})
    \/ In({"tree"}) /\ \E w \in DOMAIN job.isProp : ~job.isProp[w]
    \/ In({"sizes"})

\* On every level of a processor tree, as read and as adapted, the nodes share
\* the leaves among them by their labels, their weights add up to those of the
\* leaves below, their children are counted, and the distance of two leaves is
\* the number of levels on which they are apart; if no two leaves have the same
\* label, as they have after the last line of a torn file was read twice.
TreeSums ==
  Reached /\ (In({"tree"}) \/ (In({"sizes"}) /\ Everybody("threw"))) =>
    \A q \in {r \in Reader : got[r] # <<>>} :
      LET tree == got[q]
          leaves == Leaves(tree)
          Below(c) == {i \in DOMAIN leaves : SubSeq(leaves[i].label, 1, Len(c.label)) = c.label}
          Apart(i, j) == {h \in DOMAIN tree : ~\E c \in ToSet(tree[h]) : {i - 1, j - 1} \subseteq ToSet(c.kids)}
          distinct == \A i, j \in DOMAIN leaves : i # j => leaves[i].label # leaves[j].label
      IN distinct =>
         /\ \A h \in DOMAIN tree : \A c \in ToSet(tree[h]) :
              /\ Len(c.kids) = Cardinality(Below(c)) /\ ToSet(c.kids) = {i - 1 : i \in Below(c)}
              /\ \A w \in DOMAIN c.w : c.w[w] = FoldFunction(+, 0, [i \in Below(c) |-> leaves[i].w[w]])
              /\ h < Len(tree) => c.n = Cardinality({d \in ToSet(tree[h + 1]) : Prefix(d.label) = c.label})
         /\ CheckTree(tree)
         /\ \A h \in 2 .. Len(tree) : FoldLeft(+, 0, GetGrouping(tree[h])) = Len(tree[h])
         /\ \A i, j \in DOMAIN leaves : i # j => ExportAsGraph(leaves)[i][j] = Cardinality(Apart(i, j))
         /\ Everybody("done") => \A w \in DOMAIN job.isProp : job.isProp[w] => WeightSum(leaves, w) = job.total[w]
=============================================================================
