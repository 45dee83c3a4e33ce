----------------------------- MODULE WorldReader -----------------------------
(***************************************************************************)
(* decodeWorldDatabase of src/client/world.ts over a stream of any size:   *)
(* WorldByteReader and the nested loops of the managers, as a stack of     *)
(* layouts.  What the stream holds is chosen where it is read; every byte  *)
(* is read once, so each run is one stream and each stream is one run.  A  *)
(* throw anywhere gives up the whole snapshot.                             *)
(***************************************************************************)
EXTENDS Integers, Sequences, FiniteSets

CONSTANTS
  Layout,      \* the layout of every name (WorldGrammar)
  Records,     \* the names whose bodies are collected in lists
  Kinds,       \* the records that are obstacles
  Outer,       \* the layouts that lists of obstacles are read within
  Limit,       \* DEFAULT_WORLD_DATABASE_LIMITS: a number for every limit
  Sizes,       \* the sizes of the streams
  TextLengths, \* the lengths of strings the stream may announce
  Indices,     \* the indices a mesh face may hold
  Rewinds      \* the rewind lengths a draw-info region may hold

\* The layouts an item may begin to read.
Bodies(item) ==
  CASE item.op \in {"many", "obstacles"} -> {item.of}
    [] item.op = "choice"               -> item.of
    [] item.op = "members"              -> {"member"}
    [] OTHER                            -> {}
Counted(item) == item.op \in {"many", "obstacles"}

\* What the reader relies on: every name has a layout and every count a limit,
\* obstacles are records, and every record begins with at least one byte.
ASSUME LayoutAssumption ==
  /\ Kinds \subseteq Records /\ Records \subseteq DOMAIN Layout
  /\ \A name \in DOMAIN Layout :
       /\ Len(Layout[name]) \in Nat /\ DOMAIN Layout[name] = 1 .. Len(Layout[name])
       /\ \A i \in DOMAIN Layout[name] :
            LET item == Layout[name][i]
            IN /\ item.n \in Nat /\ Bodies(item) \subseteq DOMAIN Layout
               /\ Counted(item) => item.limit \in DOMAIN Limit
  /\ \A r \in Records : 1 \in DOMAIN Layout[r] /\ Layout[r][1].n > 0

\* Obstacles come in lists of obstacles alone, and no such list is read within
\* an obstacle; the state of a mesh is the last item of it.
ASSUME GrammarAssumption ==
  /\ Outer \subseteq DOMAIN Layout /\ Kinds \cap Outer = {}
  /\ "database" \in Outer /\ "mesh" \in Records
  /\ \A name \in DOMAIN Layout : \A i \in DOMAIN Layout[name] :
       LET item == Layout[name][i]
       IN /\ IF item.op = "obstacles" THEN name \in Outer ELSE Bodies(item) \cap Kinds = {}
          /\ Bodies(item) \cap Outer # {} => name \in Outer
  /\ Layout["mesh"][Len(Layout["mesh"])].op = "meshState"

ASSUME LimitAssumption ==
  /\ \A l \in DOMAIN Limit : Limit[l] \in Nat
  /\ {"text", "total", "sequences", "mappings", "members", "texcoords", "faceVertices"}
       \subseteq DOMAIN Limit
  /\ TextLengths \subseteq Nat /\ Sizes \subseteq Nat /\ Rewinds \subseteq Nat

VARIABLES
  size,     \* bytes.byteLength
  pos,      \* offsetValue
  stack,    \* the readers under way: of which layout, at which item, how many more
  kept,     \* the records pushed to lists so far
  total,    \* context.obstacleTotal
  mesh,     \* the counts and references of the mesh being read, then the mesh read
  result    \* "reading", "failed" or "decoded"

readerVars == <<size, pos, stack, kept, total, mesh, result>>

Parts == {"vertex", "normal", "texcoord"}
NoMesh == [count |-> [p \in Parts |-> 0], refs |-> [p \in Parts |-> {}],
           bytes |-> 0, drawInfo |-> 0]
Frame(of, left) == [of |-> of, at |-> 1, left |-> left]

\* Every array is empty, and the reader stands before the first manager.
ReaderInit ==
  /\ size \in Sizes
  /\ pos = 0 /\ kept = 0 /\ total = 0
  /\ stack = <<Frame("database", 1)>>
  /\ mesh = NoMesh
  /\ result = "reading"

Top == stack[Len(stack)]
AtItem == result = "reading" /\ stack # <<>> /\ Top.at <= Len(Layout[Top.of])
AtEnd == result = "reading" /\ stack # <<>> /\ Top.at > Len(Layout[Top.of])
Item == Layout[Top.of][Top.at]
Stepped == [stack EXCEPT ![Len(stack)].at = @ + 1]
Push(s, of, n) == IF n = 0 THEN s ELSE Append(s, Frame(of, n))

\* WorldByteReader.require
Has(n) == n <= size - pos

\* The offset moves over n bytes.
Consume(n) == Has(n) /\ pos' = pos + n

\* Numbers whose value decides nothing, and floats that are all finite.
ReadFixed ==
  /\ AtItem /\ Item.op \in {"bytes", "floats"}
  /\ Consume(Item.n)
  /\ stack' = Stepped
  /\ UNCHANGED <<size, kept, total, mesh, result>>

\* readString: a length within the limit, and its bytes.
ReadText ==
  /\ AtItem /\ Item.op = "text"
  /\ \E n \in TextLengths : n <= Limit["text"] /\ Consume(Item.n + n)
  /\ stack' = Stepped
  /\ UNCHANGED <<size, kept, total, mesh, result>>

\* A mutant: the records of a list are there as soon as its count is.
ReadCountAllocates ==
  /\ AtItem /\ Item.op = "many"
  /\ Consume(Item.n)
  /\ \E c \in 0 .. Limit[Item.limit] : stack' = Push(Stepped, Item.of, c) /\ kept' = kept + c
  /\ UNCHANGED <<size, total, mesh, result>>

\* readCount and readSignedCount; a mesh remembers its counts.
ReadCount ==
  /\ AtItem /\ Item.op = "many"
  /\ Consume(Item.n)
  /\ \E c \in 0 .. Limit[Item.limit] :
       /\ stack' = Push(Stepped, Item.of, c)
       /\ mesh' = IF Item.of \in Parts THEN [mesh EXCEPT !.count[Item.of] = c] ELSE mesh
  /\ UNCHANGED <<size, kept, total, result>>

\* A mutant: every list is checked for itself.
WithinTotalAlone(c) == c <= Limit["total"]
\* The check of readObstacleLists before the first record of a list: what
\* all lists so far, of the world and of groups, hold together.
WithinTotal(c) == total + c <= Limit["total"]

ReadObstacleCount ==
  /\ AtItem /\ Item.op = "obstacles"
  /\ Consume(Item.n)
  /\ \E c \in 0 .. Limit[Item.limit] :
       /\ WithinTotal(c)
       /\ stack' = Push(Stepped, Item.of, c)
  /\ UNCHANGED <<size, kept, total, mesh, result>>

\* A tag or a flag decides which body follows.
ReadChoice ==
  /\ AtItem /\ Item.op = "choice"
  /\ Consume(Item.n)
  /\ \E b \in Item.of : stack' = Push(Stepped, b, 1)
  /\ UNCHANGED <<size, kept, total, mesh, result>>

\* The sequence of a colour channel has a period and an offset only when
\* its count is positive.
ReadSequence ==
  /\ AtItem /\ Item.op = "sequence"
  /\ \E c \in 0 .. Limit["sequences"] : Consume(Item.n + (IF c = 0 THEN 0 ELSE 8 + c))
  /\ stack' = Stepped
  /\ UNCHANGED <<size, kept, total, mesh, result>>

\* The name of a group instance: plain, or up to a zero byte with a list of
\* material mappings behind it that a reader of its own must use up.
ReadMappedName ==
  /\ AtItem /\ Item.op = "mappedName"
  /\ \E n \in TextLengths, c \in 0 .. Limit["mappings"] :
       \/ n <= Limit["text"] /\ Consume(Item.n + n) /\ kept' = kept
       \/ /\ n + 5 + 8 * c <= Limit["text"]
          /\ Consume(Item.n + n + 5 + 8 * c)
          /\ kept' = kept + c
  /\ stack' = Stepped
  /\ UNCHANGED <<size, total, mesh, result>>

\* The flags, teams and safety teams of an entry zone.
ReadMembers ==
  /\ AtItem /\ Item.op = "members"
  /\ Consume(Item.n)
  /\ \E f, t, s \in 0 .. Limit["members"] : stack' = Push(Stepped, "member", f + t + s)
  /\ UNCHANGED <<size, kept, total, mesh, result>>

\* The texture coordinates of a mesh stay bytes until its state is known.
ReadTexcoords ==
  /\ AtItem /\ Item.op = "texcoords"
  /\ \E c \in 0 .. Limit["texcoords"] :
       Consume(Item.n + 8 * c) /\ mesh' = [mesh EXCEPT !.count["texcoord"] = c]
  /\ stack' = Stepped
  /\ UNCHANGED <<size, kept, total, result>>

\* A face: its vertices, and its normals and texture coordinates when its
\* state has them; the indices are checked only when the mesh is complete.
ReadFace ==
  /\ AtItem /\ Item.op = "face"
  /\ \E n \in 0 .. Limit["faceVertices"], with \in SUBSET {"normal", "texcoord"} :
       LET Used == IF n = 0 THEN {{}}
                   ELSE {S \in SUBSET Indices : S # {} /\ Cardinality(S) <= n}
       IN /\ Consume(Item.n + 12 + 4 * n * (1 + Cardinality(with)))
          /\ \E used \in [with \cup {"vertex"} -> Used] :
               mesh' = [mesh EXCEPT !.refs =
                          [p \in Parts |-> @[p] \cup (IF p \in DOMAIN used THEN used[p] ELSE {})]]
  /\ stack' = Stepped
  /\ UNCHANGED <<size, kept, total, result>>

\* The texture coordinates that are left when a region of rewind bytes, the
\* last eight of which hold its length, is taken from their end.
Region(rewind) == rewind >= 8 /\ rewind % 8 = 0 /\ rewind <= 8 * mesh.count["texcoord"]
Real(owner, rewind) == mesh.count["texcoord"] - (IF owner THEN rewind \div 8 ELSE 0)

\* A mutant: faces may refer to the coordinates the draw info is kept in.
RefsLiveBefore(count) == \A p \in Parts : mesh.refs[p] \subseteq 0 .. mesh.count[p] - 1
RefsLive(count) == \A p \in Parts : mesh.refs[p] \subseteq 0 .. count[p] - 1

\* The state of the mesh says whether it owns draw info; then the real
\* coordinates and the references of every face are checked.
FinishMesh ==
  /\ AtItem /\ Item.op = "meshState"
  /\ Consume(Item.n)
  /\ \E owner \in BOOLEAN, rewind \in Rewinds :
       LET count == [mesh.count EXCEPT !["texcoord"] = Real(owner, rewind)]
       IN /\ owner => Region(rewind)
          /\ RefsLive(count)
          /\ mesh' = [count |-> count, refs |-> mesh.refs,
                      bytes |-> 8 * mesh.count["texcoord"],
                      drawInfo |-> IF owner THEN rewind ELSE 0]
  /\ stack' = Stepped
  /\ UNCHANGED <<size, kept, total, result>>

\* A body is complete: its record is pushed, and the loop goes on or ends.
Popped == IF Top.left > 1
          THEN [stack EXCEPT ![Len(stack)] = Frame(Top.of, Top.left - 1)]
          ELSE SubSeq(stack, 1, Len(stack) - 1)
One(yes) == IF yes THEN 1 ELSE 0

Return ==
  /\ AtEnd
  /\ stack' = Popped
  /\ kept' = kept + One(Top.of \in Records)
  /\ total' = total + One(Top.of \in Kinds)
  /\ mesh' = IF Top.of = "mesh" THEN NoMesh ELSE mesh
  /\ UNCHANGED <<size, pos, result>>

\* What an item may refuse: all but plain bytes and choices that are total.
CanThrow == \/ ~ Has(Item.n)
            \/ Item.op \notin {"bytes", "choice"}
            \/ Item.op = "choice" /\ ~ Item.total

\* WorldDecodeError: nothing of what was read is kept.
GiveUp ==
  /\ result' = "failed" /\ stack' = <<>> /\ mesh' = NoMesh
  /\ kept' = 0 /\ total' = 0
  /\ UNCHANGED <<size, pos>>

Throw == AtItem /\ CanThrow /\ GiveUp

\* The end of the managers must be the end of the stream.
Finish ==
  /\ result = "reading" /\ stack = <<>> /\ pos = size
  /\ result' = "decoded"
  /\ UNCHANGED <<size, pos, stack, kept, total, mesh>>
Trailing == result = "reading" /\ stack = <<>> /\ pos # size /\ GiveUp

Read == \/ ReadFixed \/ ReadText \/ ReadCount \/ ReadObstacleCount \/ ReadChoice
        \/ ReadSequence \/ ReadMappedName \/ ReadMembers
        \/ ReadTexcoords \/ ReadFace \/ FinishMesh
ReaderNext == Read \/ Return \/ Throw \/ Finish \/ Trailing
ReaderSpec == ReaderInit /\ [][ReaderNext]_readerVars
-----------------------------------------------------------------------------

\* Type invariant: the offset stays inside the stream, and what is being
\* read is a stack of positions in layouts.
ReaderTypeOK ==
  /\ size \in Sizes /\ pos \in 0 .. size
  /\ kept \in Nat /\ total \in Nat
  /\ \A i \in DOMAIN stack : /\ stack[i].of \in DOMAIN Layout
                             /\ stack[i].at \in 1 .. Len(Layout[stack[i].of]) + 1
                             /\ stack[i].left \in Nat \ {0}
  /\ result \in {"reading", "failed", "decoded"}

\* No count the stream announces is turned into more records than the bytes
\* that were really read for them (the comment on the database limits):
\* each record has cost at least one byte, those under way included.
KeptWithinBytes ==
  kept + Cardinality({i \in DOMAIN stack : stack[i].of \in Records /\ stack[i].at > 1}) <= pos

\* maxObstacleTotal holds for the world and all its group definitions
\* together, at every moment of the decoding (readObstacleLists).
TotalBounded == total <= Limit["total"]

\* Every accepted mesh refers to vertices, normals and texture coordinates
\* it really has, and its texture bytes are its coordinates and then its
\* draw info, with nothing in both (readMesh).
MeshSound ==
  AtEnd /\ Top.of = "mesh" =>
    /\ \A p \in Parts : mesh.refs[p] \subseteq 0 .. mesh.count[p] - 1
    /\ 8 * mesh.count["texcoord"] + mesh.drawInfo = mesh.bytes
=============================================================================
