------------------------- MODULE WorldTransferProofs -------------------------
(***************************************************************************)
(* Proofs about WorldTransfer and about WorldReader.                       *)
(*                                                                         *)
(* WorldTransfer: for every database, every limit, every size of an answer *)
(* and everything a server may send.                                       *)
(*                                                                         *)
(* WorldReader: for every grammar that its assumptions allow, all limits   *)
(* and streams of any size, no count is turned into more records than      *)
(* there are bytes for them, the total of obstacles is kept and accepted   *)
(* meshes refer to what they have.                                         *)
(***************************************************************************)
EXTENDS WorldTransfer, WorldReader, SequenceTheorems, FiniteSetTheorems, TLAPS

(***************************************************************************)
(* The inductive invariant.  Its parts say, in turn: that the length the   *)
(* server gave first is held from the first chunk on; what a transfer that *)
(* is complete has; what an honest server's answers and what is assembled  *)
(* are; and that the exchange with it goes on.                             *)
(***************************************************************************)
LengthInv ==
  /\ TransferBounded
  /\ assembly = "going" /\ chunks = 0 => totalBytes = -1
  /\ IF chunks = 0 THEN bytesLeft = -1 ELSE bytesLeft >= 0

DecodeInv ==
  /\ decoding = "none" <=> ~complete
  /\ complete => /\ assembly = "complete" /\ chunks > 0 /\ bytesLeft = 0
                 /\ honest => IsWhole(assembled) /\ database.recognized
  /\ applied # << >> => /\ decoding = "ended" /\ applied = <<assembled>>
                        /\ honest => Good

\* What holds while a request or its answer is on its way.
Awaited ==
  /\ started /\ ~complete /\ assembly = "going"
  /\ requestedOffset = bytesReceived /\ bytesReceived < database.bytes

HonestInv ==
  honest =>
    /\ Len(requests) + Len(replies) <= 1
    /\ requests # << >> => Awaited /\ requests = <<bytesReceived>>
    /\ replies # << >> => Awaited /\ replies = <<Answer(bytesReceived)>>
    /\ ~started => /\ requests = << >> /\ replies = << >> /\ chunks = 0
                   /\ assembly = "going" /\ ~rejected
    /\ assembled = Positions(0, bytesReceived) /\ bytesReceived <= database.bytes
    /\ chunks > 0 => totalBytes = database.bytes

StallInv ==
  honest /\ Fits =>
    /\ bytesLeft # 0 => bytesReceived = chunks * ServerChunk
    /\ open /\ started /\ ~complete /\ bytesLeft # 0 =>
         ~rejected /\ Len(requests) + Len(replies) = 1

IInv == TypeOK /\ LengthInv /\ DecodeInv /\ HonestInv /\ StallInv

-----------------------------------------------------------------------------
(* Lemmas about the operators of the model.                                *)

LEMMA Singleton ==
  ASSUME NEW S, NEW e \in S
  PROVE  <<e>> \in Seq(S)
  <1>1. [i \in 1..1 |-> e] \in [1..1 -> S]
    OBVIOUS
  <1>2. <<e>> = [i \in 1..1 |-> e]
    OBVIOUS
  <1> QED
    BY <1>1, <1>2, SeqDef

\* Positions(from, len) is a sequence of len numbers.
LEMMA PositionsType ==
  ASSUME NEW from \in Nat, NEW len \in Nat
  PROVE  /\ Positions(from, len) \in Seq(Nat)
         /\ Len(Positions(from, len)) = len
         /\ \A i \in 1..len : Positions(from, len)[i] = from + i
  <1>1. Positions(from, len) \in [1..len -> Nat]
    BY DEF Positions
  <1>2. Positions(from, len) \in Seq(Nat)
    BY <1>1, SeqDef
  <1>3. DOMAIN Positions(from, len) = 1..len /\ DOMAIN Positions(from, len) = 1..Len(Positions(from, len))
    BY <1>1, <1>2, LenProperties
  <1>4. Len(Positions(from, len)) = len
    BY <1>2, <1>3, LenProperties
  <1> QED
    BY <1>2, <1>4 DEF Positions

\* The first m positions and the n after them are the first m + n.
LEMMA PositionsJoin ==
  ASSUME NEW m \in Nat, NEW n \in Nat
  PROVE  Positions(0, m) \o Positions(m, n) = Positions(0, m + n)
  <1> DEFINE a == Positions(0, m)
             b == Positions(m, n)
             c == Positions(0, m + n)
  <1>1. a \in Seq(Nat) /\ Len(a) = m /\ \A i \in 1..m : a[i] = i
    <2>1. /\ a \in Seq(Nat) /\ Len(a) = m
          /\ \A i \in 1..m : a[i] = 0 + i
      BY PositionsType
    <2> QED
      BY <2>1
  <1>2. b \in Seq(Nat) /\ Len(b) = n /\ \A i \in 1..n : b[i] = m + i
    BY PositionsType
  <1>3. c \in Seq(Nat) /\ Len(c) = m + n /\ \A i \in 1..(m + n) : c[i] = i
    <2>1. /\ c \in Seq(Nat) /\ Len(c) = m + n
          /\ \A i \in 1..(m + n) : c[i] = 0 + i
      BY PositionsType
    <2> QED
      BY <2>1
  <1> HIDE DEF a, b, c
  <1>4. /\ a \o b \in Seq(Nat) /\ Len(a \o b) = m + n
        /\ \A i \in 1..(m + n) : (a \o b)[i] = IF i <= m THEN a[i] ELSE b[i - m]
    <2>1. /\ a \o b \in Seq(Nat) /\ Len(a \o b) = Len(a) + Len(b)
          /\ \A i \in 1..(Len(a) + Len(b)) :
               (a \o b)[i] = IF i <= Len(a) THEN a[i] ELSE b[i - Len(a)]
      BY <1>1, <1>2, ConcatProperties
    <2>2. Len(a) = m /\ Len(b) = n
      BY <1>1, <1>2
    <2> QED
      BY <2>1, <2>2, Zenon
  <1>5. ASSUME NEW i \in 1..(m + n) PROVE (a \o b)[i] = c[i]
    <2>1. CASE i <= m
      BY <1>1, <1>3, <1>4, <2>1
    <2>2. CASE ~(i <= m)
      <3>1. i - m \in 1..n
        BY <2>2
      <3>2. (a \o b)[i] = b[i - m] /\ b[i - m] = m + (i - m)
        BY <1>2, <1>4, <2>2, <3>1
      <3> QED
        BY <1>3, <3>2
    <2> QED
      BY <2>1, <2>2
  <1>6. a \o b = c
    BY <1>3, <1>4, <1>5, SeqEqual
  <1> QED
    BY <1>6 DEF a, b, c

\* What an honest server answers to a request within its database.
LEMMA AnswerType ==
  ASSUME database \in Databases, NEW from \in Nat, from < database.bytes
  PROVE  /\ Answer(from) \in [bytes : Seq(Nat), left : Nat]
         /\ Answer(from).bytes = Positions(from, Len(Answer(from).bytes))
         /\ Len(Answer(from).bytes) \in Nat \ {0}
         /\ Len(Answer(from).bytes) <= ServerChunk
         /\ Answer(from).left = database.bytes - (from + Len(Answer(from).bytes))
         /\ Answer(from).left > 0 => Len(Answer(from).bytes) = ServerChunk
  <1> DEFINE len == Least(ServerChunk, database.bytes - from)
             bytes == Positions(from, len)
  <1>1. database.bytes \in Nat /\ ServerChunk \in Nat \ {0}
    BY TransferAssumption
  <1>2. /\ len \in Nat \ {0} /\ len <= ServerChunk /\ len <= database.bytes - from
        /\ len = ServerChunk \/ len = database.bytes - from
    BY <1>1 DEF Least
  <1> HIDE DEF len
  <1>3. bytes \in Seq(Nat) /\ Len(bytes) = len
    BY <1>2, PositionsType
  <1>4. Answer(from) = [bytes |-> bytes, left |-> database.bytes - from - len]
    BY DEF Answer, Chunk, len
  <1>5. Answer(from).bytes = bytes /\ Answer(from).left = database.bytes - from - len
    BY <1>4
  <1>6. database.bytes - from - len \in Nat
    BY <1>1, <1>2
  <1>7. Answer(from) \in [bytes : Seq(Nat), left : Nat]
    BY <1>3, <1>4, <1>6
  <1> QED
    BY <1>1, <1>2, <1>3, <1>5, <1>6, <1>7, SMTT(60)

\* A database is one that an honest server holds.
LEMMA HonestDatabase ==
  ASSUME TypeOK, honest
  PROVE  database \in Databases /\ database.bytes \in Nat \ {0}
  BY TransferAssumption DEF TypeOK, honest

-----------------------------------------------------------------------------
(* The invariant is inductive.                                             *)

LEMMA InitInv == Init => IInv
  <1> SUFFICES ASSUME Init PROVE IInv
    OBVIOUS
  <1> USE DEF Init
  <1>1. TypeOK
    <2>1. replies \in Seq([bytes : Seq(Nat), left : Nat]) /\ applied \in Seq(Seq(Nat))
      BY EmptySeq, Zenon
    <2>2. requests \in Seq(Nat) /\ assembled \in Seq(Nat)
      BY EmptySeq, Zenon
    <2>3. requestedOffset \in Nat \cup {-1} /\ totalBytes \in Nat \cup {-1}
          /\ bytesLeft \in Nat \cup {-1} /\ chunks \in Nat
      OBVIOUS
    <2> QED
      BY <2>1, <2>2, <2>3, Zenon DEF TypeOK
  <1>2. LengthInv
    BY TransferAssumption DEF LengthInv, TransferBounded, bytesReceived
  <1>3. DecodeInv
    BY DEF DecodeInv
  <1>4. HonestInv
    <2>1. ASSUME honest PROVE assembled = Positions(0, bytesReceived)
      <3>1. /\ Positions(0, 0) \in Seq(Nat) /\ Len(Positions(0, 0)) = 0
        BY PositionsType
      <3>2. Positions(0, 0) = << >>
        BY <3>1
      <3> QED
        BY <3>2 DEF bytesReceived
    <2>2. honest => bytesReceived <= database.bytes
      BY <1>1, HonestDatabase DEF bytesReceived
    <2> QED
      BY <2>1, <2>2 DEF HonestInv
  <1>5. StallInv
    BY TransferAssumption DEF StallInv, bytesReceived
  <1> QED
    BY <1>1, <1>2, <1>3, <1>4, <1>5 DEF IInv

\* The hash of the world begins the one transfer of the session.
LEMMA HashInv == IInv /\ WorldHash => IInv'
  <1> SUFFICES ASSUME IInv, WorldHash PROVE IInv'
    OBVIOUS
  <1> USE DEF IInv, WorldHash, MayBegin
  <1>1. TypeOK'
    BY DEF TypeOK
  <1>2. LengthInv'
    BY TransferAssumption DEF LengthInv, TransferBounded, bytesReceived
  <1>3. DecodeInv'
    BY DEF DecodeInv, Good, honest
  <1>4. HonestInv'
    <2>1. Positions(0, 0) = << >>
      <3>1. Positions(0, 0) \in Seq(Nat) /\ Len(Positions(0, 0)) = 0
        BY PositionsType
      <3> QED
        BY <3>1
    <2>2. honest => database.bytes \in Nat \ {0}
      BY HonestDatabase
    <2>3. honest => requests = << >> /\ replies = << >>
      BY DEF HonestInv
    <2> QED
      BY <2>1, <2>2, <2>3 DEF HonestInv, Awaited, honest, bytesReceived
  <1>5. StallInv'
    <2>1. honest => requests = << >> /\ replies = << >> /\ ~rejected
      BY DEF HonestInv
    <2> QED
      BY <2>1, TransferAssumption DEF StallInv, Fits, honest, bytesReceived
  <1> QED
    BY <1>1, <1>2, <1>3, <1>4, <1>5

LEMMA AnswersInv == IInv /\ ServerAnswers => IInv'
  <1> SUFFICES ASSUME IInv, ServerAnswers PROVE IInv'
    OBVIOUS
  <1> USE DEF IInv, ServerAnswers, transfer, assembler
  <1>1. /\ requests = <<bytesReceived>> /\ Awaited /\ replies = << >>
        /\ bytesReceived \in Nat
    <2>1. requests = <<bytesReceived>> /\ Awaited /\ Len(requests) + Len(replies) <= 1
      BY DEF HonestInv
    <2>2. Len(replies) = 0 /\ replies \in Seq([bytes : Seq(Nat), left : Nat])
      BY <2>1 DEF TypeOK
    <2> QED
      BY <2>1, <2>2 DEF TypeOK, bytesReceived
  <1>2. requests' = << >> /\ replies' = <<Answer(bytesReceived)>>
    BY <1>1
  <1>3. Answer(bytesReceived) \in [bytes : Seq(Nat), left : Nat]
    BY <1>1, HonestDatabase, AnswerType DEF Awaited
  <1>4. TypeOK'
    <2>1. replies' \in Seq([bytes : Seq(Nat), left : Nat])
      BY <1>2, <1>3, Singleton
    <2>2. requests' \in Seq(Nat)
      BY <1>2, EmptySeq, Zenon
    <2> QED
      BY <2>1, <2>2 DEF TypeOK
  <1>5. LengthInv'
    BY DEF LengthInv, TransferBounded, bytesReceived
  <1>6. DecodeInv'
    BY DEF DecodeInv, IsWhole, Good, honest
  <1>7. bytesReceived' = bytesReceived /\ Answer(bytesReceived)' = Answer(bytesReceived)
    BY DEF bytesReceived, Answer, Chunk
  <1>8. HonestInv'
    BY <1>1, <1>2, <1>7 DEF HonestInv, Awaited, honest
  <1>9. StallInv'
    BY <1>1, <1>2, <1>7 DEF StallInv, Fits, honest
  <1> QED
    BY <1>4, <1>5, <1>6, <1>8, <1>9

LEMMA SendsInv ==
  ASSUME NEW len \in Nat, NEW left \in Nat
  PROVE  IInv /\ ServerSends(len, left) => IInv'
  <1> SUFFICES ASSUME IInv, ServerSends(len, left) PROVE IInv'
    OBVIOUS
  <1> USE DEF IInv, ServerSends, transfer, assembler
  <1>1. [i \in 1..len |-> 0] \in Seq(Nat)
    <2>1. [i \in 1..len |-> 0] \in [1..len -> Nat]
      OBVIOUS
    <2> QED
      BY <2>1, SeqDef
  <1>2. Chunk([i \in 1..len |-> 0], left) \in [bytes : Seq(Nat), left : Nat]
    BY <1>1 DEF Chunk
  <1>3. TypeOK'
    BY <1>2 DEF TypeOK
  <1>4. LengthInv'
    BY DEF LengthInv, TransferBounded, bytesReceived
  <1>5. DecodeInv'
    BY DEF DecodeInv, IsWhole, Good, honest
  <1>6. HonestInv' /\ StallInv'
    BY DEF HonestInv, StallInv, honest
  <1> QED
    BY <1>3, <1>4, <1>5, <1>6

LEMMA DecodeEndsInv == IInv /\ DecodeEnds => IInv'
  <1> SUFFICES ASSUME IInv, DecodeEnds PROVE IInv'
    OBVIOUS
  <1> USE DEF IInv, DecodeEnds, wire, transfer, assembler
  <1>1. complete /\ applied = << >>
    BY DEF DecodeInv
  <1>2. TypeOK'
    <2>1. applied' \in Seq(Seq(Nat))
      <3>1. applied' = applied \/ applied' = <<assembled>>
        BY <1>1
      <3> QED
        BY <3>1, Singleton DEF TypeOK
    <2>2. rejected' \in BOOLEAN
      BY DEF TypeOK
    <2> QED
      BY <2>1, <2>2 DEF TypeOK
  <1>3. LengthInv'
    BY DEF LengthInv, TransferBounded, bytesReceived
  <1>4. DecodeInv'
    <2> SUFFICES ASSUME applied' # << >>
                 PROVE  /\ applied' = <<assembled>>
                        /\ honest => Good
      BY <1>1 DEF DecodeInv, IsWhole, Good, honest
    <2>1. TRUE \in DecodesTo /\ applied' = Append(applied, assembled)
      BY <1>1, Zenon
    <2>2. honest => Good
      BY <1>1, <2>1 DEF DecodesTo, DecodeInv, Good
    <2> QED
      BY <1>1, <2>1, <2>2
  <1>5. bytesReceived' = bytesReceived /\ Answer(bytesReceived)' = Answer(bytesReceived)
    BY DEF bytesReceived, Answer, Chunk
  <1>6. HonestInv'
    <2>1. honest => started
      BY <1>1, TransferAssumption DEF DecodeInv, HonestInv, TypeOK
    <2> QED
      BY <1>1, <1>5, <2>1 DEF HonestInv, Awaited, honest
  <1>7. StallInv'
    BY <1>1, <1>5 DEF StallInv, Fits, honest
  <1> QED
    BY <1>2, <1>3, <1>4, <1>6, <1>7

\* A promise's error is noted, or the socket is closed.
LEMMA ClosesInv == IInv /\ (Catch \/ Closes) => IInv'
  <1> SUFFICES ASSUME IInv, Catch \/ Closes PROVE IInv'
    OBVIOUS
  <1>1. /\ open' \in {open, FALSE} /\ rejected' \in {rejected, FALSE}
        /\ UNCHANGED <<database, requests, replies, started, complete, requestedOffset,
                       assembled, chunks, totalBytes, bytesLeft, assembly, decoding, applied>>
    BY DEF Catch, Closes, transfer, assembler
  <1> USE DEF IInv
  <1>2. TypeOK'
    BY <1>1 DEF TypeOK
  <1>3. LengthInv'
    BY <1>1 DEF LengthInv, TransferBounded, bytesReceived
  <1>4. DecodeInv'
    BY <1>1 DEF DecodeInv, IsWhole, Good, honest
  <1>5. bytesReceived' = bytesReceived /\ Answer(bytesReceived)' = Answer(bytesReceived)
    BY <1>1 DEF bytesReceived, Answer, Chunk
  <1>6. HonestInv'
    BY <1>1, <1>5 DEF HonestInv, Awaited, honest
  <1>7. StallInv'
    BY <1>1, <1>5 DEF StallInv, Fits, honest
  <1> QED
    BY <1>2, <1>3, <1>4, <1>6, <1>7

-----------------------------------------------------------------------------
(* A chunk that is received.                                               *)

\* What is known of a chunk when it is taken from the replies.
Delivered(c) ==
  /\ c.bytes \in Seq(Nat) /\ Len(c.bytes) \in Nat /\ c.left \in Nat
  /\ replies' \in Seq([bytes : Seq(Nat), left : Nat])
  /\ database' = database /\ open' = open /\ applied' = applied
  /\ honest =>
       /\ Awaited /\ requests = << >> /\ replies' = << >> /\ started
       /\ Len(replies) = 1
       /\ Len(c.bytes) > 0 /\ Len(c.bytes) <= ServerChunk
       /\ c.bytes = Positions(bytesReceived, Len(c.bytes))
       /\ c.left = database.bytes - (bytesReceived + Len(c.bytes))
       /\ c.left > 0 => Len(c.bytes) = ServerChunk

LEMMA HeadDelivered ==
  ASSUME IInv, ReceiveChunk
  PROVE  Delivered(Head(replies))
  <1> DEFINE c == Head(replies)
  <1>1. replies \in Seq([bytes : Seq(Nat), left : Nat]) /\ replies # << >>
    BY DEF IInv, TypeOK, ReceiveChunk
  <1>2. c \in [bytes : Seq(Nat), left : Nat] /\ Tail(replies) \in Seq([bytes : Seq(Nat), left : Nat])
    BY <1>1, HeadTailProperties
  <1>3. c.bytes \in Seq(Nat) /\ Len(c.bytes) \in Nat /\ c.left \in Nat
    <2>1. c.bytes \in Seq(Nat) /\ c.left \in Nat
      BY <1>2
    <2> QED
      BY <2>1, LenProperties
  <1>4. replies' = Tail(replies) /\ database' = database /\ open' = open /\ applied' = applied
    BY DEF ReceiveChunk
  <1>5. ASSUME honest
        PROVE  /\ Awaited /\ requests = << >> /\ replies' = << >> /\ started
               /\ Len(replies) = 1
               /\ Len(c.bytes) > 0 /\ Len(c.bytes) <= ServerChunk
               /\ c.bytes = Positions(bytesReceived, Len(c.bytes))
               /\ c.left = database.bytes - (bytesReceived + Len(c.bytes))
               /\ c.left > 0 => Len(c.bytes) = ServerChunk
    <2>1. /\ Awaited /\ replies = <<Answer(bytesReceived)>>
          /\ Len(requests) + Len(replies) <= 1
      BY <1>1, <1>5 DEF IInv, HonestInv
    <2>2. c = Answer(bytesReceived) /\ Tail(replies) = << >> /\ Len(replies) = 1
      BY <2>1
    <2>3. Len(requests) = 0 /\ requests \in Seq(Nat)
      BY <2>1, <2>2, LenProperties DEF IInv, TypeOK
    <2>4. requests = << >>
      BY <2>3
    <2>5. bytesReceived \in Nat /\ database \in Databases /\ bytesReceived < database.bytes
      BY <1>5, <2>1, HonestDatabase, LenProperties DEF IInv, TypeOK, bytesReceived, Awaited
    <2>6. /\ c.bytes = Positions(bytesReceived, Len(c.bytes))
          /\ Len(c.bytes) \in Nat \ {0} /\ Len(c.bytes) <= ServerChunk
          /\ c.left = database.bytes - (bytesReceived + Len(c.bytes))
          /\ c.left > 0 => Len(c.bytes) = ServerChunk
      BY <2>2, <2>5, AnswerType, Zenon
    <2>7. Len(c.bytes) > 0
      BY <2>6
    <2> HIDE DEF c
    <2> QED
      BY <1>4, <2>1, <2>2, <2>4, <2>6, <2>7 DEF Awaited
  <1> QED
    BY <1>2, <1>3, <1>4, <1>5 DEF Delivered

\* No chunk of a database that fits is refused.
LEMMA FitsAccepted ==
  ASSUME IInv, NEW c, Delivered(c), honest, Fits
  PROVE  Decodable(c) /\ Acceptable(c)
  <1>1. /\ database.bytes \in Nat \ {0} /\ database.bytes <= MaxTransferBytes
        /\ ServerChunk \in Nat \ {0} /\ ServerChunk <= MaxChunkBytes
        /\ MaxChunks \in Nat /\ MaxChunkBytes \in Nat /\ MaxTransferBytes \in Nat
        /\ database.bytes <= MaxChunks * ServerChunk
    BY HonestDatabase, TransferAssumption DEF IInv, Fits
  <1>2. /\ bytesReceived \in Nat /\ chunks \in Nat
        /\ bytesLeft \in Nat \cup {-1} /\ totalBytes \in Nat \cup {-1}
    BY LenProperties DEF IInv, TypeOK, bytesReceived
  <1>3. /\ Len(c.bytes) \in Nat /\ c.left \in Nat /\ Len(c.bytes) > 0
        /\ Len(c.bytes) <= ServerChunk
        /\ c.left = database.bytes - (bytesReceived + Len(c.bytes))
        /\ assembly = "going" /\ ~complete /\ bytesReceived < database.bytes
    BY DEF Delivered, Awaited
  <1>4. chunks > 0 => totalBytes = database.bytes /\ bytesReceived + bytesLeft = totalBytes
    BY DEF IInv, HonestInv, LengthInv, TransferBounded
  <1>5. chunks = 0 => totalBytes = -1 /\ bytesReceived = 0
    <2>1. chunks = 0 => totalBytes = -1 /\ assembled = << >>
      BY <1>3 DEF IInv, LengthInv, TransferBounded
    <2> QED
      BY <2>1 DEF bytesReceived
  <1>6. Total(c) = database.bytes
    BY <1>1, <1>2, <1>3, <1>4, <1>5 DEF Total
  <1>7. chunks < MaxChunks
    <2>1. CASE chunks = 0
      <3>1. MaxChunks # 0
        BY <1>1
      <3> QED
        BY <1>1, <2>1, <3>1
    <2>2. CASE chunks > 0
      <3>1. bytesLeft # 0
        BY <1>2, <1>3, <1>4, <2>2
      <3>2. bytesReceived = chunks * ServerChunk
        BY <3>1 DEF IInv, StallInv
      <3>3. chunks * ServerChunk < MaxChunks * ServerChunk
        BY <1>1, <1>2, <1>3, <3>2
      <3>4. SUFFICES ASSUME MaxChunks <= chunks PROVE FALSE
        BY <1>1, <1>2
      <3>5. PICK k \in Nat : chunks = MaxChunks + k
        <4>1. chunks - MaxChunks \in Nat /\ chunks = MaxChunks + (chunks - MaxChunks)
          BY <1>1, <1>2, <3>4
        <4> QED
          BY <4>1
      <3>6. chunks * ServerChunk = MaxChunks * ServerChunk + k * ServerChunk
        BY <1>1, <3>5
      <3>7. k * ServerChunk \in Nat /\ MaxChunks * ServerChunk \in Nat
        BY <1>1
      <3> QED
        BY <3>3, <3>6, <3>7
    <2> QED
      BY <1>2, <2>1, <2>2
  <1>8. Decodable(c)
    BY <1>1, <1>2, <1>3 DEF Decodable
  <1>9. c.bytes # << >>
    BY <1>3
  <1>10. WithinLimits(c)
    BY <1>1, <1>2, <1>3, <1>7 DEF WithinLimits
  <1> QED
    BY <1>3, <1>6, <1>8, <1>9, <1>10 DEF Acceptable

\* A chunk that decodes to nothing is dropped; a chunk that push() refuses
\* leaves the assembler as it was, but for the length and its failure.
LEMMA RefusedInv ==
  ASSUME IInv, NEW c, Delivered(c), ~(Decodable(c) /\ Acceptable(c)),
         UNCHANGED <<requests, transfer, decoding, assembled, chunks, bytesLeft>>,
         rejected' \in BOOLEAN,
         \/ UNCHANGED <<totalBytes, assembly>>
         \/ /\ Decodable(c)
            /\ assembly' = IF assembly = "complete" THEN assembly ELSE "failed"
            /\ totalBytes' = IF WithinLimits(c) THEN Total(c) ELSE totalBytes
  PROVE  IInv'
  <1>1. /\ bytesReceived \in Nat /\ chunks \in Nat
        /\ totalBytes \in Nat \cup {-1} /\ c.left \in Nat /\ Len(c.bytes) \in Nat
    BY LenProperties DEF IInv, TypeOK, bytesReceived, Delivered
  <1>2. totalBytes' \in Nat \cup {-1} /\ (chunks > 0 => totalBytes' = totalBytes)
    <2>1. chunks > 0 => totalBytes # -1
      BY <1>1 DEF IInv, LengthInv, TransferBounded, TypeOK
    <2> QED
      BY <1>1, <2>1 DEF Total
  <1>3. assembly' \in {"going", "complete", "failed"}
        /\ (assembly' = "going" => assembly = "going" /\ totalBytes' = totalBytes)
        /\ (assembly = "complete" => assembly' = "complete")
    BY DEF IInv, TypeOK
  <1>4. TypeOK'
    BY <1>2, <1>3 DEF IInv, TypeOK, Delivered, transfer
  <1>5. LengthInv'
    BY <1>2, <1>3 DEF IInv, LengthInv, TransferBounded, bytesReceived
  <1>6. DecodeInv'
    BY <1>3 DEF IInv, DecodeInv, IsWhole, Good, honest, Delivered, transfer
  <1>7. HonestInv'
    BY <1>1, <1>2 DEF IInv, HonestInv, honest, Delivered, transfer, bytesReceived
  <1>8. StallInv'
    <2>1. ~(honest /\ Fits)
      BY FitsAccepted
    <2> QED
      BY <2>1 DEF StallInv, Fits, honest, Delivered
  <1> QED
    BY <1>4, <1>5, <1>6, <1>7, <1>8 DEF IInv

\* A chunk that push() takes: the next one is asked for, or the transfer is
\* complete or, without an envelope, failed.
LEMMA TakenInv ==
  ASSUME IInv, NEW c, Delivered(c), Decodable(c), Acceptable(c), Take(c)
  PROVE  IInv'
  <1> DEFINE bytes == assembled \o c.bytes
             len   == Len(c.bytes)
  <1>1. /\ assembled \in Seq(Nat) /\ bytesReceived \in Nat /\ chunks \in Nat
        /\ totalBytes \in Nat \cup {-1} /\ bytesLeft \in Nat \cup {-1}
        /\ requests \in Seq(Nat) /\ rejected \in BOOLEAN
        /\ started \in BOOLEAN /\ complete \in BOOLEAN /\ requestedOffset \in Nat \cup {-1}
    BY LenProperties DEF IInv, TypeOK, bytesReceived
  <1>2. /\ c.bytes \in Seq(Nat) /\ len \in Nat /\ c.left \in Nat
        /\ replies' \in Seq([bytes : Seq(Nat), left : Nat])
        /\ database' = database /\ open' = open /\ applied' = applied
    BY DEF Delivered
  <1>3. bytes \in Seq(Nat) /\ Len(bytes) = bytesReceived + len
    BY <1>1, <1>2, ConcatProperties DEF bytesReceived
  <1>4. /\ assembled' = bytes /\ bytesReceived' = Len(bytes) /\ chunks' = chunks + 1
        /\ totalBytes' = Total(c) /\ bytesLeft' = c.left /\ started' = started
    BY DEF Take, Throws, transfer, bytesReceived
  <1>5. /\ assembly = "going" /\ chunks < MaxChunks
        /\ Len(bytes) <= MaxTransferBytes /\ c.left = Total(c) - Len(bytes)
    BY <1>3 DEF Acceptable, WithinLimits
  <1>6. /\ Total(c) \in Nat /\ Total(c) <= MaxTransferBytes
    <2>1. chunks = 0 => totalBytes = -1
      BY <1>5 DEF IInv, LengthInv
    <2>2. chunks > 0 => totalBytes \in Nat /\ totalBytes <= MaxTransferBytes
      BY <1>1 DEF IInv, LengthInv, TransferBounded
    <2>3. c.left + len <= MaxTransferBytes
      BY DEF Decodable
    <2> QED
      BY <1>1, <1>2, <2>1, <2>2, <2>3 DEF Total
  <1>7. ~complete /\ decoding = "none" /\ applied = << >>
    BY <1>1, <1>5 DEF IInv, DecodeInv
  <1>8. ASSUME honest
        PROVE  /\ bytes = Positions(0, Len(bytes)) /\ Len(bytes) <= database.bytes
               /\ Total(c) = database.bytes /\ c.left = database.bytes - Len(bytes)
               /\ requests = << >> /\ replies' = << >> /\ started
               /\ len > 0 /\ requestedOffset = bytesReceived
    <2>1. /\ Awaited /\ requests = << >> /\ replies' = << >> /\ started
          /\ len > 0 /\ c.bytes = Positions(bytesReceived, len)
          /\ c.left = database.bytes - (bytesReceived + len)
      BY <1>8 DEF Delivered
    <2>2. assembled = Positions(0, bytesReceived) /\ database.bytes \in Nat
      BY <1>8, HonestDatabase DEF IInv, HonestInv
    <2>3. assembled \o c.bytes = Positions(0, bytesReceived + len)
      BY <1>1, <1>2, <2>1, <2>2, PositionsJoin, Zenon
    <2> QED
      BY <1>1, <1>2, <1>3, <1>5, <1>6, <2>1, <2>2, <2>3, SMTT(60) DEF Awaited
  <1> HIDE DEF bytes, len
  <1>9. LengthInv'
    <2>1. ~(chunks' = 0) /\ chunks' <= MaxChunks
      BY <1>1, <1>4, <1>5, TransferAssumption
    <2> QED
      BY <1>1, <1>2, <1>3, <1>4, <1>5, <1>6, <2>1 DEF LengthInv, TransferBounded
  <1>10. CASE c.left > 0
    <2>1. /\ requestedOffset' \in Nat \cup {-1} /\ requests' \in Seq(Nat)
          /\ honest => /\ requestedOffset' = Len(bytes)
                       /\ requests' = IF open THEN <<Len(bytes)>> ELSE << >>
      <3>1. AskNext(Len(bytes))
        BY <1>10 DEF Take, bytes
      <3>2. CASE requestedOffset = Len(bytes)
        <4>1. ~honest
          BY <1>1, <1>2, <1>3, <1>8, <3>2
        <4>2. UNCHANGED <<requestedOffset, requests>>
          BY <3>1, <3>2 DEF AskNext
        <4> QED
          BY <1>1, <4>1, <4>2
      <3>3. CASE requestedOffset # Len(bytes)
        <4>1. /\ requestedOffset' = Len(bytes)
              /\ requests' = IF open THEN Append(requests, Len(bytes)) ELSE requests
          BY <3>1, <3>3 DEF AskNext
        <4>2. Len(bytes) \in Nat
          BY <1>1, <1>2, <1>3
        <4>3. requests' \in Seq(Nat)
          BY <1>1, <4>1, <4>2, AppendProperties
        <4>4. honest => requests' = IF open THEN <<Len(bytes)>> ELSE << >>
          BY <1>8, <4>1
        <4> QED
          BY <4>1, <4>2, <4>3, <4>4
      <3> QED
        BY <3>2, <3>3
    <2>2. UNCHANGED <<assembly, rejected, complete, decoding>>
      BY <1>10 DEF Take
    <2>3. TypeOK'
      BY <1>2, <1>3, <1>4, <1>6, <1>1, <2>1, <2>2 DEF IInv, TypeOK
    <2>4. DecodeInv'
      BY <1>2, <1>7, <2>2 DEF DecodeInv
    <2>5. HonestInv'
      <3> SUFFICES ASSUME honest
                   PROVE  /\ Len(requests') + Len(replies') <= 1
                          /\ requests' # << >> => Awaited' /\ requests' = <<bytesReceived'>>
                          /\ replies' = << >> /\ started'
                          /\ assembled' = Positions(0, bytesReceived')
                          /\ bytesReceived' <= database.bytes
                          /\ totalBytes' = database.bytes
        BY <1>2 DEF HonestInv, honest
      <3>1. Awaited'
        <4>1. database.bytes \in Nat /\ Len(bytes) \in Nat
          BY <1>1, <1>2, <1>3, HonestDatabase DEF IInv
        <4>2. Len(bytes) < database.bytes
          BY <1>8, <1>10, <4>1
        <4>3. requestedOffset' = Len(bytes) /\ started'
          BY <1>4, <1>8, <2>1
        <4> QED
          BY <1>2, <1>4, <1>5, <1>7, <2>2, <4>2, <4>3 DEF Awaited
      <3>2. Len(requests') <= 1 /\ (requests' # << >> => requests' = <<Len(bytes)>>)
        <4>1. CASE open
          <5>1. requests' = <<Len(bytes)>>
            BY <2>1, <4>1
          <5> QED
            BY <5>1
        <4>2. CASE ~open
          <5>1. requests' = << >>
            BY <2>1, <4>2
          <5> QED
            BY <5>1
        <4> QED
          BY <4>1, <4>2
      <3> QED
        BY <1>4, <1>8, <3>1, <3>2
    <2>6. StallInv'
      <3> SUFFICES ASSUME honest, Fits
                   PROVE  /\ bytesReceived' = chunks' * ServerChunk
                          /\ open => ~rejected' /\ Len(requests') + Len(replies') = 1
        BY <1>2 DEF StallInv, Fits, honest
      <3>1. ServerChunk \in Nat
        BY TransferAssumption
      <3>2. bytesReceived = chunks * ServerChunk /\ (open => ~rejected)
        <4>1. bytesLeft # 0
          <5>1. chunks > 0 => totalBytes = database.bytes /\ bytesReceived + bytesLeft = totalBytes
            BY DEF IInv, HonestInv, LengthInv, TransferBounded
          <5>2. chunks = 0 => bytesLeft = -1
            BY <1>5 DEF IInv, LengthInv
          <5> QED
            BY <1>1, <1>2, <1>3, <1>8, <5>1, <5>2
        <4> QED
          BY <4>1, <1>7, <1>8 DEF IInv, StallInv
      <3>3. len = ServerChunk
        BY <1>10 DEF Delivered, len
      <3>4. (chunks + 1) * ServerChunk = chunks * ServerChunk + ServerChunk
        BY <1>1, <3>1
      <3>5. open => Len(requests') = 1
        BY <2>1
      <3> QED
        BY <1>3, <1>4, <1>8, <2>2, <3>2, <3>3, <3>4, <3>5
    <2> QED
      BY <1>9, <2>3, <2>4, <2>5, <2>6 DEF IInv
  <1>11. CASE ~(c.left > 0)
    <2>1. c.left = 0
      BY <1>2, <1>11
    <2>2. PICK valid \in EnvelopeValid(bytes) :
            IF valid
              THEN /\ assembly' = "complete" /\ complete' = TRUE
                   /\ requestedOffset' = -1 /\ decoding' = "running"
                   /\ UNCHANGED <<started, requests, rejected>>
              ELSE assembly' = "failed" /\ Throws
      BY <1>11, Zenon DEF Take, bytes
    <2>3. honest => IsWhole(bytes)
      BY <1>8, <2>1, <1>2, <1>3, HonestDatabase DEF IsWhole, IInv
    <2>4. /\ requests' = requests /\ requestedOffset' \in Nat \cup {-1}
          /\ rejected' \in BOOLEAN /\ complete' \in BOOLEAN
          /\ assembly' \in {"failed", "complete"} /\ decoding' \in {"none", "running"}
          /\ decoding' = "none" <=> ~complete'
          /\ complete' => assembly' = "complete"
      BY <1>1, <1>7, <2>2 DEF Throws, transfer
    <2>5. complete' /\ honest => database.recognized
      <3>1. complete' => valid
        BY <1>7, <2>2 DEF Throws, transfer
      <3> QED
        BY <2>3, <3>1 DEF EnvelopeValid
    <2>6. TypeOK'
      BY <1>1, <1>2, <1>3, <1>4, <1>6, <2>4 DEF IInv, TypeOK
    <2>7. DecodeInv'
      <3>1. honest' => IsWhole(assembled)'
        BY <1>2, <1>4, <2>3 DEF IsWhole, honest
      <3>2. complete' => assembly' = "complete" /\ chunks' > 0 /\ bytesLeft' = 0
        BY <1>1, <1>4, <2>1, <2>4
      <3>3. complete' /\ honest' => database.recognized'
        BY <1>2, <2>5 DEF honest
      <3>4. applied' = << >>
        BY <1>2, <1>7
      <3> QED
        BY <2>4, <3>1, <3>2, <3>3, <3>4 DEF DecodeInv
    <2>8. HonestInv'
      BY <1>1, <1>2, <1>4, <1>8, <2>4 DEF HonestInv, honest
    <2>9. StallInv'
      BY <1>4, <2>1 DEF StallInv
    <2> QED
      BY <1>9, <2>6, <2>7, <2>8, <2>9 DEF IInv
  <1> QED
    BY <1>10, <1>11

LEMMA ReceiveInv == IInv /\ ReceiveChunk => IInv'
  <1> SUFFICES ASSUME IInv, ReceiveChunk PROVE IInv'
    OBVIOUS
  <1> DEFINE c == Head(replies)
  <1>1. Delivered(c)
    BY HeadDelivered
  <1> HIDE DEF c
  <1>2. \/ /\ ~Decodable(c)
           /\ UNCHANGED <<requests, rejected, transfer, assembler, decoding>>
        \/ Decodable(c) /\ Acceptable(c) /\ Take(c)
        \/ /\ Decodable(c) /\ ~Acceptable(c)
           /\ assembly' = IF assembly = "complete" THEN assembly ELSE "failed"
           /\ totalBytes' = IF WithinLimits(c) THEN Total(c) ELSE totalBytes
           /\ UNCHANGED <<assembled, chunks, bytesLeft>>
           /\ Throws
    BY Zenon DEF ReceiveChunk, c
  <1>3. CASE ~Decodable(c) /\ UNCHANGED <<requests, rejected, transfer, assembler, decoding>>
    <2>1. /\ UNCHANGED <<requests, transfer, decoding, assembled, chunks, bytesLeft>>
          /\ UNCHANGED <<totalBytes, assembly>>
      BY <1>3 DEF assembler
    <2>2. rejected' \in BOOLEAN
      BY <1>3 DEF IInv, TypeOK
    <2> QED
      BY <1>1, <1>3, <2>1, <2>2, RefusedInv, Zenon
  <1>4. CASE Decodable(c) /\ Acceptable(c) /\ Take(c)
    BY <1>1, <1>4, TakenInv, Zenon
  <1>5. CASE /\ Decodable(c) /\ ~Acceptable(c)
             /\ assembly' = IF assembly = "complete" THEN assembly ELSE "failed"
             /\ totalBytes' = IF WithinLimits(c) THEN Total(c) ELSE totalBytes
             /\ UNCHANGED <<assembled, chunks, bytesLeft>>
             /\ Throws
    <2>1. UNCHANGED <<requests, transfer, decoding, assembled, chunks, bytesLeft>>
          /\ rejected' \in BOOLEAN
      BY <1>5 DEF Throws
    <2> QED
      BY <1>1, <1>5, <2>1, RefusedInv, Zenon
  <1> QED
    BY <1>2, <1>3, <1>4, <1>5

LEMMA StutterInv == IInv /\ UNCHANGED vars => IInv'
  BY DEF IInv, TypeOK, LengthInv, TransferBounded, DecodeInv, HonestInv, StallInv, Awaited,
         IsWhole, Good, Fits, Answer, Chunk, honest, bytesReceived, vars, wire, transfer, assembler

-----------------------------------------------------------------------------
(* The theorems.                                                           *)

\* The inductive invariant holds in every reachable state.
THEOREM InvariantHolds == Spec => []IInv
  <1>1. ASSUME IInv, [Next]_vars PROVE IInv'
    <2>1. CASE UNCHANGED vars
      BY <1>1, <2>1, StutterInv
    <2>2. CASE Next
      <3>1. CASE WorldHash
        BY <1>1, <3>1, HashInv
      <3>2. CASE ServerAnswers
        BY <1>1, <3>2, AnswersInv
      <3>3. CASE ReceiveChunk
        BY <1>1, <3>3, ReceiveInv
      <3>4. CASE DecodeEnds
        BY <1>1, <3>4, DecodeEndsInv
      <3>5. CASE Catch \/ Closes
        BY <1>1, <3>5, ClosesInv
      <3>6. CASE \E len \in 0..(MaxChunkBytes + 1), left \in 0..(MaxTransferBytes + 1) :
                   ServerSends(len, left)
        <4>1. PICK len \in 0..(MaxChunkBytes + 1), left \in 0..(MaxTransferBytes + 1) :
                ServerSends(len, left)
          BY <3>6
        <4>2. len \in Nat /\ left \in Nat
          BY TransferAssumption
        <4> QED
          BY <1>1, <4>1, <4>2, SendsInv
      <3> QED
        BY <2>2, <3>1, <3>2, <3>3, <3>4, <3>5, <3>6 DEF Next
    <2> QED
      BY <1>1, <2>1, <2>2
  <1> QED
    BY <1>1, InitInv, PTL DEF Spec

\* Every variable of the transfer stays in its range: an offset that is asked
\* for is a place in the database (appendWorldChunk).
THEOREM TypeCorrect == Spec => []TypeOK
  <1>1. IInv => TypeOK
    BY DEF IInv
  <1> QED
    BY <1>1, InvariantHolds, PTL

\* What is held of a database is within the limits, and its length is the one
\* that was said first, whatever a server sends (WorldTransferAssembler.push).
THEOREM Bounded == Spec => []TransferBounded
  <1>1. IInv => TransferBounded
    BY DEF IInv, LengthInv
  <1> QED
    BY <1>1, InvariantHolds, PTL

\* Geometry is applied once at most, and of an honest server's database from
\* exactly its bytes (appendWorldChunk, decodeWorldEnvelope).
THEOREM Exact == Spec => []WorldExact
  <1>1. IInv => WorldExact
    <2> SUFFICES ASSUME IInv PROVE WorldExact
      OBVIOUS
    <2>1. CASE applied = << >>
      BY <2>1 DEF WorldExact
    <2>2. CASE applied # << >>
      <3>1. /\ applied = <<assembled>> /\ complete /\ chunks > 0 /\ bytesLeft = 0
            /\ honest => IsWhole(assembled) /\ Good
        BY <2>2 DEF IInv, TypeOK, DecodeInv
      <3>2. Len(applied) = 1 /\ applied[1] = assembled
        BY <3>1
      <3>3. bytesReceived = totalBytes
        <4>1. bytesReceived + bytesLeft = totalBytes /\ bytesReceived \in Nat
          BY <3>1, LenProperties DEF IInv, TypeOK, LengthInv, TransferBounded, bytesReceived
        <4> QED
          BY <3>1, <4>1
      <3> QED
        BY <3>1, <3>2, <3>3 DEF WorldExact, bytesReceived
    <2> QED
      BY <2>1, <2>2
  <1> QED
    BY <1>1, InvariantHolds, PTL

\* The transfer of a database that fits goes on, from the right place, until its
\* last chunk (appendWorldChunk, beginWorldTransfer).
THEOREM GoesOn == Spec => []NeverStalls
  <1>1. IInv => NeverStalls
    <2> SUFFICES ASSUME IInv, honest, Fits, open, started, ~complete, bytesLeft # 0
                 PROVE  /\ assembly = "going" /\ ~rejected
                        /\ Len(requests) + Len(replies) = 1
                        /\ \A i \in DOMAIN requests : requests[i] = bytesReceived
                        /\ \A i \in DOMAIN replies :
                             replies[i].bytes = Positions(bytesReceived, Len(replies[i].bytes))
      BY DEF NeverStalls
    <2>1. ~rejected /\ Len(requests) + Len(replies) = 1
      BY DEF IInv, StallInv
    <2>2. requests # << >> \/ replies # << >>
      BY <2>1
    <2>3. Awaited
      BY <2>2 DEF IInv, HonestInv
    <2>4. \A i \in DOMAIN requests : requests[i] = bytesReceived
      <3>1. requests = << >> \/ requests = <<bytesReceived>>
        BY DEF IInv, HonestInv
      <3> QED
        BY <3>1
    <2>5. ASSUME NEW i \in DOMAIN replies
          PROVE  replies[i].bytes = Positions(bytesReceived, Len(replies[i].bytes))
      <3>1. replies = <<Answer(bytesReceived)>>
        BY DEF IInv, HonestInv
      <3>2. replies[i] = Answer(bytesReceived)
        BY <3>1
      <3>3. bytesReceived \in Nat /\ database \in Databases /\ bytesReceived < database.bytes
        BY <2>3, HonestDatabase, LenProperties DEF IInv, TypeOK, bytesReceived, Awaited
      <3> QED
        BY <3>2, <3>3, AnswerType
    <2> QED
      BY <2>1, <2>3, <2>4, <2>5 DEF Awaited
  <1> QED
    BY <1>1, InvariantHolds, PTL

-----------------------------------------------------------------------------
(* WorldReader.                                                            *)

Frames == [of : DOMAIN Layout, at : Nat \ {0}, left : Nat \ {0}]

\* The records of a stack that are under way.
Under(s) == {i \in DOMAIN s : s[i].of \in Records /\ s[i].at > 1}

\* Types.
Typed ==
  /\ size \in Nat /\ pos \in 0 .. size
  /\ kept \in Nat /\ total \in Nat
  /\ stack \in Seq(Frames)
  /\ mesh.count \in [Parts -> Nat] /\ DOMAIN mesh = {"count", "refs", "bytes", "drawInfo"}

\* Within an obstacle there is neither an obstacle nor what holds lists of them.
Nested ==
  \A i, j \in DOMAIN stack : i < j /\ stack[i].of \notin Outer => stack[j].of \notin Outer \cup Kinds

\* What a list of obstacles still has to come is within the total.
WithinLimit ==
  /\ TotalBounded
  /\ \A i \in DOMAIN stack : stack[i].of \in Kinds => total + stack[i].left <= Limit["total"]

Sound ==
  /\ \A p \in Parts : mesh.refs[p] \subseteq 0 .. mesh.count[p] - 1
  /\ 8 * mesh.count["texcoord"] + mesh.drawInfo = mesh.bytes

\* A mesh whose state was read is the last thing read, and sound.
MeshDone ==
  \A i \in DOMAIN stack :
    stack[i].of = "mesh" /\ stack[i].at > Len(Layout["mesh"]) => i = Len(stack) /\ Sound

ReaderInv == Typed /\ KeptWithinBytes /\ Nested /\ WithinLimit /\ MeshDone

-----------------------------------------------------------------------------
(* The stack.                                                              *)

\* The item that is read next, and the layouts it leads to.
LEMMA ItemFacts ==
  ASSUME Typed, AtItem
  PROVE  /\ stack # << >> /\ Len(stack) \in Nat \ {0} /\ Top \in Frames
         /\ Top.at \in DOMAIN Layout[Top.of]
         /\ Item.n \in Nat /\ Bodies(Item) \subseteq DOMAIN Layout
         /\ Counted(Item) => Limit[Item.limit] \in Nat
         /\ Top.of \in Records /\ Top.at = 1 => Item.n > 0
<1>1. stack # << >> /\ Len(stack) \in Nat \ {0}
  BY EmptySeq DEF Typed, AtItem
<1>2. Top \in Frames
  BY <1>1, ElementOfSeq DEF Typed, Top
<1>3. Top.of \in DOMAIN Layout /\ Top.at \in Nat \ {0}
  BY <1>2 DEF Frames
<1>4. Top.at \in DOMAIN Layout[Top.of]
  BY <1>3, LayoutAssumption DEF LayoutAssumption, AtItem
<1>5. /\ Item.n \in Nat /\ Bodies(Item) \subseteq DOMAIN Layout
      /\ Counted(Item) => Item.limit \in DOMAIN Limit
  BY <1>3, <1>4, LayoutAssumption DEF LayoutAssumption, Item
<1>6. Top.of \in Records /\ Top.at = 1 => Item.n > 0
  BY LayoutAssumption DEF LayoutAssumption, Item
<1> QED  BY <1>1, <1>2, <1>4, <1>5, <1>6, LimitAssumption DEF LimitAssumption

LEMMA SteppedIs ==
  ASSUME NEW s \in Seq(Frames), s # << >>
  PROVE  LET t == [s EXCEPT ![Len(s)].at = @ + 1]
         IN /\ t \in Seq(Frames) /\ Len(t) = Len(s)
            /\ \A i \in 1 .. Len(s) : i # Len(s) => t[i] = s[i]
            /\ t[Len(s)].of = s[Len(s)].of /\ t[Len(s)].left = s[Len(s)].left
            /\ t[Len(s)].at = s[Len(s)].at + 1
<1> DEFINE n == Len(s)
           f == [s[n] EXCEPT !.at = @ + 1]
<1>1. n \in 1 .. Len(s)
  BY EmptySeq
<1>2. s[n] \in Frames
  BY <1>1, ElementOfSeq
<1>3. f \in Frames /\ f.of = s[n].of /\ f.left = s[n].left /\ f.at = s[n].at + 1
  BY <1>2, SMTT(60) DEF Frames
<1>4. [s EXCEPT ![n].at = @ + 1] = [s EXCEPT ![n] = f]
  OBVIOUS
<1> HIDE DEF f
<1> QED  BY <1>1, <1>3, <1>4, ExceptSeq

LEMMA PushIs ==
  ASSUME NEW s \in Seq(Frames), NEW of \in DOMAIN Layout, NEW n \in Nat
  PROVE  /\ Push(s, of, n) \in Seq(Frames)
         /\ n = 0 => Push(s, of, n) = s
         /\ n # 0 => /\ Len(Push(s, of, n)) = Len(s) + 1
                     /\ \A i \in 1 .. Len(s) : Push(s, of, n)[i] = s[i]
                     /\ Push(s, of, n)[Len(s) + 1] = [of |-> of, at |-> 1, left |-> n]
<1>1. CASE n = 0
  BY <1>1 DEF Push
<1>2. CASE n # 0
  <2>1. Frame(of, n) \in Frames
    BY <1>2 DEF Frame, Frames
  <2> QED  BY <1>2, <2>1, AppendProperties DEF Push, Frame
<1> QED  BY <1>1, <1>2

\* What every read does to the stack: the item is passed, and at most one layout
\* that it may lead to is begun.
Entered(t, of, n) ==
  /\ t = Push(Stepped, of, n) /\ of \in DOMAIN Layout /\ n \in Nat
  /\ n # 0 => of \in Bodies(Item)

LEMMA EnteredIs ==
  ASSUME Typed, AtItem, NEW t, NEW of, NEW n, Entered(t, of, n)
  PROVE  /\ t \in Seq(Frames)
         /\ \A i \in 1 .. Len(stack) - 1 : t[i] = stack[i]
         /\ t[Len(stack)].of = Top.of /\ t[Len(stack)].left = Top.left
         /\ t[Len(stack)].at = Top.at + 1
         /\ n = 0 => Len(t) = Len(stack)
         /\ n # 0 => /\ Len(t) = Len(stack) + 1
                     /\ t[Len(stack) + 1] = [of |-> of, at |-> 1, left |-> n]
<1>1. stack \in Seq(Frames) /\ stack # << >> /\ Len(stack) \in Nat \ {0}
  BY ItemFacts DEF Typed
<1>2. /\ Stepped \in Seq(Frames) /\ Len(Stepped) = Len(stack)
      /\ \A i \in 1 .. Len(stack) : i # Len(stack) => Stepped[i] = stack[i]
      /\ Stepped[Len(stack)].of = Top.of /\ Stepped[Len(stack)].left = Top.left
      /\ Stepped[Len(stack)].at = Top.at + 1
  BY <1>1, SteppedIs DEF Stepped, Top
<1>3. t = Push(Stepped, of, n) /\ of \in DOMAIN Layout /\ n \in Nat
  BY DEF Entered
<1>4. /\ t \in Seq(Frames)
      /\ n = 0 => t = Stepped
      /\ n # 0 => /\ Len(t) = Len(Stepped) + 1
                  /\ \A i \in 1 .. Len(Stepped) : t[i] = Stepped[i]
                  /\ t[Len(Stepped) + 1] = [of |-> of, at |-> 1, left |-> n]
  <2>1. /\ Push(Stepped, of, n) \in Seq(Frames)
        /\ n = 0 => Push(Stepped, of, n) = Stepped
        /\ n # 0 => /\ Len(Push(Stepped, of, n)) = Len(Stepped) + 1
                    /\ \A i \in 1 .. Len(Stepped) : Push(Stepped, of, n)[i] = Stepped[i]
                    /\ Push(Stepped, of, n)[Len(Stepped) + 1] = [of |-> of, at |-> 1, left |-> n]
    BY <1>2, <1>3, PushIs, Zenon
  <2> QED  BY <1>3, <2>1, Zenon
<1>5. \A i \in 1 .. Len(stack) : t[i] = Stepped[i]
  <2>1. CASE n = 0
    BY <1>4, <2>1
  <2>2. CASE n # 0
    BY <1>2, <1>4, <2>2
  <2> QED  BY <2>1, <2>2
<1>6. Len(stack) \in 1 .. Len(stack) /\ \A i \in 1 .. Len(stack) - 1 : i \in 1 .. Len(stack) /\ i # Len(stack)
  BY <1>1
<1>7. \A i \in 1 .. Len(stack) - 1 : t[i] = stack[i]
  BY <1>2, <1>5, <1>6
<1>8. /\ t[Len(stack)].of = Top.of /\ t[Len(stack)].left = Top.left
      /\ t[Len(stack)].at = Top.at + 1
  BY <1>2, <1>5, <1>6
<1> QED  BY <1>2, <1>4, <1>7, <1>8

\* Without a layout to begin.
LEMMA SteppedEnters == ASSUME Typed, AtItem PROVE Entered(Stepped, Top.of, 0)
<1>1. Top.of \in DOMAIN Layout
  BY ItemFacts DEF Frames
<1> QED  BY <1>1 DEF Entered, Push

-----------------------------------------------------------------------------
(* Initially.                                                              *)

LEMMA Initially == ReaderInit => ReaderInv
<1> SUFFICES ASSUME ReaderInit PROVE ReaderInv
  OBVIOUS
<1>1. Frame("database", 1) \in Frames
  BY GrammarAssumption DEF GrammarAssumption, Frame, Frames
<1>2. stack \in Seq(Frames) /\ Len(stack) = 1 /\ DOMAIN stack = {1}
      /\ stack[1] = [of |-> "database", at |-> 1, left |-> 1]
  <2>1. stack = <<Frame("database", 1)>> /\ Frame("database", 1) = [of |-> "database", at |-> 1, left |-> 1]
    BY DEF ReaderInit, Frame
  <2> QED  BY <1>1, <2>1
<1>3. Typed
  BY <1>2, LimitAssumption DEF ReaderInit, NoMesh, Typed, LimitAssumption
<1>4. KeptWithinBytes
  <2>1. {i \in DOMAIN stack : stack[i].of \in Records /\ stack[i].at > 1} = {}
    BY <1>2
  <2> QED  BY <2>1, FS_EmptySet DEF KeptWithinBytes, ReaderInit
<1>5. Nested
  BY <1>2 DEF Nested
<1>6. WithinLimit
  <2>1. "database" \notin Kinds
    BY GrammarAssumption DEF GrammarAssumption
  <2>2. Limit["total"] \in Nat
    BY LimitAssumption DEF LimitAssumption
  <2> QED  BY <1>2, <2>1, <2>2 DEF ReaderInit, WithinLimit, TotalBounded
<1>7. MeshDone
  <2>1. Len(Layout["mesh"]) >= 1 /\ Len(Layout["mesh"]) \in Nat
    BY GrammarAssumption, LayoutAssumption DEF GrammarAssumption, LayoutAssumption
  <2> QED  BY <1>2, <2>1 DEF MeshDone
<1> QED  BY <1>3, <1>4, <1>5, <1>6, <1>7 DEF ReaderInv
-----------------------------------------------------------------------------
(* What a read does.                                                       *)

\* The bytes of an item are passed, and each record that is counted beside the
\* stack has cost at least one byte more; a list of obstacles is within the total;
\* and the state of a mesh leaves it sound.
Moves(of, n) ==
  /\ Entered(stack', of, n)
  /\ pos' \in 0 .. size /\ kept' \in Nat /\ kept' - kept <= pos' - pos - Item.n
  /\ mesh'.count \in [Parts -> Nat] /\ DOMAIN mesh' = {"count", "refs", "bytes", "drawInfo"}
  /\ n # 0 /\ of \in Kinds => total + n <= Limit["total"]
  /\ Item.op = "meshState" => n = 0 /\ Sound'
  /\ UNCHANGED <<size, total, result>>

LEMMA Passed ==
  ASSUME Typed, AtItem, NEW n \in Nat, n >= Item.n, Consume(n)
  PROVE  pos' \in 0 .. size /\ pos' - pos - Item.n >= 0 /\ pos' = pos + n
BY ItemFacts DEF Consume, Has, Typed

LEMMA PlainReads ==
  ASSUME Typed, ReadFixed \/ ReadText \/ ReadSequence \/ ReadMappedName
  PROVE  AtItem /\ \E of, n : Moves(of, n)
<1>1. AtItem /\ stack' = Stepped /\ mesh' = mesh /\ Item.op # "meshState"
      /\ UNCHANGED <<size, total, result>>
  BY DEF ReadFixed, ReadText, ReadSequence, ReadMappedName
<1>2. Item.n \in Nat /\ \A n \in TextLengths : n \in Nat
  BY <1>1, ItemFacts, LimitAssumption DEF LimitAssumption
<1>3. Limit["sequences"] \in Nat /\ Limit["mappings"] \in Nat
  BY LimitAssumption DEF LimitAssumption
<1>4. pos' \in 0 .. size /\ kept' \in Nat /\ kept' - kept <= pos' - pos - Item.n
  <2>1. CASE ReadFixed
    BY <1>1, <1>2, <2>1, Passed DEF ReadFixed, Typed
  <2>2. CASE ReadText
    <3>1. PICK n \in TextLengths : Consume(Item.n + n)
      BY <2>2 DEF ReadText
    <3> QED  BY <1>1, <1>2, <2>2, <3>1, Passed DEF ReadText, Typed
  <2>3. CASE ReadSequence
    <3>1. PICK c \in 0 .. Limit["sequences"] : Consume(Item.n + (IF c = 0 THEN 0 ELSE 8 + c))
      BY <2>3 DEF ReadSequence
    <3>2. (IF c = 0 THEN 0 ELSE 8 + c) \in Nat
      BY <1>3
    <3> QED  BY <1>1, <1>2, <2>3, <3>1, <3>2, Passed DEF ReadSequence, Typed
  <2>4. CASE ReadMappedName
    <3>1. PICK n \in TextLengths, c \in 0 .. Limit["mappings"] :
            \/ Consume(Item.n + n) /\ kept' = kept
            \/ Consume(Item.n + n + 5 + 8 * c) /\ kept' = kept + c
      BY <2>4 DEF ReadMappedName
    <3>2. n \in Nat /\ c \in Nat
      BY <1>2, <1>3
    <3>3. CASE Consume(Item.n + n) /\ kept' = kept
      BY <1>1, <1>2, <3>2, <3>3, Passed DEF Typed
    <3>4. CASE Consume(Item.n + n + 5 + 8 * c) /\ kept' = kept + c
      <4>1. Item.n + n + 5 + 8 * c \in Nat /\ Item.n + n + 5 + 8 * c - Item.n = n + 5 + 8 * c
        BY <1>2, <3>2
      <4> QED  BY <1>1, <1>2, <3>2, <3>4, <4>1, Passed, SMTT(60) DEF Typed
    <3> QED  BY <3>1, <3>3, <3>4
  <2> QED  BY <2>1, <2>2, <2>3, <2>4
<1>5. Moves(Top.of, 0)
  BY <1>1, <1>4, SteppedEnters DEF Moves, Typed
<1> QED  BY <1>1, <1>5

LEMMA CountReads ==
  ASSUME Typed, ReadCount \/ ReadChoice \/ ReadMembers \/ ReadObstacleCount
  PROVE  AtItem /\ \E of, n : Moves(of, n)
<1>1. AtItem /\ Consume(Item.n) /\ kept' = kept /\ Item.op # "meshState"
      /\ UNCHANGED <<size, total, result>>
  BY DEF ReadCount, ReadChoice, ReadMembers, ReadObstacleCount
<1>2. Item.n \in Nat /\ Bodies(Item) \subseteq DOMAIN Layout
      /\ Top \in Frames /\ Top.at \in DOMAIN Layout[Top.of]
  BY <1>1, ItemFacts
<1>3. pos' \in 0 .. size /\ kept' \in Nat /\ kept' - kept <= pos' - pos - Item.n
  BY <1>1, <1>2, Passed DEF Typed
<1>4. Item.op # "obstacles" => Bodies(Item) \cap Kinds = {}
  BY <1>2, GrammarAssumption DEF GrammarAssumption, Frames, Item
<1>5. CASE ReadCount
  <2>1. Item.op = "many" /\ Counted(Item) /\ Bodies(Item) = {Item.of}
    BY <1>5 DEF ReadCount, Bodies, Counted
  <2>2. PICK c \in 0 .. Limit[Item.limit] :
          /\ stack' = Push(Stepped, Item.of, c)
          /\ mesh' = IF Item.of \in Parts THEN [mesh EXCEPT !.count[Item.of] = c] ELSE mesh
    BY <1>5 DEF ReadCount
  <2>3. c \in Nat
    BY <1>1, <2>1, ItemFacts
  <2>4. mesh'.count \in [Parts -> Nat] /\ DOMAIN mesh' = {"count", "refs", "bytes", "drawInfo"}
    BY <2>2, <2>3 DEF Typed
  <2>5. Entered(stack', Item.of, c)
    BY <1>2, <2>1, <2>2, <2>3 DEF Entered
  <2> QED  BY <1>1, <1>3, <1>4, <2>1, <2>4, <2>5 DEF Moves
<1>6. CASE ReadChoice
  <2>1. Item.op = "choice" /\ Bodies(Item) = Item.of /\ mesh' = mesh
    BY <1>6 DEF ReadChoice, Bodies
  <2>2. PICK b \in Item.of : stack' = Push(Stepped, b, 1)
    BY <1>6 DEF ReadChoice
  <2>3. Entered(stack', b, 1)
    BY <1>2, <2>1, <2>2 DEF Entered
  <2> QED  BY <1>1, <1>3, <1>4, <2>1, <2>3 DEF Moves, Typed
<1>7. CASE ReadMembers
  <2>1. Item.op = "members" /\ Bodies(Item) = {"member"} /\ mesh' = mesh
    BY <1>7 DEF ReadMembers, Bodies
  <2>2. PICK f, t, s \in 0 .. Limit["members"] : stack' = Push(Stepped, "member", f + t + s)
    BY <1>7 DEF ReadMembers
  <2>3. f + t + s \in Nat
    BY LimitAssumption DEF LimitAssumption
  <2>4. Entered(stack', "member", f + t + s)
    BY <1>2, <2>1, <2>2, <2>3 DEF Entered
  <2> QED  BY <1>1, <1>3, <1>4, <2>1, <2>4 DEF Moves, Typed
<1>8. CASE ReadObstacleCount
  <2>1. Item.op = "obstacles" /\ Counted(Item) /\ Bodies(Item) = {Item.of} /\ mesh' = mesh
    BY <1>8 DEF ReadObstacleCount, Bodies, Counted
  <2>2. PICK c \in 0 .. Limit[Item.limit] : WithinTotal(c) /\ stack' = Push(Stepped, Item.of, c)
    BY <1>8 DEF ReadObstacleCount
  <2>3. c \in Nat
    BY <1>1, <2>1, ItemFacts
  <2>4. Entered(stack', Item.of, c)
    BY <1>2, <2>1, <2>2, <2>3 DEF Entered
  <2> QED  BY <1>1, <1>3, <2>1, <2>2, <2>4 DEF Moves, Typed, WithinTotal
<1> QED  BY <1>1, <1>5, <1>6, <1>7, <1>8

LEMMA TwoFinite == IsFiniteSet({"normal", "texcoord"})
<1>1. IsFiniteSet({} \cup {"normal"})
  BY FS_EmptySet, FS_AddElement
<1>2. IsFiniteSet(({} \cup {"normal"}) \cup {"texcoord"})
  BY <1>1, FS_AddElement
<1>3. ({} \cup {"normal"}) \cup {"texcoord"} = {"normal", "texcoord"}
  OBVIOUS
<1> QED  BY <1>2, <1>3

LEMMA MeshReads ==
  ASSUME Typed, ReadTexcoords \/ ReadFace
  PROVE  AtItem /\ \E of, n : Moves(of, n)
<1>1. AtItem /\ stack' = Stepped /\ kept' = kept /\ Item.op # "meshState"
      /\ UNCHANGED <<size, total, result>>
  BY DEF ReadTexcoords, ReadFace
<1>2. Item.n \in Nat /\ Limit["texcoords"] \in Nat /\ Limit["faceVertices"] \in Nat
  BY <1>1, ItemFacts, LimitAssumption DEF LimitAssumption
<1>3. CASE ReadTexcoords
  <2>1. PICK c \in 0 .. Limit["texcoords"] :
          Consume(Item.n + 8 * c) /\ mesh' = [mesh EXCEPT !.count["texcoord"] = c]
    BY <1>3 DEF ReadTexcoords
  <2>2. mesh'.count \in [Parts -> Nat] /\ DOMAIN mesh' = {"count", "refs", "bytes", "drawInfo"}
    <3>1. mesh'.count = [mesh.count EXCEPT !["texcoord"] = c] /\ DOMAIN mesh' = DOMAIN mesh
      BY <2>1 DEF Typed
    <3> QED  BY <1>2, <3>1 DEF Typed, Parts
  <2>3. pos' \in 0 .. size /\ kept' \in Nat /\ kept' - kept <= pos' - pos - Item.n
    BY <1>1, <1>2, <2>1, Passed DEF Typed
  <2>4. Moves(Top.of, 0)
    BY <1>1, <2>2, <2>3, SteppedEnters DEF Moves
  <2> QED  BY <1>1, <2>4
<1>4. CASE ReadFace
  <2>1. PICK n \in 0 .. Limit["faceVertices"], with \in SUBSET {"normal", "texcoord"} :
          /\ Consume(Item.n + 12 + 4 * n * (1 + Cardinality(with)))
          /\ \E refs : mesh' = [mesh EXCEPT !.refs = refs]
    BY <1>4 DEF ReadFace
  <2>2. mesh'.count \in [Parts -> Nat] /\ DOMAIN mesh' = {"count", "refs", "bytes", "drawInfo"}
    BY <2>1 DEF Typed
  <2>3. 12 + 4 * n * (1 + Cardinality(with)) \in Nat
    <3>1. IsFiniteSet({"normal", "texcoord"})
      BY TwoFinite
    <3>2. Cardinality(with) \in Nat
      BY <3>1, FS_Subset, FS_CardinalityType
    <3>3. \A a, b \in Nat : a * b \in Nat
      OBVIOUS
    <3>4. 4 * n \in Nat /\ 1 + Cardinality(with) \in Nat
      BY <1>2, <3>2
    <3>5. 4 * n * (1 + Cardinality(with)) \in Nat
      BY <3>3, <3>4
    <3> QED  BY <3>5
  <2>4. pos' \in 0 .. size /\ kept' \in Nat /\ kept' - kept <= pos' - pos - Item.n
    <3> DEFINE k == 4 * n * (1 + Cardinality(with))
               bytes == 12 + k
    <3>1. bytes \in Nat /\ Consume(Item.n + 12 + k)
      BY <2>1, <2>3
    <3> HIDE DEF k
    <3>2. k \in Int
      <4>1. \A a, b \in Int : a * b \in Int
        OBVIOUS
      <4>2. Cardinality(with) \in Nat
        <5>1. IsFiniteSet({"normal", "texcoord"})
          BY TwoFinite
        <5> QED  BY <5>1, FS_Subset, FS_CardinalityType
      <4>3. 4 * n \in Int /\ 1 + Cardinality(with) \in Int
        BY <1>2, <4>2
      <4> QED  BY <4>1, <4>3 DEF k
    <3>3. Item.n + 12 + k = Item.n + bytes
      BY <1>2, <3>2
    <3>4. Consume(Item.n + bytes)
      BY <3>1, <3>3
    <3> HIDE DEF bytes
    <3> QED  BY <1>1, <1>2, <3>1, <3>4, Passed DEF Typed
  <2>5. Moves(Top.of, 0)
    BY <1>1, <2>2, <2>4, SteppedEnters DEF Moves
  <2> QED  BY <1>1, <2>5
<1> QED  BY <1>3, <1>4

LEMMA StateReads == ASSUME Typed, FinishMesh PROVE AtItem /\ \E of, n : Moves(of, n)
<1>1. AtItem /\ stack' = Stepped /\ kept' = kept /\ Consume(Item.n)
      /\ UNCHANGED <<size, total, result>>
  BY DEF FinishMesh
<1>2. pos' \in 0 .. size /\ kept' \in Nat /\ kept' - kept <= pos' - pos - Item.n
  BY <1>1, ItemFacts, Passed DEF Typed
<1>3. PICK owner \in BOOLEAN, rewind \in Rewinds :
        LET count == [mesh.count EXCEPT !["texcoord"] = Real(owner, rewind)]
        IN /\ owner => Region(rewind)
           /\ RefsLive(count)
           /\ mesh' = [count |-> count, refs |-> mesh.refs,
                       bytes |-> 8 * mesh.count["texcoord"],
                       drawInfo |-> IF owner THEN rewind ELSE 0]
  BY DEF FinishMesh
<1> DEFINE have == mesh.count["texcoord"]
           real == Real(owner, rewind)
           own  == IF owner THEN rewind ELSE 0
<1>4. have \in Nat
  BY DEF Typed, Parts
<1>5. real \in Nat /\ 8 * real + own = 8 * have
  <2>1. CASE ~owner
    BY <1>4, <2>1 DEF Real
  <2>2. CASE owner
    <3>1. rewind >= 8 /\ rewind % 8 = 0 /\ rewind <= 8 * have /\ rewind \in Int
      BY <1>3, <2>2, LimitAssumption DEF Region, LimitAssumption
    <3>2. real = have - rewind \div 8
      BY <2>2 DEF Real
    <3>3. rewind = 8 * (rewind \div 8) /\ rewind \div 8 \in Int
      BY <3>1, Z3
    <3>4. PICK q \in Int : rewind = 8 * q /\ real = have - q
      BY <3>2, <3>3
    <3> HIDE DEF real, have
    <3> QED  BY <1>4, <2>2, <3>1, <3>4
  <2> QED  BY <2>1, <2>2
<1>6. /\ mesh'.count = [mesh.count EXCEPT !["texcoord"] = real]
      /\ mesh'.refs = mesh.refs /\ mesh'.bytes = 8 * have /\ mesh'.drawInfo = own
      /\ DOMAIN mesh' = {"count", "refs", "bytes", "drawInfo"}
  BY <1>3
<1> HIDE DEF real, own
<1>7. mesh'.count \in [Parts -> Nat] /\ mesh'.count["texcoord"] = real
  BY <1>5, <1>6 DEF Typed, Parts
<1>8. Sound'
  <2>1. \A p \in Parts : mesh'.refs[p] \subseteq 0 .. mesh'.count[p] - 1
    BY <1>3, <1>6 DEF RefsLive, real
  <2> QED  BY <1>5, <1>6, <1>7, <2>1 DEF Sound
<1>9. Moves(Top.of, 0)
  BY <1>1, <1>2, <1>6, <1>7, <1>8, SteppedEnters DEF Moves
<1> QED  BY <1>1, <1>9
-----------------------------------------------------------------------------
(* Every step keeps the invariant.                                         *)

LEMMA UnderFinite ==
  ASSUME NEW s \in Seq(Frames)
  PROVE  IsFiniteSet(Under(s)) /\ Cardinality(Under(s)) \in Nat
<1>1. Len(s) \in Nat /\ DOMAIN s = 1 .. Len(s)
  OBVIOUS
<1>2. IsFiniteSet(1 .. Len(s))
  BY <1>1, FS_Interval
<1>3. Under(s) \in SUBSET (1 .. Len(s))
  BY <1>1 DEF Under
<1> QED  BY <1>2, <1>3, FS_Subset, FS_CardinalityType

\* A layout has at least one item if it is of a record.
LEMMA RecordsHaveItems ==
  ASSUME NEW r \in Records
  PROVE  r \in DOMAIN Layout /\ Len(Layout[r]) \in Nat /\ Len(Layout[r]) >= 1
BY LayoutAssumption DEF LayoutAssumption

LEMMA UnderIs ==
  ASSUME NEW s \in Seq(Frames), NEW i
  PROVE  i \in Under(s) <=> i \in 1 .. Len(s) /\ s[i].of \in Records /\ s[i].at > 1
BY LenProperties DEF Under

\* The records under way, when the frame on top goes on and another may be begun.
LEMMA UnderMoved ==
  ASSUME NEW s \in Seq(Frames), NEW t \in Seq(Frames), NEW k \in Nat, k >= 1, Len(s) = k,
         Len(t) = k \/ Len(t) = k + 1, \A i \in 1 .. k - 1 : t[i] = s[i],
         t[k].of = s[k].of, t[k].at > 1,
         Len(t) = k + 1 => t[k + 1].at = 1
  PROVE  Under(t) = IF s[k].of \in Records THEN Under(s) \cup {k} ELSE Under(s)
<1>1. ASSUME NEW i, i \in 1 .. k - 1
      PROVE  i \in Under(t) <=> i \in Under(s)
  <2>1. i \in 1 .. Len(s) /\ i \in 1 .. Len(t) /\ t[i] = s[i]
    BY <1>1
  <2> QED  BY <2>1, UnderIs
<1>2. k \in Under(t) <=> s[k].of \in Records
  <2>1. k \in 1 .. Len(t)
    OBVIOUS
  <2> QED  BY <2>1, UnderIs
<1>3. k + 1 \notin Under(t)
  <2>1. k + 1 \in 1 .. Len(t) => t[k + 1].at = 1
    OBVIOUS
  <2> QED  BY <2>1, UnderIs
<1>4. k \in Under(s) => s[k].of \in Records
  BY UnderIs
<1>5. ASSUME NEW i, i \in Under(s) PROVE i \in 1 .. k - 1 \/ i = k
  <2>1. i \in 1 .. k
    BY <1>5, UnderIs
  <2> QED  BY <2>1
<1>6. ASSUME NEW i, i \in Under(t) PROVE i \in 1 .. k - 1 \/ i = k \/ i = k + 1
  <2>1. i \in 1 .. Len(t)
    BY <1>6, UnderIs
  <2> QED  BY <2>1
<1>7. CASE s[k].of \in Records
  <2>1. \A i : i \in Under(t) <=> i \in Under(s) \cup {k}
    BY <1>1, <1>2, <1>3, <1>5, <1>6, <1>7
  <2> QED  BY <2>1, <1>7
<1>8. CASE s[k].of \notin Records
  <2>1. \A i : i \in Under(t) <=> i \in Under(s)
    BY <1>1, <1>2, <1>3, <1>4, <1>5, <1>6, <1>8
  <2> QED  BY <2>1, <1>8
<1> QED  BY <1>7, <1>8

\* The records under way, when the frame on top is gone or begins anew.
LEMMA UnderPopped ==
  ASSUME NEW s \in Seq(Frames), NEW t \in Seq(Frames), NEW k \in Nat, k >= 1, Len(s) = k,
         Len(t) = k - 1 \/ Len(t) = k, \A i \in 1 .. k - 1 : t[i] = s[i],
         Len(t) = k => t[k].at = 1
  PROVE  Under(t) = Under(s) \ {k}
<1>1. ASSUME NEW i, i \in 1 .. k - 1
      PROVE  i \in Under(t) <=> i \in Under(s)
  <2>1. i \in 1 .. Len(s) /\ i \in 1 .. Len(t) /\ t[i] = s[i]
    BY <1>1
  <2> QED  BY <2>1, UnderIs
<1>2. k \notin Under(t)
  <2>1. k \in 1 .. Len(t) => t[k].at = 1
    OBVIOUS
  <2> QED  BY <2>1, UnderIs
<1>3. ASSUME NEW i, i \in Under(s) \/ i \in Under(t) PROVE i \in 1 .. k - 1 \/ i = k
  <2>1. i \in 1 .. k
    BY <1>3, UnderIs
  <2> QED  BY <2>1
<1>4. ~(k \in 1 .. k - 1)
  OBVIOUS
<1>5. \A i : i \in Under(t) <=> i \in Under(s) \ {k}
  BY <1>1, <1>2, <1>3, <1>4
<1> QED  BY <1>5

LEMMA MoveKeepsKept ==
  ASSUME ReaderInv, AtItem, NEW of, NEW n, Moves(of, n)
  PROVE  KeptWithinBytes'
<1> DEFINE k == Len(stack)
<1>1. Typed /\ Entered(stack', of, n)
  BY DEF ReaderInv, Moves
<1>2. k \in Nat \ {0} /\ Top = stack[k] /\ stack \in Seq(Frames)
  BY <1>1, ItemFacts DEF Typed, Top
<1>3. Top.at \in Nat \ {0}
  BY <1>1, ItemFacts DEF Frames
<1>4. stack' \in Seq(Frames) /\ \A i \in 1 .. k - 1 : stack'[i] = stack[i]
  BY <1>1, EnteredIs
<1>5. stack'[k].of = Top.of /\ stack'[k].at = Top.at + 1
  BY <1>1, EnteredIs
<1>6. Len(stack') \in {k, k + 1} /\ (Len(stack') = k + 1 => stack'[k + 1].at = 1)
  <2>1. n = 0 => Len(stack') = k
    BY <1>1, EnteredIs
  <2>2. n # 0 => Len(stack') = k + 1 /\ stack'[k + 1] = [of |-> of, at |-> 1, left |-> n]
    BY <1>1, EnteredIs
  <2> QED  BY <1>2, <2>1, <2>2
<1>7. Under(stack') = IF Top.of \in Records THEN Under(stack) \cup {k} ELSE Under(stack)
  <2>1. k >= 1 /\ k \in Nat /\ Len(stack) = k /\ Top.at + 1 > 1
    BY <1>2, <1>3
  <2>2. Len(stack') = k \/ Len(stack') = k + 1
    BY <1>6
  <2> HIDE DEF k
  <2> QED  BY <1>2, <1>4, <1>5, <1>6, <2>1, <2>2, UnderMoved
<1>8. Item.n \in Nat /\ (Top.of \in Records /\ Top.at = 1 => Item.n > 0)
  BY <1>1, ItemFacts
<1>9. kept + Cardinality(Under(stack)) <= pos /\ kept \in Nat /\ pos \in Nat
  BY DEF ReaderInv, KeptWithinBytes, Under, Typed
<1>10. IsFiniteSet(Under(stack)) /\ Cardinality(Under(stack)) \in Nat
  BY <1>2, UnderFinite
<1>11. kept' \in Nat /\ pos' \in Nat /\ kept' - kept <= pos' - pos - Item.n
  BY DEF Moves, ReaderInv, Typed
<1>12. k \in Under(stack) <=> Top.of \in Records /\ Top.at > 1
  BY <1>2 DEF Under
<1> HIDE DEF k
<1>13. kept' + Cardinality(Under(stack')) <= pos'
  <2>1. CASE Top.of \in Records /\ Top.at = 1
    <3>1. Cardinality(Under(stack) \cup {k}) = Cardinality(Under(stack)) + 1
      <4>1. k \notin Under(stack)
        BY <1>12, <2>1
      <4> QED  BY <1>10, <4>1, FS_AddElement
    <3>2. Under(stack') = Under(stack) \cup {k}
      BY <1>7, <2>1
    <3> QED  BY <1>8, <1>9, <1>10, <1>11, <2>1, <3>1, <3>2
  <2>2. CASE Top.of \in Records /\ Top.at # 1
    <3>1. Under(stack') = Under(stack)
      BY <1>3, <1>7, <1>12, <2>2
    <3> QED  BY <1>8, <1>9, <1>10, <1>11, <3>1
  <2>3. CASE Top.of \notin Records
    BY <1>7, <1>8, <1>9, <1>10, <1>11, <2>3
  <2> QED  BY <2>1, <2>2, <2>3
<1> QED  BY <1>13 DEF KeptWithinBytes, Under

LEMMA MoveKeeps ==
  ASSUME ReaderInv, AtItem, NEW of, NEW n, Moves(of, n)
  PROVE  ReaderInv'
<1> DEFINE k == Len(stack)
<1>1. Typed /\ Entered(stack', of, n)
  BY DEF ReaderInv, Moves
<1>2. /\ k \in Nat \ {0} /\ Top = stack[k] /\ DOMAIN stack = 1 .. k
      /\ Top \in Frames /\ Top.at \in DOMAIN Layout[Top.of]
  BY <1>1, ItemFacts DEF Typed, Top
<1>3. /\ stack' \in Seq(Frames) /\ DOMAIN stack' = 1 .. Len(stack')
      /\ \A i \in 1 .. k - 1 : stack'[i] = stack[i]
      /\ stack'[k].of = Top.of /\ stack'[k].left = Top.left /\ stack'[k].at = Top.at + 1
  BY <1>1, EnteredIs, LenProperties
<1>4. /\ n = 0 => Len(stack') = k
      /\ n # 0 => Len(stack') = k + 1 /\ stack'[k + 1] = [of |-> of, at |-> 1, left |-> n]
  BY <1>1, EnteredIs
<1> HIDE DEF k
<1>5. \A i \in 1 .. k : stack'[i].of = stack[i].of /\ stack'[i].left = stack[i].left
  BY <1>2, <1>3
<1>6. \A i \in DOMAIN stack' : i \in 1 .. k \/ (n # 0 /\ i = k + 1)
  <2>1. DOMAIN stack' = 1 .. Len(stack') /\ k \in Nat
    BY <1>2, <1>3
  <2>2. Len(stack') = IF n = 0 THEN k ELSE k + 1
    BY <1>4
  <2> QED  BY <2>1, <2>2
<1>7. Typed'
  BY <1>3 DEF Moves, ReaderInv, Typed
<1>8. Nested'
  <2> SUFFICES ASSUME NEW i \in DOMAIN stack', NEW j \in DOMAIN stack',
                      i < j, stack'[i].of \notin Outer
               PROVE  stack'[j].of \notin Outer \cup Kinds
    BY DEF Nested
  <2>1. i \in 1 .. k /\ stack[i].of \notin Outer
    <3>1. i \in Int /\ j \in Int /\ k \in Nat /\ j <= k + 1
      BY <1>2, <1>6
    <3>2. i \in 1 .. k
      BY <1>6, <3>1
    <3> QED  BY <1>5, <3>2
  <2>2. CASE j \in 1 .. k
    BY <1>2, <1>5, <2>1, <2>2 DEF ReaderInv, Nested
  <2>3. CASE n # 0 /\ j = k + 1
    <3>1. Top.of \notin Outer
      BY <1>2, <2>1 DEF ReaderInv, Nested
    <3>2. of \in Bodies(Item) /\ stack'[j].of = of
      BY <1>1, <1>4, <2>3 DEF Entered
    <3>3. /\ Item.op # "obstacles" => Bodies(Item) \cap Kinds = {}
          /\ Item.op = "obstacles" => Top.of \in Outer
          /\ Bodies(Item) \cap Outer # {} => Top.of \in Outer
      BY <1>2, GrammarAssumption DEF GrammarAssumption, Frames, Item
    <3> QED  BY <3>1, <3>2, <3>3
  <2> QED  BY <1>6, <2>2, <2>3
<1>9. WithinLimit'
  <2>1. total' = total /\ (n # 0 /\ of \in Kinds => total + n <= Limit["total"])
    BY DEF Moves
  <2>2. ASSUME NEW i \in DOMAIN stack', stack'[i].of \in Kinds
        PROVE  total' + stack'[i].left <= Limit["total"]
    <3>1. CASE i \in 1 .. k
      BY <1>2, <1>5, <2>1, <2>2, <3>1 DEF ReaderInv, WithinLimit
    <3>2. CASE n # 0 /\ i = k + 1
      BY <1>4, <2>1, <2>2, <3>2
    <3> QED  BY <1>6, <3>1, <3>2
  <2> QED  BY <2>1, <2>2 DEF ReaderInv, WithinLimit, TotalBounded
<1>10. MeshDone'
  <2> SUFFICES ASSUME NEW i \in DOMAIN stack', stack'[i].of = "mesh",
                      stack'[i].at > Len(Layout["mesh"])
               PROVE  i = Len(stack') /\ Sound'
    BY DEF MeshDone
  <2>1. Len(Layout["mesh"]) \in Nat /\ Len(Layout["mesh"]) >= 1
    BY RecordsHaveItems, GrammarAssumption DEF GrammarAssumption
  <2>2. CASE i \in 1 .. k - 1
    <3>1. i = k
      BY <1>2, <1>3, <2>2 DEF ReaderInv, MeshDone, k
    <3> QED  BY <1>2, <2>2, <3>1
  <2>3. CASE i = k
    <3>1. Top.at = Len(Layout["mesh"]) /\ Top.of = "mesh"
      <4>1. Top.of = "mesh" /\ Top.at + 1 > Len(Layout["mesh"])
        BY <1>3, <2>3
      <4>2. Top.at \in 1 .. Len(Layout["mesh"])
        BY <1>2, <4>1, LayoutAssumption DEF LayoutAssumption, Frames
      <4> QED  BY <2>1, <4>1, <4>2
    <3>2. Item.op = "meshState"
      BY <3>1, GrammarAssumption DEF GrammarAssumption, Item
    <3> QED  BY <1>4, <2>3, <3>2 DEF Moves
  <2>4. CASE n # 0 /\ i = k + 1
    BY <1>4, <2>1, <2>4
  <2> QED  BY <1>2, <1>6, <2>2, <2>3, <2>4
<1> QED  BY <1>7, <1>8, <1>9, <1>10, MoveKeepsKept DEF ReaderInv

\* A body that is complete leaves the stack, or is begun once more.
LEMMA PoppedIs ==
  ASSUME Typed, AtEnd
  PROVE  LET k == Len(stack)
         IN /\ k \in Nat \ {0} /\ Top = stack[k] /\ Top \in Frames
            /\ Popped \in Seq(Frames) /\ Len(Popped) \in {k - 1, k}
            /\ \A i \in 1 .. k - 1 : Popped[i] = stack[i]
            /\ Len(Popped) = k =>
                 Popped[k] = [of |-> Top.of, at |-> 1, left |-> Top.left - 1] /\ Top.left > 1
<1> DEFINE k == Len(stack)
<1>1. stack \in Seq(Frames) /\ stack # << >> /\ k \in Nat \ {0}
  BY EmptySeq DEF Typed, AtEnd
<1>2. Top = stack[k] /\ Top \in Frames
  BY <1>1, ElementOfSeq DEF Top
<1>3. Top.of \in DOMAIN Layout /\ Top.left \in Nat \ {0}
  BY <1>2 DEF Frames
<1>4. CASE Top.left > 1
  <2> DEFINE f == [of |-> Top.of, at |-> 1, left |-> Top.left - 1]
  <2>1. f \in Frames /\ k \in 1 .. Len(stack)
    BY <1>1, <1>3, <1>4 DEF Frames
  <2>2. Popped = [stack EXCEPT ![k] = f]
    BY <1>4 DEF Popped, Frame
  <2> HIDE DEF f
  <2>3. /\ Popped \in Seq(Frames) /\ Len(Popped) = k
        /\ \A i \in 1 .. k : Popped[i] = IF i = k THEN f ELSE stack[i]
    BY <1>1, <2>1, <2>2, ExceptSeq
  <2> QED  BY <1>1, <1>2, <1>4, <2>1, <2>3 DEF f
<1>5. CASE ~(Top.left > 1)
  <2>1. Popped = SubSeq(stack, 1, k - 1)
    BY <1>5 DEF Popped
  <2>2. \A i \in 1 .. k - 1 : stack[i] \in Frames
    BY <1>1, ElementOfSeq
  <2> HIDE DEF k
  <2>3. /\ Popped \in Seq(Frames) /\ Len(Popped) = k - 1
        /\ \A i \in 1 .. k - 1 : Popped[i] = stack[i]
    <3>1. 1 \in Int /\ k - 1 \in Int /\ (IF 1 <= k - 1 THEN (k - 1) - 1 + 1 ELSE 0) = k - 1
      BY <1>1
    <3>2. /\ SubSeq(stack, 1, k - 1) \in Seq(Frames)
          /\ Len(SubSeq(stack, 1, k - 1)) = IF 1 <= k - 1 THEN (k - 1) - 1 + 1 ELSE 0
          /\ \A i \in 1 .. (k - 1) - 1 + 1 : SubSeq(stack, 1, k - 1)[i] = stack[1 + i - 1]
      BY <2>2, <3>1, SubSeqProperties
    <3> QED  BY <1>1, <2>1, <3>1, <3>2
  <2> QED  BY <1>1, <1>2, <2>3 DEF k
<1> QED  BY <1>4, <1>5

LEMMA ReturnKeeps == ASSUME ReaderInv, Return PROVE ReaderInv'
<1> DEFINE k == Len(stack)
<1>1. Typed /\ AtEnd /\ stack' = Popped
  BY DEF ReaderInv, Return
<1>2. /\ k \in Nat /\ k >= 1 /\ Top = stack[k] /\ Top \in Frames /\ DOMAIN stack = 1 .. k
      /\ stack' \in Seq(Frames) /\ DOMAIN stack' = 1 .. Len(stack')
      /\ Len(stack') = k - 1 \/ Len(stack') = k
      /\ \A i \in 1 .. k - 1 : stack'[i] = stack[i]
      /\ Len(stack') = k =>
           stack'[k] = [of |-> Top.of, at |-> 1, left |-> Top.left - 1] /\ Top.left > 1
  BY <1>1, PoppedIs, LenProperties DEF Typed
<1> HIDE DEF k
<1>11. k \in Nat /\ k >= 1 /\ k \in DOMAIN stack /\ Top = stack[k]
  <2>1. k \in Nat /\ k >= 1 /\ DOMAIN stack = 1 .. k
    BY <1>2
  <2>2. k \in 1 .. k
    BY <2>1
  <2> QED  BY <1>2, <2>1, <2>2, Zenon
<1>12. ASSUME NEW i \in 1 .. k - 1
       PROVE  i \in DOMAIN stack /\ i # k /\ i < k /\ stack'[i] = stack[i]
  <2>1. k \in Nat /\ DOMAIN stack = 1 .. k /\ i \in 1 .. k - 1
    BY <1>2
  <2>2. stack'[i] = stack[i]
    BY <1>2
  <2> QED  BY <2>1, <2>2
<1>13. Len(stack') = k =>
         stack'[k].of = Top.of /\ stack'[k].left = Top.left - 1 /\ stack'[k].at = 1 /\ Top.left > 1
  <2>1. Len(stack') = k =>
          stack'[k] = [of |-> Top.of, at |-> 1, left |-> Top.left - 1] /\ Top.left > 1
    BY <1>2
  <2> QED  BY <2>1
<1>3. /\ Top.of \in DOMAIN Layout /\ Top.left \in Nat \ {0} /\ Top.at \in Nat \ {0}
      /\ Top.of \in Records => Top.at > 1
  <2>1. Top.of \in DOMAIN Layout /\ Top.left \in Nat \ {0} /\ Top.at \in Nat \ {0}
    BY <1>2 DEF Frames
  <2>2. Top.at > Len(Layout[Top.of])
    BY <1>1 DEF AtEnd
  <2> QED  BY <2>1, <2>2, RecordsHaveItems
<1>4. \A i \in DOMAIN stack' : i \in 1 .. k - 1 \/ (i = k /\ Len(stack') = k)
  <2>1. DOMAIN stack' = 1 .. Len(stack') /\ k \in Nat /\ (Len(stack') = k - 1 \/ Len(stack') = k)
    BY <1>2
  <2>2. CASE Len(stack') = k - 1
    BY <2>1, <2>2
  <2>3. CASE Len(stack') = k
    BY <2>1, <2>3
  <2> QED  BY <2>1, <2>2, <2>3
<1>5. Typed'
  <2>1. kept' \in Nat /\ total' \in Nat /\ pos' = pos /\ size' = size
    BY <1>1 DEF Return, One, Typed
  <2>2. mesh'.count \in [Parts -> Nat] /\ DOMAIN mesh' = {"count", "refs", "bytes", "drawInfo"}
    BY <1>1 DEF Return, NoMesh, Typed
  <2> QED  BY <1>1, <1>2, <2>1, <2>2 DEF Typed
<1>6. KeptWithinBytes'
  <2>1. Under(stack') = Under(stack) \ {k}
    <3>1. stack \in Seq(Frames) /\ Len(stack) = k
      BY <1>1 DEF Typed, k
    <3>3. \A i \in 1 .. k - 1 : stack'[i] = stack[i]
      BY <1>2
    <3>4. Len(stack') = k => stack'[k].at = 1
      BY <1>2
    <3>2. /\ k \in Nat /\ k >= 1 /\ stack' \in Seq(Frames)
          /\ Len(stack') = k - 1 \/ Len(stack') = k
      BY <1>2
    <3> QED  BY <3>1, <3>2, <3>3, <3>4, UnderPopped
  <2>2. /\ IsFiniteSet(Under(stack)) /\ Cardinality(Under(stack)) \in Nat
        /\ kept + Cardinality(Under(stack)) <= pos /\ kept \in Nat /\ pos \in Nat
    <3>1. stack \in Seq(Frames)
      BY <1>1 DEF Typed
    <3>2. kept \in Nat /\ pos \in Nat
      BY <1>1 DEF ReaderInv, Typed
    <3>3. kept + Cardinality(Under(stack)) <= pos
      BY <1>1 DEF ReaderInv, KeptWithinBytes, Under
    <3> QED  BY <3>1, <3>2, <3>3, UnderFinite
  <2>3. k \in Under(stack) <=> Top.of \in Records
    <3>1. k \in 1 .. k /\ DOMAIN stack = 1 .. k /\ Top = stack[k]
      <4>1. k \in Nat /\ k >= 1
        BY <1>2
      <4>2. DOMAIN stack = 1 .. k /\ Top = stack[k]
        BY <1>2
      <4> HIDE DEF k
      <4> QED  BY <4>1, <4>2
    <3>2. k \in DOMAIN stack /\ Top = stack[k]
      BY <3>1, Zenon
    <3> QED  BY <1>3, <3>2 DEF Under
  <2>4. kept' = kept + One(Top.of \in Records) /\ pos' = pos
    BY DEF Return
  <2>5. Cardinality(Under(stack')) = Cardinality(Under(stack)) - One(Top.of \in Records)
    <3>1. CASE Top.of \in Records
      <4>1. Cardinality(Under(stack) \ {k}) = Cardinality(Under(stack)) - 1
        BY <2>2, <2>3, <3>1, FS_RemoveElement
      <4> QED  BY <2>1, <3>1, <4>1 DEF One
    <3>2. CASE Top.of \notin Records
      <4>1. Under(stack) \ {k} = Under(stack)
        BY <2>3, <3>2
      <4>2. One(Top.of \in Records) = 0
        BY <3>2 DEF One
      <4> QED  BY <2>1, <2>2, <4>1, <4>2
    <3> QED  BY <3>1, <3>2
  <2>6. kept' + Cardinality(Under(stack')) <= pos'
    BY <2>2, <2>4, <2>5 DEF One
  <2> QED  BY <2>6 DEF KeptWithinBytes, Under
<1>7. Nested'
  <2> SUFFICES ASSUME NEW i \in DOMAIN stack', NEW j \in DOMAIN stack',
                      i < j, stack'[i].of \notin Outer
               PROVE  stack'[j].of \notin Outer \cup Kinds
    BY DEF Nested
  <2>1. ASSUME NEW l \in DOMAIN stack'
        PROVE  l \in DOMAIN stack /\ stack'[l].of = stack[l].of
    <3>1. CASE l \in 1 .. k - 1
      BY <1>12, <3>1
    <3>2. CASE l = k /\ Len(stack') = k
      BY <1>11, <1>13, <3>2
    <3> QED  BY <1>4, <3>1, <3>2
  <2> QED  BY <2>1 DEF ReaderInv, Nested
<1>8. WithinLimit'
  <2>1. total' = total + One(Top.of \in Kinds) /\ total \in Nat /\ Limit["total"] \in Nat
    BY <1>1, LimitAssumption DEF Return, Typed, LimitAssumption
  <2>2. TotalBounded'
    <3>1. CASE Top.of \in Kinds
      <4>1. total + Top.left <= Limit["total"]
        BY <1>11, <3>1 DEF ReaderInv, WithinLimit
      <4>2. total' = total + 1
        BY <2>1, <3>1 DEF One
      <4>3. Top.left \in Nat /\ Top.left >= 1
        BY <1>3
      <4> QED  BY <2>1, <4>1, <4>2, <4>3 DEF TotalBounded
    <3>2. CASE Top.of \notin Kinds
      <4>1. total' = total
        BY <2>1, <3>2 DEF One
      <4> QED  BY <4>1 DEF ReaderInv, WithinLimit, TotalBounded
    <3> QED  BY <3>1, <3>2
  <2>3. ASSUME NEW i \in DOMAIN stack', stack'[i].of \in Kinds
        PROVE  total' + stack'[i].left <= Limit["total"]
    <3>1. CASE i \in 1 .. k - 1
      <4>1. stack'[i] = stack[i] /\ i \in DOMAIN stack /\ k \in DOMAIN stack /\ i < k
        BY <1>11, <1>12, <3>1
      <4>2. Top.of \notin Kinds
        BY <1>11, <2>3, <4>1, GrammarAssumption DEF ReaderInv, Nested, GrammarAssumption
      <4> QED  BY <2>1, <2>3, <4>1, <4>2 DEF ReaderInv, WithinLimit, One
    <3>2. CASE i = k /\ Len(stack') = k
      <4>1. stack'[i].of = Top.of /\ stack'[i].left = Top.left - 1 /\ k \in DOMAIN stack
        BY <1>11, <1>13, <3>2
      <4>2. total + Top.left <= Limit["total"]
        BY <1>11, <2>3, <4>1 DEF ReaderInv, WithinLimit
      <4> QED  BY <1>3, <2>1, <2>3, <4>1, <4>2 DEF One
    <3> QED  BY <1>4, <3>1, <3>2
  <2> QED  BY <2>2, <2>3 DEF WithinLimit
<1>9. MeshDone'
  <2> SUFFICES ASSUME NEW i \in DOMAIN stack', stack'[i].of = "mesh",
                      stack'[i].at > Len(Layout["mesh"])
               PROVE  FALSE
    BY DEF MeshDone
  <2>1. Len(Layout["mesh"]) \in Nat /\ Len(Layout["mesh"]) >= 1
    BY RecordsHaveItems, GrammarAssumption DEF GrammarAssumption
  <2>2. CASE i \in 1 .. k - 1
    <3>1. i = k
      <4>1. i \in DOMAIN stack /\ stack[i] = stack'[i]
        BY <1>12, <2>2
      <4> QED  BY <4>1 DEF ReaderInv, MeshDone, k
    <3> QED  BY <1>12, <2>2, <3>1
  <2>3. CASE i = k /\ Len(stack') = k
    BY <1>13, <2>1, <2>3
  <2> QED  BY <1>4, <2>2, <2>3
<1> QED  BY <1>5, <1>6, <1>7, <1>8, <1>9 DEF ReaderInv

LEMMA GiveUpKeeps == ASSUME ReaderInv, GiveUp PROVE ReaderInv'
<1>1. stack' = << >> /\ DOMAIN stack' = {} /\ stack' \in Seq(Frames)
  BY EmptySeq DEF GiveUp
<1>2. Typed'
  BY <1>1 DEF GiveUp, NoMesh, ReaderInv, Typed
<1>3. KeptWithinBytes'
  <2>1. {i \in DOMAIN stack' : stack'[i].of \in Records /\ stack'[i].at > 1} = {}
    BY <1>1
  <2> QED  BY <2>1, FS_EmptySet DEF GiveUp, ReaderInv, Typed, KeptWithinBytes
<1>4. Nested' /\ MeshDone'
  BY <1>1 DEF Nested, MeshDone
<1>5. WithinLimit'
  BY <1>1, LimitAssumption DEF GiveUp, WithinLimit, TotalBounded, LimitAssumption
<1> QED  BY <1>2, <1>3, <1>4, <1>5 DEF ReaderInv

LEMMA NextStep == ReaderInv /\ [ReaderNext]_readerVars => ReaderInv'
<1> SUFFICES ASSUME ReaderInv, [ReaderNext]_readerVars PROVE ReaderInv'
  OBVIOUS
<1>1. CASE Read
  BY <1>1, PlainReads, CountReads, MeshReads, StateReads, MoveKeeps DEF Read, ReaderInv
<1>2. CASE Return
  BY <1>2, ReturnKeeps
<1>3. CASE Throw \/ Trailing
  BY <1>3, GiveUpKeeps DEF Throw, Trailing
<1>4. CASE Finish
  BY <1>4 DEF Finish, ReaderInv, Typed, KeptWithinBytes, Nested, WithinLimit, TotalBounded, MeshDone,
             Sound
<1>5. CASE UNCHANGED readerVars
  BY <1>5 DEF readerVars, ReaderInv, Typed, KeptWithinBytes, Nested, WithinLimit, TotalBounded,
             MeshDone, Sound
<1> QED  BY <1>1, <1>2, <1>3, <1>4, <1>5 DEF ReaderNext

\* The inductive invariant holds of the reader on every stream.
THEOREM ReaderInvariant == ReaderSpec => []ReaderInv
<1> QED  BY Initially, NextStep, PTL DEF ReaderSpec

\* However large the counts of a stream, every record has cost it a byte.
THEOREM KeptBounded == ReaderSpec => []KeptWithinBytes
<1>1. ReaderInv => KeptWithinBytes
  BY DEF ReaderInv
<1> QED  BY <1>1, ReaderInvariant, PTL

\* The obstacles of the world and of all its groups stay within the total.
THEOREM TotalKept == ReaderSpec => []TotalBounded
<1>1. ReaderInv => TotalBounded
  BY DEF ReaderInv, WithinLimit
<1> QED  BY <1>1, ReaderInvariant, PTL

\* An accepted mesh refers to what it has.
THEOREM MeshesSound == ReaderSpec => []MeshSound
<1>1. ReaderInv => MeshSound
  <2> SUFFICES ASSUME ReaderInv, AtEnd, Top.of = "mesh" PROVE Sound
    BY DEF MeshSound, Sound
  <2>1. stack \in Seq(Frames) /\ stack # << >> /\ Top.at > Len(Layout[Top.of])
    BY DEF ReaderInv, Typed, AtEnd
  <2>2. Len(stack) \in DOMAIN stack
    BY <2>1, EmptySeq, LenProperties
  <2> QED  BY <2>1, <2>2 DEF ReaderInv, MeshDone, Top
<1> QED  BY <1>1, ReaderInvariant, PTL

=============================================================================
