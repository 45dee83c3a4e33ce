---------------------------- MODULE WorldTransfer ----------------------------
(***************************************************************************)
(* The transfer of the world database: beginWorldTransfer and              *)
(* appendWorldChunk of client/game.ts, which ask the server for the bytes  *)
(* from an offset on, and WorldTransferAssembler of client/world.ts, which *)
(* puts the chunks together under limits and tries the envelope of the     *)
(* whole.  Decoding runs in promises, while the socket goes on.            *)
(*                                                                         *)
(* A byte is its position in the server's database.  The server is either  *)
(* honest, and answers each request with the bytes from its offset on, or  *)
(* it sends any chunks at any time; their bytes are of no database and are *)
(* all written 0.                                                          *)
(***************************************************************************)
EXTENDS Integers, Sequences

CONSTANTS
  Databases,        \* what an honest server may hold, see TransferAssumption
  NoDatabase,       \* stands for the database of one that is not
  EnvelopeBytes,    \* WORLD_HEADER_BYTES + WORLD_FOOTER_BYTES
  MaxTransferBytes, \* limits.maxTransferBytes, MAX_WORLD_BYTES of protocol.ts
  MaxUncompressedBytes, MaxChunkBytes, MaxChunks,
  ServerChunk,      \* bytes an honest server puts into one answer
  MaxReplies        \* bound: chunks on their way to the client

ASSUME TransferAssumption ==
  /\ NoDatabase \notin Databases
  /\ \A d \in Databases :
       /\ d.bytes \in Nat \ {0}
       /\ d.recognized \in BOOLEAN     \* header, map version and footer
       /\ d.compressed \in Nat /\ d.uncompressed \in Nat  \* as the header says
       /\ d.inflated \in Nat           \* what comes out of the decompressor
       /\ d.wellFormed \in BOOLEAN     \* decodeWorldDatabase accepts it
  /\ EnvelopeBytes \in Nat /\ MaxTransferBytes \in Nat /\ MaxUncompressedBytes \in Nat
  /\ MaxChunkBytes \in Nat /\ MaxChunks \in Nat
  /\ ServerChunk \in Nat \ {0} /\ MaxReplies \in Nat

VARIABLES
  database,                 \* the server's
  requests, replies,        \* on their way to the server and to the client
  open,                     \* whether the WebSocket is
  rejected,                 \* whether a promise was rejected, its catch to run
  \* session.worldTransfer; -1 stands for null.
  started, complete, requestedOffset,
  \* The assembler.  assembled is bytes(), its length is bytesReceived.
  assembled, chunks, totalBytes, bytesLeft, assembly,
  decoding,                 \* "none", "running", "ended"
  applied                   \* history: databases that setWorldGeometry was given

wire      == <<requests, replies, open>>
transfer  == <<started, complete, requestedOffset>>
assembler == <<assembled, chunks, totalBytes, bytesLeft, assembly>>
vars == <<database, wire, rejected, transfer, assembler, decoding, applied>>

Positions(from, len) == [i \in 1..len |-> from + i]

honest == database # NoDatabase

\* The bytes of the database of an honest server.
IsWhole(bytes) == honest /\ bytes = Positions(0, database.bytes)

bytesReceived == Len(assembled)

Init ==
  /\ database \in Databases \cup {NoDatabase}
  /\ requests = << >> /\ replies = << >> /\ open = TRUE
  /\ rejected = FALSE
  /\ started = FALSE /\ complete = FALSE /\ requestedOffset = -1
  /\ assembled = << >> /\ chunks = 0 /\ totalBytes = -1 /\ bytesLeft = -1
  /\ assembly = "going"                  \* or "complete", or "failed"
  /\ decoding = "none" /\ applied = << >>

\* Mutated form of MayBegin: every hash begins a transfer.
MayAlwaysBegin == ~complete

MayBegin == ~complete /\ ~started

\* MSG_WANT_W_HASH, which the server may repeat: beginWorldTransfer.
WorldHash ==
  /\ open /\ MayBegin
  /\ started' = TRUE /\ requestedOffset' = 0
  /\ assembled' = << >> /\ chunks' = 0 /\ totalBytes' = -1 /\ bytesLeft' = -1
  /\ assembly' = "going"
  /\ requests' = Append(requests, 0)
  /\ UNCHANGED <<database, replies, open, rejected, complete, decoding, applied>>

-----------------------------------------------------------------------------
(* The server.                                                             *)

Least(m, n) == IF m < n THEN m ELSE n

\* A chunk says how many bytes of the database are left after it.
Chunk(bytes, left) == [bytes |-> bytes, left |-> left]

\* An honest server's, to a request for the bytes from an offset on.
Answer(from) ==
  LET len == Least(ServerChunk, database.bytes - from)
  IN  Chunk(Positions(from, len), database.bytes - from - len)

ServerAnswers ==
  /\ honest /\ requests # << >> /\ Len(replies) < MaxReplies
  /\ replies' = Append(replies, Answer(Head(requests)))
  /\ requests' = Tail(requests)
  /\ UNCHANGED <<database, open, rejected, transfer, assembler, decoding, applied>>

\* A server that is not: any chunk; it does not look at the requests.
ServerSends(len, left) ==
  /\ ~honest /\ Len(replies) < MaxReplies
  /\ replies' = Append(replies, Chunk([i \in 1..len |-> 0], left))
  /\ requests' = << >>
  /\ UNCHANGED <<database, open, rejected, transfer, assembler, decoding, applied>>

-----------------------------------------------------------------------------
(* The client.                                                             *)

\* decodeWorldChunk: a chunk of a database beyond the limit decodes to nothing.
Decodable(c) == c.left + Len(c.bytes) <= MaxTransferBytes

Total(c) == IF totalBytes = -1 THEN c.left + Len(c.bytes) ELSE totalBytes

\* What push() asks of a chunk before it looks at the length the server says
\* is left.
WithinLimits(c) ==
  /\ assembly = "going"
  /\ Len(c.bytes) <= MaxChunkBytes /\ chunks < MaxChunks
  /\ bytesReceived + Len(c.bytes) <= MaxTransferBytes

\* Mutated form of Acceptable: the remaining length is believed.
AcceptableUnchecked(c) == WithinLimits(c) /\ (c.bytes = << >> => c.left = 0)

\* What push() asks of a chunk before it takes it.
Acceptable(c) ==
  /\ WithinLimits(c)
  /\ c.left = Total(c) - (bytesReceived + Len(c.bytes))
  /\ c.bytes = << >> => c.left = 0

\* parseWorldEnvelope, which may find an envelope in any bytes of no database.
EnvelopeValid(bytes) ==
  IF IsWhole(bytes)
    THEN {/\ database.bytes >= EnvelopeBytes
          /\ database.recognized
          /\ database.uncompressed <= MaxUncompressedBytes
          /\ EnvelopeBytes + database.compressed = database.bytes
          /\ database.bytes <= MaxTransferBytes}
    ELSE {FALSE, Len(bytes) >= EnvelopeBytes}

\* push() or the promise of appendWorldChunk throws.
Throws ==
  /\ rejected' = TRUE
  /\ UNCHANGED <<transfer, requests, decoding>>

\* The request for what comes next, unless it was made.
AskNext(received) ==
  IF requestedOffset = received THEN UNCHANGED <<requestedOffset, requests>>
  ELSE /\ requestedOffset' = received
       /\ requests' = IF open THEN Append(requests, received) ELSE requests

\* push() of an acceptable chunk, and what appendWorldChunk does with the result.
Take(c) ==
  LET bytes == assembled \o c.bytes
  IN  /\ assembled' = bytes /\ chunks' = chunks + 1
      /\ totalBytes' = Total(c) /\ bytesLeft' = c.left
      /\ IF c.left > 0
           THEN /\ AskNext(Len(bytes))
                /\ UNCHANGED <<assembly, rejected, started, complete, decoding>>
           ELSE \E valid \in EnvelopeValid(bytes) :
                  IF valid
                    THEN /\ assembly' = "complete" /\ complete' = TRUE
                         /\ requestedOffset' = -1 /\ decoding' = "running"
                         /\ UNCHANGED <<started, requests, rejected>>
                    ELSE assembly' = "failed" /\ Throws

\* A MSG_GET_WORLD: handled whether or not a transfer was begun, and after a
\* rejected chunk as well, as long as the socket is open.
ReceiveChunk ==
  /\ open /\ replies # << >>
  /\ replies' = Tail(replies)
  /\ LET c == Head(replies)
     IN  \/ /\ ~Decodable(c)
            /\ UNCHANGED <<requests, rejected, transfer, assembler, decoding>>
         \/ Decodable(c) /\ Acceptable(c) /\ Take(c)
         \/ /\ Decodable(c) /\ ~Acceptable(c)
            /\ assembly' = IF assembly = "complete" THEN assembly ELSE "failed"
            /\ totalBytes' = IF WithinLimits(c) THEN Total(c) ELSE totalBytes
            /\ UNCHANGED <<assembled, chunks, bytesLeft>>
            /\ Throws
  /\ UNCHANGED <<database, open, applied>>

\* Mutated form of DecodesTo: the length of what was inflated is not compared.
DecodesAnyLength ==
  IF IsWhole(assembled) THEN {database.wellFormed} ELSE BOOLEAN

\* Whether the envelope can be inflated to the length it says and decoded.
DecodesTo ==
  IF IsWhole(assembled)
    THEN {database.inflated = database.uncompressed /\ database.wellFormed}
    ELSE BOOLEAN

\* The decoding ends: the geometry goes to the world, also that of a session
\* whose socket was closed meanwhile; or the promise is rejected.
DecodeEnds ==
  /\ decoding = "running" /\ decoding' = "ended"
  /\ \E decodes \in DecodesTo :
       IF decodes
         THEN applied' = Append(applied, assembled) /\ UNCHANGED rejected
         ELSE rejected' = TRUE /\ UNCHANGED applied
  /\ UNCHANGED <<database, wire, transfer, assembler>>

\* The catch of the promise notes the error.  It also calls close(1002), which
\* throws in a page and leaves the socket open: later chunks are handled.
Catch ==
  /\ rejected /\ rejected' = FALSE
  /\ UNCHANGED <<database, open, requests, replies, transfer, assembler, decoding, applied>>

\* The session is closed, or its socket is lost.
Closes ==
  /\ open /\ open' = FALSE
  /\ UNCHANGED <<database, requests, replies, rejected, transfer, assembler, decoding, applied>>

Next ==
  \/ WorldHash \/ ServerAnswers \/ ReceiveChunk \/ DecodeEnds \/ Catch \/ Closes
  \/ \E len \in 0..(MaxChunkBytes + 1), left \in 0..(MaxTransferBytes + 1) :
       ServerSends(len, left)

Spec == Init /\ [][Next]_vars

-----------------------------------------------------------------------------
(* Properties.                                                             *)

\* The type invariant.
TypeOK ==
  /\ database \in Databases \cup {NoDatabase}
  /\ requests \in Seq(Nat)
  /\ replies \in Seq([bytes : Seq(Nat), left : Nat])
  /\ open \in BOOLEAN /\ rejected \in BOOLEAN
  /\ started \in BOOLEAN /\ complete \in BOOLEAN /\ requestedOffset \in Nat \cup {-1}
  /\ assembled \in Seq(Nat) /\ chunks \in Nat
  /\ totalBytes \in Nat \cup {-1} /\ bytesLeft \in Nat \cup {-1}
  /\ assembly \in {"going", "complete", "failed"}
  /\ decoding \in {"none", "running", "ended"}
  /\ applied \in Seq(Seq(Nat))

\* Whatever a server sends, what is held of its database is within the limits,
\* and the server's first word on its length holds until it is complete: no
\* chunk changes it (push "enforcing the server-declared remaining byte count").
TransferBounded ==
  /\ chunks <= MaxChunks /\ bytesReceived <= MaxTransferBytes
  /\ chunks = 0 => assembled = << >>
  /\ chunks > 0 => bytesReceived + bytesLeft = totalBytes /\ totalBytes <= MaxTransferBytes

Good ==
  /\ database.recognized /\ database.wellFormed
  /\ database.inflated = database.uncompressed

\* Geometry is applied once at most, from a whole transfer; and of an honest
\* server's database from all of its bytes, in order, and only from one that is
\* what its envelope says (appendWorldChunk, decodeWorldEnvelope).
WorldExact ==
  /\ Len(applied) <= 1
  /\ applied # << >> => /\ complete /\ bytesLeft = 0 /\ Len(applied[1]) = totalBytes
                        /\ honest => IsWhole(applied[1]) /\ Good

\* The databases that pass the limits when they come in chunks of an honest server.
Fits ==
  /\ database.bytes <= MaxTransferBytes /\ ServerChunk <= MaxChunkBytes
  /\ database.bytes <= MaxChunks * ServerChunk

\* The transfer of a database that fits never stalls and is never refused before
\* its last chunk: while it is incomplete and the socket open, exactly one request
\* or its answer is on its way, and it is for the place that is needed next,
\* however often the server repeats the hash.
NeverStalls ==
  honest /\ Fits /\ open /\ started /\ ~complete /\ bytesLeft # 0 =>
    /\ assembly = "going" /\ ~rejected
    /\ Len(requests) + Len(replies) = 1
    /\ \A i \in DOMAIN requests : requests[i] = bytesReceived
    /\ \A i \in DOMAIN replies : replies[i].bytes = Positions(bytesReceived, Len(replies[i].bytes))

=============================================================================
