---------------------------- MODULE PacketStream ----------------------------
(***************************************************************************)
(* ServerHandshake and PacketStream of src/client/protocol.ts: the nine    *)
(* bytes of the BZFS greeting, then packets behind their lengths, out of   *)
(* the WebSocket messages of the gateway, which cut the stream anywhere.   *)
(* A byte is its place in the stream; what a packet holds is left out.     *)
(***************************************************************************)
EXTENDS Naturals, Sequences, FiniteSets

CONSTANTS
  Greetings,          \* what the server may send first: "ok", "refused", "foreign", "full"
  Scripts,            \* the payload lengths of the packets that follow
  VersionBytes,       \* SERVER_VERSION_BYTES; the player id is one byte more
  HeaderBytes,        \* PACKET_HEADER_BYTES
  MaxPacketBytes,     \* maxPacketBytes
  MaxStreamBytes,     \* maxBytes, of the handshake and of the stream
  MaxPacketsPerPush   \* maxPacketsPerPush

ASSUME StreamAssumption ==
  /\ Greetings \subseteq {"ok", "refused", "foreign", "full"}
  /\ Scripts \subseteq Seq(Nat)
  /\ VersionBytes \in Nat /\ HeaderBytes \in Nat \ {0}
  /\ MaxPacketBytes \in Nat /\ MaxStreamBytes \in Nat /\ MaxPacketsPerPush \in Nat

VARIABLES
  greeting, script,   \* the stream of this server
  arrived,            \* the bytes the gateway has handed over
  chunk,              \* how many of them came with the last message
  handshake,          \* ServerHandshake.phase
  taken,              \* the bytes that left the buffers, as greeting or as packets
  delivered,          \* the packets push has returned
  stream              \* "open", or "lost" once push threw

streamVars == <<greeting, script, arrived, chunk, handshake, taken, delivered, stream>>

GreetingBytes == VersionBytes + 1

\* Where packet k begins; the last one is where the stream ends.
PacketBytes(k) == HeaderBytes + script[k]
Starts ==
  LET start[k \in 1 .. Len(script) + 1] ==
        IF k = 1 THEN GreetingBytes ELSE start[k - 1] + PacketBytes(k - 1)
  IN start
End == Starts[Len(script) + 1]

\* A page that has just opened its socket.
StreamInit ==
  /\ greeting \in Greetings /\ script \in Scripts
  /\ arrived = 0 /\ chunk = 0 /\ taken = 0 /\ delivered = 0
  /\ handshake = "awaiting-greeting" /\ stream = "open"

\* ServerHandshake.push once n bytes have come: the version decides before
\* the player id is there, and an id of NO_PLAYER is a full server.
Judged(n) ==
  IF n > MaxStreamBytes THEN "failed"
  ELSE IF n < VersionBytes THEN "awaiting-greeting"
  ELSE IF greeting = "refused" THEN "rejected"
  ELSE IF greeting = "foreign" THEN "failed"
  ELSE IF n < GreetingBytes THEN "awaiting-greeting"
  ELSE IF greeting = "full" THEN "rejected"
  ELSE "ready"

\* The bytes that are not handed on to the stream.
Remainder == GreetingBytes

\* A mutant: a packet without payload waits for the byte behind it.
VisibleLater(k, n) == Starts[k] + HeaderBytes < n
\* The header of packet k is among the first n bytes.
Visible(k, n) == Starts[k] + HeaderBytes <= n

\* The packets that end within the first n bytes, and whether the header
\* behind the last of them announces one that is too large.
Complete(n) == Cardinality({k \in DOMAIN script : Visible(k, n) /\ Starts[k + 1] <= n})
Oversize(n) == \E k \in DOMAIN script : Visible(k, n) /\ PacketBytes(k) > MaxPacketBytes

\* PacketStream.push throws: for what is buffered and comes, for a header,
\* or for the packets that are complete at once.  Bytes that do not begin
\* with a header are a packet of no length in particular.
Throws(from, n) ==
  \/ n - from > MaxStreamBytes
  \/ from \notin {Starts[k] : k \in DOMAIN Starts}
  \/ Oversize(n)
  \/ Complete(n) - delivered > MaxPacketsPerPush

\* PacketStream.push: every packet that is complete now, in order; the rest
\* waits.  An error drops the buffer, and with it what this push had found.
StreamPush(from, n) ==
  IF from < n /\ Throws(from, n)
  THEN stream' = "lost" /\ taken' = from /\ UNCHANGED delivered
  ELSE /\ delivered' = Complete(n)
       /\ taken' = IF from < n THEN Starts[Complete(n) + 1] ELSE from
       /\ UNCHANGED stream

\* handleGatewayMessage: a message with the next bytes of the stream.
StreamReceive ==
  /\ stream = "open"
  /\ \E n \in arrived + 1 .. End :
       LET phase == IF handshake = "ready" THEN handshake ELSE Judged(n)
       IN /\ arrived' = n /\ chunk' = n - arrived
          /\ handshake' = phase
          /\ \/ phase = "awaiting-greeting" /\ UNCHANGED <<taken, delivered, stream>>
             \/ /\ phase \in {"failed", "rejected"} /\ stream' = "lost"
                /\ UNCHANGED <<taken, delivered>>
             \/ /\ phase = "ready"
                /\ StreamPush(IF handshake = "ready" THEN taken ELSE Remainder, n)
  /\ UNCHANGED <<greeting, script>>

\* The messages after an error.  close(1002) throws in a page, so they still
\* come: a greeting that failed throws again, and a stream that was reset takes
\* whatever byte is next for the beginning of a packet.  What it makes of the
\* bytes then is not followed.
StreamGarbled ==
  /\ stream = "lost"
  /\ \E n \in arrived + 1 .. End : arrived' = n /\ chunk' = n - arrived
  /\ UNCHANGED <<greeting, script, handshake, taken, delivered, stream>>

StreamNext == StreamReceive \/ StreamGarbled
StreamSpec == StreamInit /\ [][StreamNext]_streamVars
-----------------------------------------------------------------------------

\* However the gateway cuts the stream, after every message exactly the
\* packets that have come whole were returned, and what waits is the
\* beginning of the next one: nothing is lost, doubled or held back
\* (ServerHandshake.push, PacketStream.push).
FramesExact ==
  stream = "open" /\ handshake = "ready" =>
    /\ taken = Starts[delivered + 1]
    /\ delivered < Len(script) => arrived < Starts[delivered + 2]
=============================================================================
