# BZFlag-Web: a formal model

TLA+ models of the gateway and the browser client of BZFlag-Web, the TLC
configurations that check them, and the theorems about them that TLAPS proves.
The source is `src/`; paths below are relative to it. `PROJECT.json` maps every
definition to the lines it stands for.

## The system

A browser plays on an unmodified BZFlag server (BZFS) through a gateway:

    page (client/*.ts)  <-- WebSocket -->  gateway (server/gateway.ts)  <-- TCP, UDP -->  BZFS

The gateway is one Node process. It accepts HTTP connections, upgrades some to
WebSockets, and gives each one a *bridge session* with a TCP connection and a UDP
socket of its own to one BZFS. The browser's messages carry one byte that names
the channel; the rest is relayed as it is. The client speaks the BZFS protocol
itself: it frames packets, keeps the lifecycle of its session, reduces packets
into a world and draws that.

Both run callbacks one at a time, each to its end. What is concurrent is the
*order* of callbacks: three sockets, timers, a name lookup and a shutdown in the
gateway; a socket, keys, buttons and decoding promises in the page.

### Inventory

| Component | State | Operations | What is hard, and what makes it correct |
|---|---|---|---|
| Bridge session (`GatewaySession`, gateway.ts) | closed, connecting, udpReady, verified, preflight timer, held payloads and their bytes, its three sockets | constructor, name lookup, TCP and UDP events, browser's message, target's data, timers, close, fail | Every event may come after the session closed; the greeting comes in pieces; the flush may fail half way. Nothing passes to a target that is not a BZFS; nothing lost, doubled or reordered; everything is released once. |
| Listener, admission, shutdown (`createGateway`, gateway.ts) | listener, heartbeat, connections, sessions, count per address | start, stop, accept, deadline, request, upgrade, heartbeat, close of a session | An address is counted in one place and discounted in many; connections accepted before `stop()` upgrade after it. Counts exact, limits kept, nothing left after the stop. |
| WebSocket parser (`WebSocketConnection`, gateway.ts) | buffer, fragment and its counters, parser timer, closed, finished | chunk of data, deadline, close, socket events | Frames cut anywhere and mixed with control frames; a message in the middle of a chunk may close the session. Messages whole and in order, memory bounded, the deadline runs when and only when something waits. |
| Rate budgets (`RateLimiter`, `FrameBudget`, gateway.ts) | start of the window, two counters | consume | Two windows meet. What any second can let through is bounded. |
| Configuration, address policy, tokens (gateway.ts) | none | normalize, resolve, validate | Functions of one input. |
| World reducer (`client/state.ts`) | players, flags, shots, update orders, scores, local player, rabbit, connection, map, revision | one per packet, snapshot | A carrier, a score and a tank's life are each stored twice; maps are full and evict; updates come late. The records agree whatever the packets' order, and every change is a new revision. |
| Session (`client/game.ts`) | WebSocket, lifecycle, input state, UDP link, one-time requests | socket events, disconnect, exit, restart, every packet that touches the lifecycle | The rest of a message is handled after one of its packets closed the session; a close may throw and leave the socket open; the server repeats itself. Lifecycle and keyboard gate agree, each request is sent once, and a closed session stays closed. |
| Keyboard and input channel (`client/game.ts`, `protocol.ts`) | keys that are held | key down, key up, encode, choose a channel, send | A key held while the lifecycle changes; the gate, the input state and the link are three notes that decide together what leaves. |
| Packet streams and codec (`client/protocol.ts`) | greeting, partial packet | push, encode, decode | Packets cut by messages anywhere; sizes added up by hand beside fields written elsewhere. |
| World transfer and decoder (`client/world.ts`, `client/game.ts`) | chunks, offsets, declared length, envelope; the reader's offset and lists | begin, append, decode envelope, decode database | Lengths and counts are the server's word; hashes are repeated; decoding goes on while packets and closes come. What is applied is a whole database, within the limits. |
| Renderer (`client/renderer.ts`) | backend, device, loop of frames, cached scene | create, draw, lose the device, stop, set the world | Loss, failure and stop race with the pending frame; the scene is cached by revision. |
| Service worker (`client/service-worker.ts`) | cache by version | install, activate, fetch | A cache from an older version. |
| Form, translations, build, tests | none that a session reads later | – | – |

Interactions: a bridge session registers itself with the listener and reports its
end to it; the parser hands messages to the session and tells it when the
WebSocket is done, and `#fail` of the session closes the WebSocket, whose callback
enters `close()` of the session again; the budgets are consulted by both. In the
page, the session reads packets from the stream, reduces them into the world,
pushes the new snapshot to the renderer and follows them up with requests; keys go
through the session's gate and the codec back to the socket; a finished transfer is
decoded beside the socket and put into the world.

`PROJECT.json` lists every component with its status, and under `hazards` what a
test would hardly reach, each at its line with the properties that would notice.

## The modules

| Module | Models | Checked by | Proved in |
|---|---|---|---|
| `BridgeSession` | one `GatewaySession` with its sockets, target and browser | `bridge`, `udp_connect_failure`, `close_limbo` | `BridgeSessionProofs` |
| `VerifiedRelay` | what a session promises: a FIFO channel behind a gate (abstract) | `bridge` (through `ImplementsRelay`) | `Refinement` in `BridgeSessionProofs` |
| `GatewayRegistry` | `createGateway`: listener, connections, admission, heartbeat, stop | `gateway`, `tls_deadline` | `GatewayRegistryProofs` |
| `SessionSlots` | what the gateway promises about its sessions: slots granted under limits until it is shut (abstract) | `gateway` (through `ImplementsSlots`) | `SlotsRefinement` in `GatewayRegistryProofs` |
| `WebSocketParser` | the receiving half of `WebSocketConnection` | `gateway` | `WebSocketParserProofs` |
| `RateBudget` | `RateLimiter` and `FrameBudget` | `gateway` | `RateBudgetProofs` |
| `WorldState` | flags, carriers, rabbit, shots, orders of `state.ts` | `world_state`, `flag_transfer` | `WorldStateProofs` |
| `PlayerRoster` | players, life, scores, connection, map, revision, snapshot of `state.ts` | `world_state`, `undrawn_tank` (in `Scene`) | `WorldStateProofs` |
| `Renderer` | `renderer.ts`: backends, device, frames, scene and its cache | `world_state`, `undrawn_tank` (in `Scene`) | `WorldStateProofs` |
| `Scene` | `PlayerRoster` and `Renderer` joined as `game.ts` joins them | `world_state`, `undrawn_tank` | `WorldStateProofs` |
| `ClientSession` | lifecycle, input state, UDP link, requests and close paths of `game.ts` | `client_session`, `revived_session` | `ClientSessionProofs` |
| `Keyboard` | keys, gate, input encoder, channel, on top of `ClientSession` | `client_session`, `udp_link` | `ClientSessionProofs` |
| `PacketStream` | `ServerHandshake` and `PacketStream` of `protocol.ts` | `client_session` | `PacketProofs` |
| `PacketLayout` | the size and the fields of every payload of `protocol.ts` (data) | `client_session` | `PacketProofs` |
| `PacketCodec` | encoders, decoders and the relay between two browsers | `client_session` | `PacketProofs` |
| `WorldTransfer` | `beginWorldTransfer`, `appendWorldChunk` of `game.ts`, `WorldTransferAssembler`, envelope and decoding of `world.ts` | `world_transfer` | `WorldTransferProofs` |
| `WorldGrammar` | the packed database: the managers as layouts (data) | `world_transfer` | its assumptions, by TLC |
| `WorldReader` | `decodeWorldDatabase` over any stream | `world_transfer` | `WorldTransferProofs` |

`MC*` modules give values to constants, and all but that of `bridge` run several parts beside
each other (see *Runs of several parts*). A definition that a comment calls a
mutated form, or a mutant, is a plausible bug in the definition after it; the
project uses it to see that a property notices.

### BridgeSession

State is that of the object, field by field (`closed`, `connecting`, `udpReady`,
`targetHandshakeVerified`, `pendingMessages`, `pendingBytes`), the state of the
three sockets, two idle clocks, and history (`accepted`, `toTarget`,
`clientStream`). Each action is one callback with everything it calls: `TcpData`
is `#handleTargetTcpData` with `#openUdpAfterHandshake` and `#sendTargetData`,
`UdpConnectCallback` is the callback of `udp.connect` with `#maybeReady` and the
whole flush, `Shut` is `#fail` with the `onClose` callback it causes and `close()`.

The target is a stream with one number, `badByte`: the first byte of its greeting
that is wrong (its last is the player slot; beyond it, the target is genuine).
What the browser receives is the sequence of positions of that stream, which shows
a gap, a repetition or a swap. Free choices of the environment: when peers hang
up, whether a write finds room (`Refusable`), whether a budget refuses, how the
lookup ends, whether `udp.connect` succeeds. Node's sockets behave as the code
uses them: `closed` follows `destroyed`, `send` on a socket whose connect failed
throws, `connect`'s callback is called with or without an error.

### GatewayRegistry

One name per connection, used once. A session is named by its connection; its
inside is `BridgeSession`, here it may close, fall idle or be active. `stop()`
before the listener is up, twice, and during upgrades are behaviours of the model.
`tls` says whether the gateway serves HTTPS. Then a connection is two sockets: the
`'connection'` event brings the TCP socket, for which the deadline is kept, and requests
and upgrades the TLSSocket around it, for which `ClearHandshakeDeadline` finds
nothing; the deadline goes on until it fires or the TCP socket closes.
`sessionsByIp` is 0 where the map has no entry. `decrementIp` floors at 0 as in
the code; `CountsExact` shows the floor is never needed.

`SessionSlots` is the registry without sockets, timers and counters: connections that
may still ask for a session (`none`, `reading`, `answered`), those that hold one
(`gateway.sessions`), and whether `server.close()` called back. A slot is granted
against the sessions that are held, once per connection, and not after that end.

### WebSocketParser

Frames are records (operation, final, valid, header length, payload length), the
buffer is the number of bytes after the last complete frame, so a chunk may cut a
frame anywhere. `ParseFrames` is the loop of `#parseFrames` with `#handleFrame`
over the frames a chunk completes, as a recursive function of the number of turns;
`AfterLoop` is what follows the loop, the tests of what is left and the timer. The frame budget and what the session does with
a message are choices; that a message may close the connection in the middle of
the loop, so that no later frame is handled, is part of what `MessagesWhole` says.
`timerAge` is the age of the timer, `frameAge` that of the frame at the front.

### RateBudget

Both classes count the same way (a fixed window, two counters, both limits tried),
so one module models both; `weight` is the bytes of a message, or 1 for a control
frame and 0 for another one. `log` is history: when each use was granted, and what
all uses up to it weigh together.

### WorldState

A packet that the reducer refuses changes nothing and is no step. A player is the
flag it carries and its rabbit mark; a flag its status and owner. `flags` and
`shots` follow the insertion order of the JavaScript maps, since the oldest entry
is evicted. A flag update is one action with all its records, each applied to what
the one before left. `stranger` is history: the server named a carrier the
reducer did not know. `TransferFlag` includes what `decodeTransferFlag` leaves
out: without an index the reducer refuses the packet, and only `transferTo`
remembers it.

### PlayerRoster, Renderer, Scene

`PlayerRoster` is the other half of `state.ts`, what a page shows of the players.
It shares no state with the flags of `WorldState`, so the two are modules of their
own and neither pays for the other's interleavings. The code keeps some things
twice, and so does the module: `alive` is a field and a bit of `status`, a score is
in `tanks` and in `scores`. `SetWorldGeometry` leaves out the water as the source
does: `normalizeWorldGeometry` does not pass it on.

`Renderer` has the fallback from WebGPU to WebGL2 (a canvas that gave one context
gives no other: `claimed`), the loop with its one pending frame, both ways in which
the loss of a device is heard, `stop`, and `SceneObjects`, the list of objects in
drawing order, cut at its limit and cached by revision. A call of a graphics API
that throws is a choice.

`Scene` joins them as `game.ts` does: a packet is reduced and the snapshot pushed
in one turn, frames come when the browser likes, a map may arrive after `stop`.

### ClientSession, Keyboard

`s` is the lifecycle, the input state and the UDP flags; each event of
`updateSessionLifecycle` is one operator on it. `left` counts the packets of the
WebSocket message in hand: a message is handled to its end before any other
callback. The server may send any packet that decodes, in any order. Worlds and
chat are left out, they do not touch this state.

`MayClose` holds what a browser does with the code of a close: it takes 1000 and 3000
to 4999, and throws for any other. The source closes with 1000 for the button, the exit
key and a player that left, with 1008 for `MSG_REJECT` and `MSG_SUPER_KILL`, and with
1002 for a malformed message or world. So `CloseSession` has three ends: a socket
that closes, a session of a socket that is not open, and a session that is finalized
by the `catch` while its socket stays open. The session then forgets the handshake
(`handshakeComplete`), the `ServerHandshake` does not (`greeted`), so the next message
of the TCP channel completes it again (`Greeting`). The closes with 1002 have no effect
at all. The disconnect button also leaves the page (`page`): callbacks may run until it
is unloaded, and none after.

`LinkConfirmed` is the server's `MSG_UDP_LINK_ESTABLISHED`, which the decoder does not
know: it is noted in the history `confirmed` and in nothing else. `sent`, `again` and
`late` are history as well, of the one-time packets: which a session has sent, whether
one of them twice, and whether one after the session was closed.

`Keyboard` replaces the respawn and the exit that `ClientSession` has as steps of their
own by the whole way of a key: repeated or in a text field, through
`canSendSessionInput`, into the state the encoder is given (the bare command where the
gate is shut), into a message or none, over the channel of
`resolveInputChannel`, into the socket. The gate does not decide whether the
encoder is called, only how much it is given; so releasing the restart key asks for
a spawn in any phase, also when it is let go in a text field. The model has it so,
and `ActsInPlay` says what holds nevertheless. A key whose release the window does
not see stays `pressed`: the code listens for no `blur`.

### PacketStream, PacketLayout, PacketCodec

In `PacketStream` a byte is its place in the stream, a packet its length, and the
gateway's messages cut the stream at any place: `StreamReceive` is
`handleGatewayMessage` down to the packets it obtains, with what the handshake
leaves over and every limit that makes `push` throw. After an error the socket stays
open and messages still come (`StreamGarbled`), but the stream was reset in the middle
of a packet, and what it makes of the bytes then is not followed: `FramesExact` is
about the stream up to its first error.

`PacketLayout` is data, the counterpart of the `*_BYTES` constants and of the
`setUint16`s and `getUint16`s of each packet: for an encoder the bytes it allocates
and the fields it sets, for a decoder the sizes it takes, the fields it gets, the
records it repeats and the optional fields behind bits of the status. `PacketCodec`
runs these over a payload field by field. An encoder writes, BZFS passes the bytes
on as they are or with the sender's id in front, and a decoder reads them; or the
payload is any other server's, of any size, flags and counts. A value that a
decoder may refuse is refused or not.

### WorldTransfer, WorldGrammar, WorldReader

In `WorldTransfer` a byte is its position in the server's database, so `assembled`
shows a gap, a repetition or a swap. An honest server answers each request with the
bytes from its offset on; any other one sends chunks of any length and any
remainder, unasked, and whether their bytes make an envelope or a database is a
choice. A `MSG_GET_WORLD` is handled before a transfer was begun, after a refused
chunk and after the last one, as in the code. `rejected` is a promise whose `catch`
has still to run, and to call a close that throws; `decoding` is the promise of
`decodeWorldEnvelope`, which ends at any time, also after the session closed: the
code then applies the geometry to the world of that session, and so does the model.

`wellFormed` there is what the other two modules are about. `WorldGrammar` is the
packed database as data: for each manager and record the items in the order they are
read, each with its bytes, its limit and what it begins. `WorldReader` runs that over
a stream whose content is chosen as it is read. `stack` is the nesting of the loops
of the source: which layout is read, at which item, how many more of it are to come.
A count is read before its records; a record is pushed (`kept`) when its body is
complete; an obstacle counts towards the total over all groups; a mesh is checked
when its state is known; any item that may throw may throw, and then nothing of the
stream is kept. `Finish` is the whole database read to its last byte; what the page
makes of it is not followed.

## The checks

| Run | Distinct states | Shows |
|---|---|---|
| `bridge` | 74,004 | For every interleaving: nothing to, or from, a target that is not genuine (`OnlyGenuineTargets`); payloads in order, none lost or doubled (`InOrderNoneLost`), the browser's stream without a gap (`GaplessClientStream`), the byte counter exact and bounded (`PendingBytesExact`), all released once (`NothingLeftBehind`), the deadline armed exactly during the preflight (`DeadlineCoversPreflight`), closing final (`ClosedIsFinal`), and the whole implements `VerifiedRelay` (`ImplementsRelay`). With the fairness of `GateSpec`, the gate opens or the session ends (`GateSettles`). |
| `gateway` | 1,309,062 | Of the registry, with and without TLS: counts (`CountsExact`), deadlines (`DeadlineExact`), stop (`StoppedIsEmpty`), idle sessions reaped (`IdleReaped`), and the whole implements `SessionSlots` (`ImplementsSlots`), which grants no session beyond the limits (`LimitsHold` follows). Of the parser: messages whole, in order, and none after the end (`MessagesWhole`), memory (`MemoryBounded`), deadline (`DeadlineWhileWaiting`, `NoFrameOverstays`). Of a budget: at most twice the limit in any second, of uses and of weight (`SlidingBound`). |
| `world_state` | about 295,000 | Both records of who carries a flag agree, one carrier each (`CarrierAgrees`), one rabbit and nothing kept of a player that left (`ReferencesLive`), no older update applied (`OrdersAdvance`); both records of a score agree (`ScoresAgree`), a frame draws the world as it is (`PictureCurrent`), one frame is to come exactly while the renderer is ready, and stopping is final (`LoopRuns`). |
| `client_session` | 1,652,734 | Keyboard gate and tank agree (`GateMatchesPhysics`), the shown phase is the player's (`PhaseAgrees`), each request is sent once until the session is closed (`AskedOnce`), what acts for a tank leaves only while it is in play (`ActsInPlay`); packets are delivered exactly however they are cut (`FramesExact`); no encoder or decoder leaves its payload (`NeverThrows`), and what one browser encodes another decodes (`RoundTrip`). |
| `world_transfer` | 2,124,563 | What is held is within the limits and the declared length (`TransferBounded`), what is applied is the whole database, once (`WorldExact`), and a transfer that fits always has one request or answer on its way (`NeverStalls`); each record kept has cost a byte (`KeptWithinBytes`), obstacles are within the total over all groups (`TotalBounded`), accepted meshes refer to what they have (`MeshSound`). |

The other seven runs find a disagreement between the code and what the repository
says of it; see the findings.

`CHECK_DEADLOCK FALSE` in every configuration: a session, a connection or a
gateway ends and then has nothing to do, and the clocks and histories are bounded.

### Runs of several parts

`gateway`, `world_state`, `client_session` and `world_transfer` each check parts that
share no state: the registry, the parser and a budget, the flags and the scene, the
session and its streams and codec, the transfer and the decoder. Interleaving such parts would multiply their states and show
nothing more, so in the specification of the MC module one moves only while the
others stand at their beginning. What one part needs of another is a choice in it:
the budget and the session above are choices of the parser;
the session is handed any packet in any order, whatever a stream would hold; the
transfer takes the decoder to succeed or fail; the reader is given any stream.
Parts that do share state are joined by interleaving: `Scene`, and `Keyboard` on
`ClientSession`.

### Bounds, and why they are enough

* `bridge`: two TCP payloads and two datagrams at most four in all, sizes that
  fill the buffer exactly and overflow it, and a datagram over its limit; a
  greeting of three bytes and a stream of six, so the greeting is cut at each
  place, alone or with game bytes, and envelopes of two bytes cut it again; two
  idle steps, so a clock can be reset half way. The session's code has no
  behaviour that needs a third held payload or a longer stream, and the theorems
  cover all values.
* `gateway`: four connections of two addresses under a limit of three in all and
  two per address: both limits bind, one without the other, and a connection
  waits beyond both. Of the parser three frames of ten kinds, chosen so that each
  operation, each error and each limit (a continuation too many, a byte too many, a header that is too
  long, a length over the limit) occurs; three are enough for a fragmented
  message with a control frame within it, and for a complete frame and an
  incomplete one in one chunk. Of a budget a window of three steps in eight: two
  full windows meet and a third begins. The theorems cover all values.
* `world_state`: three players and three flags under limits of two, so the maps
  are full and evict; updates of two records; symmetric in players and flags,
  which the reducer never compares except for equality. In the scene two tanks,
  two maps, two scores and three packets (`MaxRevision`), enough for a score, a join,
  an update and a frame between any two of them, and for an id that is used again;
  the three theorems on it cover all values.
* `client_session`: two packets in a message are one that closes the session and
  one after it, and the number of messages is not bounded, so a session may be closed
  and greeted again any number of times; orders to 2 allow an older, an equal and a newer one; one key held at
  once, since a key only enables its own release (the theorem is for any number).
  Streams of up to four packets without a payload, of the largest size and one
  byte beyond it, with at most three packets in a push and a buffer of two packets and a
  header, are cut everywhere; the greeting is the real one of nine bytes. Every
  packet of the protocol is encoded and decoded with its real sizes, at payloads
  of every length up to one byte more than its layout can take, and counts to 2.
* `world_transfer`: seven databases: two that decode, one that inflates to another
  length, one that is no database, one that is no envelope, one too large when
  inflated and one too large to send; answers of two bytes, a limit of five bytes
  and three chunks, so a transfer takes one, two or three chunks and each limit
  binds; two answers on their way, so a dishonest server's chunks overtake the
  close. The decoder has its real grammar and real sizes of fields over streams of
  79, 84 and 181 bytes: one byte less than an empty world takes, a few more, and
  enough for any one kind of record, a mesh with faces and draw info that fits or not,
  or obstacles of the world and of a group; under limits (`MCLimit`) that such streams
  can reach. The theorems cover all values.

### Fairness

* `GateSpec`: weak fairness of the preflight timer and of the callback of
  `udp.connect`. Node fires an armed timer, and calls the callback of a connect
  once. Nothing is assumed of the peers, the lookup or the idle clocks.
  `bridge` runs under it; its safety properties do not depend on it.
* `FairSpec` of `BridgeSession`: also that time passes, the other timers fire and
  lost sockets report, the most the runtime owes. It is used for a violation: the
  session does not end even so.
* `FairSpec` of `GatewayRegistry`: the interval fires while it runs. `MCSpec` of
  `MCGateway` has the same fairness.

The safety properties assume no fairness.

## The proofs

`tlapm` proves every theorem from nothing but the assumptions on the constants
that a module names (`BridgeAssumption`, `RegistryAssumption`, `BudgetAssumption`,
`ParserAssumption`, `WorldAssumption`, `RosterAssumption`, `RendererAssumption`,
`ClientAssumption`, `KeyboardAssumption`, `StreamAssumption`, `CodecAssumption`,
`TransferAssumption`, `LayoutAssumption`, `GrammarAssumption`, `LimitAssumption`): for
any payloads, sizes, limits, greeting and chunk lengths; any frames and any way to cut
them; any finite set of connections and any addresses; any windows and weights; any
players, flags and flag updates; any databases, grammars and limits. TLC evaluates the
same assumptions in the runs, so the grammar of the source is known to meet those on a
grammar.

* **`BridgeSessionProofs`**. The properties are not inductive alone: nothing
  reaches a false target (`OnlyGenuineTargets`) across the flush only because the
  callback of `udp.connect` is outstanding for a verified target alone; nothing is
  left behind by a closed session whose lookup answers late only because a lookup
  that is under way has created no socket. `IInv` adds such facts to the
  properties, in four parts: `SlotInv` (what a closed session gave up, what an
  open one has), `GateInv` (what is verified is genuine; before that no UDP
  socket, callback or payload on either side), `OrderInv` (an open session either
  holds all it accepted or wrote all of it; a closed one wrote a first part) and
  `StreamInv` (the browser's stream is the target's as far as it was handled).
  `InitInv` and a lemma per action, or group of actions with the same effect, show
  it inductive; `InvariantHolds` concludes. `TypeCorrect`, `OnlyGenuine`,
  `InOrder`, `Gapless`, `NothingLeft` and `DeadlineCovers` follow from it, `Final`
  from it for each step, and `Refinement` maps every step to a step of
  `VerifiedRelay` or a stutter. Lemmas on `Bytes` say what the positions of a
  stream are and how two pieces join. `BytesExact`
  needs that the size of a queue grows by that of the payload appended to it, which
  is an induction over the queue, and that a step appends one payload that fits,
  empties the queue, or leaves it (`BufferSteps`).
* **`GatewayRegistryProofs`**. The counts need that registered sessions are on
  connections that exist and that a count is a cardinality of a finite set;
  lemmas on `Cardinality` give what adding and removing sessions does to each
  address's count. `Counts`, `Limits`, `Deadlines` and `Stopped` follow, and
  `TypeCorrect`. `SlotsRefinement` maps every step to a step of `SessionSlots` or a
  stutter. A grant takes the invariant: the code compares its counter, `SessionSlots`
  the sessions themselves (`CountsExact`); and an upgrade may come after `stop()`, so
  that it comes before the listener's end is due to the connection it came on, which
  that end waits for (`StoppedIsEmpty`).
* **`WorldTransferProofs`**. That an offset asked for lies in the database, which
  even `TypeCorrect` needs, depends on the exchange with the server: `HonestInv`
  says that at most one request or answer is on its way, that it is for the first
  byte that is missing, and that what is assembled is a first part of the
  database. `LengthInv` ties the first declared length to the chunks held,
  `DecodeInv` the decoding to a complete transfer, and `StallInv` counts the chunks
  of a database that fits, which shows that the limit on their number is not
  reached before the last one. `TypeCorrect`, `Bounded`, `Exact` and `GoesOn`
  follow.

  Of the reader, in the same module: every read is one kind of step (`Moves`), which
  passes at least the bytes of its item and puts at most one layout on the stack.
  A record costs a byte because its first item has at least one
  (`LayoutAssumption`) and is under way from then on. The total needs that a list of
  obstacles is never read within an obstacle (`Nested`, from
  `GrammarAssumption`): then at most one list is under way, and what it has to come
  was within the limit when it was begun (`WithinLimit`). A mesh is `Sound` when its
  last item is passed, which is the state that was checked (`MeshDone`).
* **`RateBudgetProofs`**. The counters forget what came before their window, so
  `IInv` remembers it: the uses before the current window are those of one earlier
  window, within the limits (`OneWindowBack`), and all older ones lie a whole
  window before the current one began. A span that is shorter than a window then
  meets two windows at most. `SlidingHolds` follows.
* **`WorldStateProofs`**. The two records of who carries a flag disagree in the
  middle of most packets, so the invariant `Agree` is stated of the value that the
  helpers take and return, with two weaker forms: `AgreeBut` one flag, whose carrier
  is about to be told, and `AgreeButFor` one player, which is about to go. A lemma
  per helper says from which form it leads to which; a packet is a composition of
  them. A flag update of any length needs an induction: there is a sequence of
  worlds, one after each record, by the least length for which there would be none,
  and all of them agree by the least place at which one would not (`LeastOf`,
  `UpdatesAgree`). Which flag an eviction takes does not matter, so the order of
  the map is in no invariant. `CarriersAgree` and `ReferencesHold` follow, and
  `OrdersGoOn` for each step.

  Of the scene, in the same module: that a score is the same in both records is
  inductive alone.
  `LoopInv` ties the pending frame to the lifecycle and to `stopped`. A picture from
  the cache is that of the world because the cache holds the scene of the
  snapshot that was pushed, or one of an *earlier* revision (`PictureInv`), and every
  packet and every map is a new revision.
* **`ClientSessionProofs`**. Gate and phase are not inductive each for itself: that a
  paused tank is paused in both records needs that one that is alive has joined, the
  phase `playing` needs all three. `Good` joins them for a record of the session, one
  lemma per group of events of `updateSessionLifecycle` shows that each keeps it, and the
  packets are compositions of these. `LinkInv` and `AskedInv` add the socket: an open
  session that has been greeted remembers the handshake, and what it sent is marked,
  the first two packets from the greeting on; of a closed one, whose socket may still be
  open, nothing is left to send twice. `Closing` gives the three ends of
  `CloseSession`, for any code. `ActsInPlay` needs one fact more, `Play`: what is
  alive, not paused and placed is shown as playing.
* **`WebSocketParserProofs`**. `IInv` says of the frames handled so far that the
  messages and the fragment in hand are the data frames among them in order
  (`Made`), of the buffer that it is shorter than the frame it begins
  (`BufferInv`), and of the timer that it is at least as old as that frame and not
  overdue (`TimerInv`). One chunk may complete any number of frames, so its loop has
  an invariant of its own, `LoopInv`: after so many turns so many frames are handled, or
  the loop has stopped before, and the same holds of the messages made so far. A lemma
  per kind of frame takes what is `Ready` for it to what has `Handled` it
  (`FrameHandles`, `TurnKeeps`); `LoopKeeps` goes over the turns by the least one that
  would break it. The code tests the limit of its buffer only
  behind the loop; `NeverOverfull` shows that the test finds nothing there that the test of
  a frame's length in the loop did not, which is why `MemoryBounded` can speak of one
  incomplete frame.
* **`PacketProofs`**. Of the stream: where packets begin is a sum of lengths and
  grows (`StartsAre`, `StartsGrow`), so how many are complete at a byte is a number of
  its own (`CompleteIs`), and a push returns those between two such numbers
  (`PushFrames`). `StreamInv` needs only the place in the stream beside `FramesExact`.

  Of the codec: `Takes` says what a row of items needs, `Within` that each item lies in
  the bytes the first test made sure of or in those of a test on the way. Both are kept
  by joining rows; so `PlanIs` gives them for any layout whose fields add up to no
  more than its size (`Fine`), with any number of records and any optional fields.
  That each layout of the protocol does is added up field by field (`TankEncodersFit` to
  `SetupDecodersFit`), which is where a constant that is off by a byte would
  show. `CodecInv` says that what is still to be written fits and what is still to be
  read is within; `NothingThrows` follows.

  Of the relay: a decoder `Answers` an encoder when it reads the same fields behind
  those BZFS puts in front, has a size that is the sum of its fields, and asks for an
  exact size only with one optional part at most. Each packet that BZFS passes on has
  such a pair (`RelayAnswers`), field by field. For any such pair, any bits and any
  count of bytes, the decoder's plan then is what was written (`AnswersPlan`), and the
  fields in front of the optional ones, and these, ask for no more than is left
  (`Covers`), so no test on the way refuses one that was sent. `RoundInv` carries this
  over the steps: what is written and still to write is the plan with the bits the encoder
  set; what is read and still to read is what was written, and the bytes left are
  theirs exactly. `RoundTrips` follows. That sizes are exact sums (`Fits`) and not
  only large enough shows one exception: `MSG_ENTER` has one byte behind its fields
  (the first term of `ENTER_PAYLOAD_BYTES`, protocol.ts:114), which no field is written to.

Only model-checked:

* liveness (`GateSettles`, `IdleReaped`): TLAPS has no proof of fairness or ENABLED.

Every other property of a passing run is a theorem.

The induction theorems of the library take an operator as a parameter, which these
provers cannot instantiate. Where a proof needs an induction (a buffer, a flag update, the
frames of a chunk, the sizes of fields), a short one is written out from the least number
that would be a counterexample (`LeastOf`), and a recursive function is used through
a lemma that says it satisfies its equation (`SumOfIs`, `JoinedIs`,
`ParseFramesIs`).

## Findings

Each is a run that TLC ends with a counterexample to what the repository states.

1. `udp_connect_failure`: a failed `udp.connect` calls its callback with an error,
   the callback takes none (gateway.ts:1081), and held payloads are released
   although the UDP channel is not ready (server/README.md:141).
2. `close_limbo`: a Close frame of the browser closes the WebSocket without
   `#finish` (gateway.ts:866). The idle timeout of its socket then does nothing,
   and a talking target keeps the session, its slot and its sockets (README.md:114).
3. `flag_transfer`: `decodeTransferFlag` names no flag index (protocol.ts:1090) and
   the reducer refuses a transfer without one, so none is ever shown.
4. `undrawn_tank`: the reducer keeps life as a bit that updates bring and as a field
   that only a spawn sets (state.ts:652). A tank that spawned before this player
   joined is known and moves, but is not in the scene (renderer.ts:336) until it dies
   and spawns again. The counterexample has four states.
5. `tls_deadline`: "Both timers are cleared as soon as headers are parsed"
   (gateway.ts:1320), but over TLS the connection's timer is kept under the TCP socket
   and looked up under the TLSSocket (gateway.ts:1329, 1395, 1410). It runs on and
   destroys the session at `handshakeTimeoutMs`. The counterexample has five states.
6. `revived_session`: `MSG_REJECT` and `MSG_SUPER_KILL` close with 1008, which the browser
   refuses. The session is closed and forgets what it asked for (game.ts:733), its
   socket stays open, and the next message makes the closed session send its flags
   and enter again. The tests call closed "the terminal state"
   (client/tests/game.test.mjs:140) and expect of the packet that it closes the session
   (:253), with a socket that takes every code.
7. `udp_link`: `decodePacketData` (protocol.ts:1236) has no case for the two packets of
   the UDP link, so both are dropped as invalid (game.ts:986). The link never becomes
   ready, and as `fire` goes by UDP alone, no shot is ever sent: "Fire input suppressed
   until the UDP link is ready" (game.ts:1243), and for ever.

Seen while modelling, and in the models as the code has it, without a run:

* An armed parser timer is left alone when the frame it was armed for completes and
  the next one begins in the same chunk (gateway.ts:815), so a frame may be cut off
  before its own time is up (server/README.md:175 speaks of "a frame that remains
  incomplete after its first bytes arrive"). `NoFrameOverstays` shows the other half:
  none is kept longer.
* The gate of the keyboard limits the state the encoder is given, not the message:
  the release of the restart key sends `MSG_ALIVE` in every phase, also when the
  key is let go in a text field.
* The closes with 1002 (game.ts:1054, 1220) throw in a browser. A malformed message or
  world is noted, and the session goes on: the stream is reset where it is, and chunks
  of a refused world are still handled.
* The page listens for no `blur`: a key whose release goes to another window stays
  pressed until it is released again.
* The budgets and the idle clocks read `Date.now()`, which may be set back or
  forward; the models take it to advance with time.

## Not modelled

* Configuration, address policy, tokens: functions of one input without state.
  Their outcomes are choices where they are used (`Upgrade`, `ResolveTarget`).
* What is made of a decoded world (`makeDatabaseObjects`, `normalizeWorldGeometry`,
  world.ts): functions of one list. They skip a kind without a primitive, and cut
  what is beyond 4096 objects without a word.
* What a stream that was reset after an error makes of later bytes: it depends on their
  values.
* That `window.sessionStorage` forgets the connection when the user disconnects
  (game.ts:1315): it is read by the next page only.
* The service worker: install, activate and fetch over a cache by version. It shares
  nothing with a session.
* The content of packets beyond what the properties tell apart: positions, teams,
  names, texts, chat. Matrices, meshes and the calls of the graphics APIs. The form,
  translations, sound and the build.
* Between two updates the page moves the tank itself (`advanceClientPhysics`):
  arithmetic of one position, which no other state depends on.
* That `stop()` resolves: a peer that never closes its half keeps it waiting, and
  nothing in the code bounds that.
* Whether a late update should revive a player that left (state.ts:650): the reducer
  does it on purpose, and no text of the repository decides it.

## Plan

Done, in this order: `BridgeSession` with `VerifiedRelay` (what the gateway is
for), `GatewayRegistry`, `WebSocketParser`, `RateBudget`, `WorldState`,
`ClientSession`, `WorldTransfer`; then what feeds and shows them: `PacketStream`,
`PacketLayout`, `PacketCodec`, `WorldGrammar`, `WorldReader`, `PlayerRoster`,
`Renderer`, `Scene`, `Keyboard`; the proofs of every safety
property, and `SessionSlots` with its refinement.

What would come next:

1. A composition of `ClientSession` and `PlayerRoster` over the updates of the local
   tank: their order starts again with `MSG_ALIVE` in one and not in the other
   (game.ts:1126).
2. `AddressPolicy`: address ranges and target policy of gateway.ts as operators
   against a reference definition.
3. `ServiceWorker`: install, activate and fetch over two versions of the cache.
