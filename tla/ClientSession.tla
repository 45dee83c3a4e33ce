---------------------------- MODULE ClientSession ----------------------------
(***************************************************************************)
(* The session of client/game.ts: one WebSocket to the gateway, the        *)
(* lifecycle the page shows, the state the keyboard reads, and the packets *)
(* with which the client joins a game.  The browser runs one callback at a *)
(* time: a WebSocket message is handled to its end, packet by packet,      *)
(* before a key, a click or a socket event is, also when one of its        *)
(* packets has already closed the session.                                 *)
(*                                                                         *)
(* A packet is any that protocol.consume accepts; the server is not        *)
(* trusted to send them in an order.  Packets about other players, the     *)
(* chat and the chunks of the world do not touch this state.  Nor does a   *)
(* message or a world that is refused: close(1002) is an error in a page,  *)
(* so the socket stays open and the next message is handled.               *)
(***************************************************************************)
EXTENDS Integers

CONSTANTS
  MaxPackets,  \* bound: packets in one WebSocket message
  MaxOrder     \* bound: the largest order of an update of the local player

ASSUME ClientAssumption == MaxPackets \in Nat /\ MaxOrder \in Nat

VARIABLES
  readyState,         \* of the WebSocket
  s,                  \* lifecycle, UDP flags and inputState of the session
  greeted,            \* the phase of the ServerHandshake is "ready"
  handshakeComplete,
  serverPlayerOrder,  \* -1 for null
  requested,          \* one-time packets the session has marked as sent
  left,               \* packets of the message in hand still to be handled
  page,               \* "here", "leaving" once the user disconnected, "gone"
  sent,               \* history: the one-time packets a session not closed has sent
  again,              \* history: whether it sent one of them twice
  late,               \* history: whether a closed session has sent one
  confirmed           \* history: whether the server confirmed the UDP link of one
                      \* that is not closed

history == <<sent, again, late, confirmed>>
vars == <<readyState, s, greeted, handshakeComplete, serverPlayerOrder, requested, left,
          page, history>>

Init ==
  /\ readyState = "connecting"
  /\ \E udp \in {"idle", "disabled"} :
       s = [phase |-> "connecting", joined |-> FALSE, alive |-> FALSE,
            paused |-> FALSE, respawnPending |-> FALSE, closed |-> FALSE,
            tcpReady |-> FALSE, udpState |-> udp,
            udpReady |-> FALSE, udpRequested |-> FALSE,
            playerId |-> FALSE, physicsReady |-> FALSE, tankAlive |-> FALSE,
            tankPaused |-> FALSE]
  /\ greeted = FALSE /\ handshakeComplete = FALSE /\ serverPlayerOrder = -1
  /\ requested = {} /\ left = 0 /\ page = "here"
  /\ sent = {} /\ again = FALSE /\ late = FALSE /\ confirmed = FALSE

UseUDP == s.udpState # "disabled"

-----------------------------------------------------------------------------
(* updateSessionLifecycle, one operator per event: what the event does to   *)
(* the lifecycle and to what the session keeps beside it.                   *)

ResetPhysics(t) ==
  [t EXCEPT !.physicsReady = FALSE, !.tankAlive = FALSE, !.tankPaused = FALSE]

NotPlaying(t, phase) ==
  [t EXCEPT !.phase = phase, !.joined = FALSE, !.alive = FALSE, !.paused = FALSE,
            !.respawnPending = FALSE]

UdpClosed(t) ==
  [t EXCEPT !.udpState = IF @ = "disabled" THEN @ ELSE "closed",
            !.udpReady = FALSE, !.udpRequested = FALSE]

SocketOpen(t)     == [t EXCEPT !.phase = "handshaking", !.tcpReady = TRUE]
HandshakeReady(t) == [t EXCEPT !.phase = "joining", !.tcpReady = TRUE]
UdpAsked(t)       == [t EXCEPT !.udpState = "requested", !.udpRequested = TRUE]
Accepted(t)       == NotPlaying(t, "accepted")
Rejected(t)       == NotPlaying(t, "rejected")
LocalLeft(t)      == ResetPhysics(NotPlaying(t, "left"))

LocalJoined(t) ==
  ResetPhysics([NotPlaying(t, "joined") EXCEPT !.joined = TRUE, !.playerId = TRUE])

BecameAlive(t) ==
  [t EXCEPT !.phase = "playing", !.joined = TRUE, !.alive = TRUE, !.paused = FALSE,
            !.respawnPending = FALSE, !.tankAlive = TRUE, !.tankPaused = FALSE,
            !.physicsReady = TRUE]

\* Mutated form of Killed: the respawn is armed, the tank is not reset.
KilledNoReset(t) ==
  [t EXCEPT !.phase = "dead", !.joined = TRUE, !.alive = FALSE, !.paused = FALSE,
            !.respawnPending = TRUE]

Killed(t) ==
  ResetPhysics([t EXCEPT !.phase = "dead", !.joined = TRUE, !.alive = FALSE,
                         !.paused = FALSE, !.respawnPending = TRUE])

\* Mutated form of Paused: whoever resumes plays.
PausedOrPlaying(t, paused) ==
  [t EXCEPT !.paused = paused, !.tankPaused = paused,
            !.phase = IF paused THEN "paused" ELSE "playing"]

Paused(t, paused) ==
  [t EXCEPT !.paused = paused, !.tankPaused = paused,
            !.phase = IF paused THEN "paused" ELSE IF t.alive THEN "playing" ELSE "dead"]

RestartRequested(t) ==
  [t EXCEPT !.respawnPending = @ \/ (t.joined /\ ~t.alive)]

CloseRequested(t) ==
  UdpClosed([t EXCEPT !.phase = IF @ \in {"rejected", "left"} THEN @ ELSE "closing"])

SocketError(t) == [t EXCEPT !.phase = "error"]

SocketClosed(t) ==
  ResetPhysics(UdpClosed([t EXCEPT !.phase = "closed", !.closed = TRUE,
                                   !.tcpReady = FALSE, !.playerId = FALSE]))

\* The session's state, as closeSession may change it.
Session(t) ==
  [s |-> t, ready |-> readyState, handshake |-> handshakeComplete,
   order |-> serverPlayerOrder, requested |-> requested]

\* finalizeSessionClose of a session that is not closed: the marks are reset,
\* but for the one of the world transfer.
FinalizeSessionClose(t) ==
  [Session(SocketClosed(t)) EXCEPT !.handshake = FALSE, !.order = -1,
                                   !.requested = @ \cap {"world"}]

\* WebSocket.close throws for any other code.
MayClose(code) == code = 1000 \/ code \in 3000 .. 4999

\* closeSession: an open socket is closed, and the rest is left to its close
\* event; the session of a socket that is not open is closed on the spot, and so
\* is one that is closed with a code the browser refuses, whose socket stays
\* what it was.
CloseSession(t, code) ==
  IF t.closed THEN Session(t)
  ELSE IF readyState \in {"open", "closing"} /\ MayClose(code)
    THEN [Session(CloseRequested(t)) EXCEPT !.ready = "closing"]
    ELSE FinalizeSessionClose(CloseRequested(t))

\* The histories of a session end when it is closed.
Concludes(t) ==
  IF t.closed THEN sent' = {} /\ confirmed' = FALSE /\ UNCHANGED <<again, late>>
              ELSE UNCHANGED history

Becomes(session) ==
  /\ s' = session.s /\ readyState' = session.ready
  /\ handshakeComplete' = session.handshake /\ serverPlayerOrder' = session.order
  /\ requested' = session.requested
  /\ Concludes(session.s)

-----------------------------------------------------------------------------
(* The WebSocket, the user and the gateway.                                 *)

Idle == left = 0 /\ page # "gone"

Opened ==
  /\ Idle /\ readyState = "connecting"
  /\ readyState' = "open" /\ s' = SocketOpen(s)
  /\ UNCHANGED <<greeted, handshakeComplete, serverPlayerOrder, requested, left, page, history>>

\* The close event, and the error event that precedes it if the socket failed.
SocketGone(failed) ==
  /\ Idle /\ readyState # "closed" /\ (readyState = "connecting" => failed)
  /\ readyState' = "closed"
  /\ s' = SocketClosed(IF failed THEN SocketError(s) ELSE s)
  /\ sent' = {} /\ confirmed' = FALSE
  /\ UNCHANGED <<greeted, handshakeComplete, serverPlayerOrder, requested, left, page, again, late>>

\* The disconnect button closes the session and leaves the page, ...
Disconnect ==
  /\ Idle /\ Becomes(CloseSession(s, 1000))
  /\ page' = "leaving"
  /\ UNCHANGED <<greeted, left>>

\* ... whose callbacks may still run until it is unloaded.
Unload ==
  /\ Idle /\ page = "leaving" /\ page' = "gone"
  /\ UNCHANGED <<readyState, s, greeted, handshakeComplete, serverPlayerOrder, requested,
                 left, history>>

\* The exit key, of an open socket.
Exit ==
  /\ Idle /\ readyState = "open"
  /\ Becomes(CloseSession(s, 1000))
  /\ UNCHANGED <<greeted, left, page>>

\* The release of the restart key.  A spawn is requested of the server whatever
\* canSendSessionInput says; the lifecycle alone decides what is noted.
Restart ==
  /\ Idle /\ readyState = "open"
  /\ s' = RestartRequested(s)
  /\ UNCHANGED <<readyState, greeted, handshakeComplete, serverPlayerOrder, requested, left,
                 page, history>>

\* One-time packets leave.
Ask(packets) ==
  IF s.closed
    THEN late' = TRUE /\ UNCHANGED <<sent, again>>
    ELSE /\ sent' = sent \cup packets
         /\ again' = (again \/ sent \cap packets # {})
         /\ UNCHANGED late

\* sendInitialProtocolPackets, in a socket that is open.
SendInitialProtocolPackets(t) ==
  IF t.udpState # "disabled" THEN UdpAsked(t) ELSE t

\* The message that completes the greeting of the server, and the packets that
\* follow it.  The ServerHandshake stays ready, so when the session has forgotten
\* the handshake every message of the TCP channel completes it again.
Greeting(packets) ==
  /\ Idle /\ readyState = "open" /\ ~handshakeComplete
  /\ greeted' = TRUE /\ handshakeComplete' = TRUE
  /\ s' = SendInitialProtocolPackets([HandshakeReady(s) EXCEPT !.playerId = TRUE])
  /\ requested' = requested \cup {"flags", "enter"}
  /\ Ask({"flags", "enter"})
  /\ left' = packets
  /\ UNCHANGED <<readyState, serverPlayerOrder, page, confirmed>>

\* Another message.  One of the UDP channel, of which the gateway sends none
\* before the greeting, is not asked for a handshake.
Message(packets) ==
  /\ Idle /\ readyState = "open" /\ greeted /\ packets > 0
  /\ left' = packets
  /\ UNCHANGED <<readyState, s, greeted, handshakeComplete, serverPlayerOrder, requested,
                 page, history>>

-----------------------------------------------------------------------------
(* One packet of the message in hand: applySessionProtocolResult, then      *)
(* handleProtocolFollowUp.                                                  *)

\* A packet that changes the lifecycle only.
Applied(t) ==
  /\ s' = t
  /\ UNCHANGED <<readyState, handshakeComplete, serverPlayerOrder, requested, history>>

\* Mutated form of Answer: the request is repeated with every packet.
AnswerAlways(t, mark) ==
  /\ s' = t
  /\ requested' = requested \cup {mark}
  /\ IF readyState = "open" THEN Ask({mark}) ELSE UNCHANGED <<sent, again, late>>
  /\ UNCHANGED <<readyState, handshakeComplete, serverPlayerOrder, confirmed>>

\* A packet that is answered with a request the first time.
Answer(t, mark) ==
  /\ s' = t
  /\ requested' = requested \cup {mark}
  /\ IF mark \notin requested /\ readyState = "open" THEN Ask({mark})
                                                     ELSE UNCHANGED <<sent, again, late>>
  /\ UNCHANGED <<readyState, handshakeComplete, serverPlayerOrder, confirmed>>

\* A packet that ends the session; the packets after it are still handled.
Ends(t, code) == Becomes(CloseSession(t, code))

\* MSG_UDP_LINK_ESTABLISHED.  decodePacketData has no case for it, so the packet
\* counts as invalid and the branch that would note the link ready is not reached.
LinkConfirmed ==
  /\ confirmed' = (confirmed \/ (UseUDP /\ ~s.closed))
  /\ UNCHANGED <<readyState, s, handshakeComplete, serverPlayerOrder, requested, sent, again, late>>

\* MSG_PLAYER_UPDATE and MSG_PLAYER_UPDATE_SMALL of the local player.  The tank
\* takes the packet's state first, and then the lifecycle's events decide.
LocalUpdate(order, alive, paused) ==
  LET tank == [s EXCEPT !.physicsReady = TRUE, !.tankAlive = alive, !.tankPaused = paused]
      live == IF tank.alive THEN tank ELSE BecameAlive(tank)
  IN /\ order > serverPlayerOrder
     /\ serverPlayerOrder' = order
     /\ s' = IF ~alive THEN Killed(tank)
             ELSE IF paused THEN Paused(live, TRUE)
             ELSE IF live.paused THEN Paused(live, FALSE)
             ELSE live
     /\ UNCHANGED <<readyState, handshakeComplete, requested, history>>

\* MSG_ADD_PLAYER of the local player and MSG_ALIVE: orders start again.
Restarted(t) ==
  /\ s' = t /\ serverPlayerOrder' = -1
  /\ UNCHANGED <<readyState, handshakeComplete, requested, history>>

Packet ==
  /\ left > 0 /\ left' = left - 1 /\ UNCHANGED <<greeted, page>>
  /\ \/ Answer(Accepted(s), "queries")            \* MSG_ACCEPT
     \/ Answer(s, "settings")                     \* MSG_NEGOTIATE_FLAGS
     \/ Answer(s, "hash")                         \* MSG_GAME_SETTINGS
     \/ Answer(s, "world")                        \* MSG_WANT_W_HASH
     \/ Ends(Rejected(s), 1008)                   \* MSG_REJECT
     \/ Ends(SocketError(s), 1008)                \* MSG_SUPER_KILL
     \/ LinkConfirmed                             \* MSG_UDP_LINK_ESTABLISHED
     \/ Restarted(LocalJoined(s))                 \* MSG_ADD_PLAYER
     \/ s.playerId /\ Restarted(BecameAlive(s))   \* MSG_ALIVE
     \/ s.playerId /\ Applied(Killed(s))          \* MSG_KILLED
     \/ \E paused \in BOOLEAN : s.playerId /\ Applied(Paused(s, paused)) \* MSG_PAUSE
     \/ s.playerId /\ Ends(LocalLeft(s), 1000)    \* MSG_REMOVE_PLAYER
     \/ \E order \in 0 .. MaxOrder, alive, paused \in BOOLEAN :
          s.playerId /\ LocalUpdate(order, alive, paused)
     \/ Applied(s)                                \* another, or a stale update

-----------------------------------------------------------------------------
\* All but the keys, which Keyboard models.
NextButKeys ==
  \/ Opened
  \/ \E failed \in BOOLEAN : SocketGone(failed)
  \/ Disconnect \/ Unload
  \/ \E packets \in 0 .. MaxPackets : Greeting(packets) \/ Message(packets)
  \/ Packet

Next == NextButKeys \/ Exit \/ Restart

Spec == Init /\ [][Next]_vars

-----------------------------------------------------------------------------
(* Properties.                                                             *)

\* The gate of the keyboard and the state it sends agree: while the lifecycle
\* lets gameplay input through, the tank it describes is ready, alive and
\* paused exactly when the lifecycle is; in the game a dead one is not simulated.
GateMatchesPhysics ==
  ~s.closed =>
    /\ s.alive => s.joined /\ s.physicsReady /\ s.tankAlive /\ (s.paused <=> s.tankPaused)
    /\ s.joined => (s.alive <=> s.tankAlive)

\* The phase the page shows is that of the player: playing is alive and not
\* paused, dead is not alive, and it never reads alive once the player left.
PhaseAgrees ==
  /\ s.phase = "playing" => s.joined /\ s.alive /\ ~s.paused
  /\ s.phase = "paused" => s.paused
  /\ s.phase = "dead" => ~s.alive
  /\ s.phase \in {"accepted", "rejected", "left"} => ~s.joined /\ ~s.alive

\* However the server repeats itself, each request of the join is sent once
\* until the session is closed, and none before the client entered.
AskedOnce == ~again /\ (sent # {} => {"flags", "enter"} \subseteq sent)

\* "session close did not reach the terminal state": closed is the end, and of a
\* closed session nothing is asked or entered any more.  The code breaks it where
\* it closes with 1008, which the browser refuses: the session has forgotten what
\* it asked for, and its socket stays open.
EndsForGood == page = "here" => ~late
=============================================================================
