-------------------------- MODULE GatewayRegistry --------------------------
(***************************************************************************)
(* The gateway process (createGateway of server/gateway.ts): its listener, *)
(* the connections it accepts, the deadline each is under until its first  *)
(* request, the admission of bridge sessions under a limit in all and one  *)
(* per client address, the heartbeat that reaps idle sessions, and stop(). *)
(* A session is named by its connection; what it does while it is open is  *)
(* module BridgeSession, here it may be active, fall idle or close.        *)
(***************************************************************************)
EXTENDS Integers, FiniteSets

CONSTANTS
  Conns,             \* connections, each used once
  Ips,               \* what clientIpForRequest may return
  MaxSessions,       \* limits.maxSessions
  MaxSessionsPerIp   \* limits.maxSessionsPerIp

ASSUME RegistryAssumption ==
  /\ IsFiniteSet(Conns)
  /\ MaxSessions \in Nat \ {0}
  /\ MaxSessionsPerIp \in 1..MaxSessions   \* normalizeConfig lowers it

VARIABLES
  tls,           \* whether config.tls names a key and a certificate
  server,        \* "new", "starting", "listening", "closing", "closed"
  heartbeat,     \* whether the interval runs
  conn,          \* per connection, see ConnStates
  deadline,      \* per connection, whether the timer of its 'connection' event is armed
  sessions,      \* gateway.sessions
  clientIp,      \* per connection, what clientIpForRequest returns for its upgrade
  sessionsByIp,  \* gateway.sessionsByIp, 0 where the map has no entry
  idle           \* sessions without activity for longer than idleTimeoutMs

vars == <<tls, server, heartbeat, conn, deadline, sessions, clientIp, sessionsByIp, idle>>

\* "reading": no request yet; "answered": kept alive after one; "bridge": a
\* WebSocket; "ended": the gateway sent its FIN, the peer's is outstanding.
ConnStates == {"none", "reading", "answered", "bridge", "ended", "gone"}

Live == {"reading", "answered", "bridge", "ended"}

SessionsOf(ip) == {c \in sessions : clientIp[c] = ip}

Init ==
  /\ tls \in BOOLEAN
  /\ server = "new" /\ heartbeat = FALSE
  /\ conn = [c \in Conns |-> "none"]
  /\ deadline = [c \in Conns |-> FALSE]
  /\ sessions = {} /\ idle = {}
  /\ clientIp \in [Conns -> Ips]
  /\ sessionsByIp = [ip \in Ips |-> 0]

-----------------------------------------------------------------------------
(* Start and stop.                                                         *)

Start ==
  /\ server = "new" /\ server' = "starting"
  /\ UNCHANGED <<tls, heartbeat, conn, deadline, sessions, clientIp, sessionsByIp, idle>>

\* The listener is up, or the address cannot be bound and start() rejects.
Listening ==
  /\ server = "starting"
  /\ \/ server' = "listening" /\ heartbeat' = TRUE
     \/ server' = "new" /\ UNCHANGED heartbeat
  /\ UNCHANGED <<tls, conn, deadline, sessions, clientIp, sessionsByIp, idle>>

(***************************************************************************)
(* close() of the sessions in S: each leaves the registry and, unless the  *)
(* browser's Close frame did so before, its socket is ended.  decrementIp  *)
(* floors the count at 0.                                                  *)
(***************************************************************************)
Decremented(S) ==
  [ip \in Ips |->
     LET left == sessionsByIp[ip] - Cardinality({c \in S : clientIp[c] = ip})
     IN  IF left <= 0 THEN 0 ELSE left]

Leave(S) ==
  /\ sessions' = sessions \ S
  /\ idle' = idle \ S
  /\ sessionsByIp' = Decremented(S)

Ended(S) == [c \in Conns |-> IF c \in S THEN "ended" ELSE conn[c]]

(***************************************************************************)
(* stop(): a server that does not listen, or no longer, resolves at once.  *)
(* Node's close() drops the connections that are kept alive between two    *)
(* requests, with what is left of their timers, not those that never sent  *)
(* one.                                                                    *)
(***************************************************************************)
Stop ==
  /\ heartbeat' = FALSE
  /\ Leave(sessions)
  /\ IF server = "listening"
       THEN /\ server' = "closing"
            /\ conn' = [c \in Conns |->
                          CASE c \in sessions           -> "ended"
                            [] conn[c] = "answered"     -> "gone"
                            [] OTHER                    -> conn[c]]
            /\ deadline' = [c \in Conns |-> deadline[c] /\ conn[c] # "answered"]
       ELSE conn' = Ended(sessions) /\ UNCHANGED <<server, deadline>>
  /\ UNCHANGED <<tls, clientIp>>

\* Mutated form of Drained: the listener does not wait for connections.
SessionsDrained == sessions = {}

Drained == \A c \in Conns : conn[c] \in {"none", "gone"}

\* The callback of server.close.
Closed ==
  /\ server = "closing" /\ Drained
  /\ server' = "closed"
  /\ UNCHANGED <<tls, heartbeat, conn, deadline, sessions, clientIp, sessionsByIp, idle>>

-----------------------------------------------------------------------------
(* Connections.                                                            *)

Accept(c) ==
  /\ server = "listening" /\ conn[c] = "none"
  /\ conn' = [conn EXCEPT ![c] = "reading"]
  /\ deadline' = [deadline EXCEPT ![c] = TRUE]
  /\ UNCHANGED <<tls, server, heartbeat, sessions, clientIp, sessionsByIp, idle>>

\* The timer destroys the socket, and with it the session of one that is armed
\* although the connection was upgraded.
HandshakeDeadline(c) ==
  /\ deadline[c]
  /\ conn' = [conn EXCEPT ![c] = "gone"]
  /\ deadline' = [deadline EXCEPT ![c] = FALSE]
  /\ Leave(sessions \cap {c})
  /\ UNCHANGED <<tls, server, heartbeat, clientIp>>

\* clearHandshakeDeadline, of the socket a request came on.  The timer is kept
\* under the socket of the 'connection' event, which is the TCP socket; over
\* TLS requests come on another object, the TLSSocket around it, for which
\* there is no timer to clear.
ClearHandshakeDeadline(c) == deadline' = [deadline EXCEPT ![c] = tls /\ @]

\* Mutated form of Request: the answered connection keeps its deadline.
RequestKeepsDeadline(c) ==
  /\ conn[c] \in {"reading", "answered"}
  /\ \E next \in {"answered", "ended"} : conn' = [conn EXCEPT ![c] = next]
  /\ UNCHANGED <<tls, server, heartbeat, deadline, sessions, clientIp, sessionsByIp, idle>>

\* A plain request: answered, and the connection kept alive or ended.
Request(c) ==
  /\ conn[c] \in {"reading", "answered"}
  /\ ClearHandshakeDeadline(c)
  /\ \E next \in {"answered", "ended"} : conn' = [conn EXCEPT ![c] = next]
  /\ UNCHANGED <<tls, server, heartbeat, sessions, clientIp, sessionsByIp, idle>>

\* The checks of the upgrade handler before the limits, by the part of the
\* request that fails them; "none" when all of them pass.
Faults == {"none", "url", "path", "upgrade", "version", "origin", "token",
           "server id", "not allowlisted", "custom"}

Admits(ip) ==
  /\ Cardinality(sessions) < MaxSessions
  /\ sessionsByIp[ip] < MaxSessionsPerIp

\* Mutated form of Upgrade: the address is counted before the limits are checked.
UpgradeCountsFirst(c, fault) ==
  /\ conn[c] \in {"reading", "answered"}
  /\ ClearHandshakeDeadline(c)
  /\ IF fault = "none"
       THEN sessionsByIp' = [sessionsByIp EXCEPT ![clientIp[c]] = @ + 1]
       ELSE UNCHANGED sessionsByIp
  /\ IF fault = "none" /\ Admits(clientIp[c])
       THEN /\ conn' = [conn EXCEPT ![c] = "bridge"]
            /\ sessions' = sessions \cup {c}
       ELSE /\ conn' = [conn EXCEPT ![c] = "ended"]
            /\ UNCHANGED sessions
  /\ UNCHANGED <<tls, server, heartbeat, clientIp, idle>>

(***************************************************************************)
(* The upgrade handler.  The deadline is the first thing it clears; then a *)
(* rejected connection gets an answer and a FIN, and an admitted one       *)
(* becomes a session, also when stop() came between its acceptance and its *)
(* request.                                                                *)
(***************************************************************************)
Upgrade(c, fault) ==
  /\ conn[c] \in {"reading", "answered"}
  /\ ClearHandshakeDeadline(c)
  /\ IF fault = "none" /\ Admits(clientIp[c])
       THEN /\ conn' = [conn EXCEPT ![c] = "bridge"]
            /\ sessions' = sessions \cup {c}
            /\ sessionsByIp' = [sessionsByIp EXCEPT ![clientIp[c]] = @ + 1]
       ELSE /\ conn' = [conn EXCEPT ![c] = "ended"]
            /\ UNCHANGED <<sessions, sessionsByIp>>
  /\ UNCHANGED <<tls, server, heartbeat, clientIp, idle>>

\* Mutated form of ConnectionLost: the address is counted down once more when
\* the socket of a session that closed before goes.
ConnectionLostCountsAgain(c) ==
  /\ conn[c] \in Live
  /\ conn' = [conn EXCEPT ![c] = "gone"]
  /\ deadline' = [deadline EXCEPT ![c] = FALSE]
  /\ Leave({c})
  /\ UNCHANGED <<tls, server, heartbeat, clientIp>>

\* The socket is gone: its timer is cleared, its session, if any, closes.
ConnectionLost(c) ==
  /\ conn[c] \in Live
  /\ conn' = [conn EXCEPT ![c] = "gone"]
  /\ deadline' = [deadline EXCEPT ![c] = FALSE]
  /\ Leave(sessions \cap {c})
  /\ UNCHANGED <<tls, server, heartbeat, clientIp>>

-----------------------------------------------------------------------------
(* Sessions.                                                               *)

\* The session closes for a reason of its own.
SessionCloses(c) ==
  /\ c \in sessions
  /\ Leave({c})
  /\ conn' = Ended({c})
  /\ UNCHANGED <<tls, server, heartbeat, deadline, clientIp>>

\* A Close frame of the browser ends the socket and leaves the session.
CloseFrame(c) ==
  /\ c \in sessions /\ conn[c] = "bridge"
  /\ conn' = Ended({c})
  /\ UNCHANGED <<tls, server, heartbeat, deadline, sessions, clientIp, sessionsByIp, idle>>

FallsIdle(c) ==
  /\ c \in sessions \ idle
  /\ idle' = idle \cup {c}
  /\ UNCHANGED <<tls, server, heartbeat, conn, deadline, sessions, clientIp, sessionsByIp>>

Activity(c) ==
  /\ c \in idle
  /\ idle' = idle \ {c}
  /\ UNCHANGED <<tls, server, heartbeat, conn, deadline, sessions, clientIp, sessionsByIp>>

\* Mutated form of Heartbeat: sessions whose socket was ended are passed over.
HeartbeatOfOpen ==
  LET S == {c \in idle : conn[c] = "bridge"}
  IN  /\ heartbeat /\ S # {}
      /\ Leave(S)
      /\ conn' = Ended(S)
      /\ UNCHANGED <<tls, server, heartbeat, deadline, clientIp>>

\* One run of the interval: tick() of every session closes the idle ones.
Heartbeat ==
  /\ heartbeat /\ idle # {}
  /\ Leave(idle)
  /\ conn' = Ended(idle)
  /\ UNCHANGED <<tls, server, heartbeat, deadline, clientIp>>

-----------------------------------------------------------------------------
ServerStep == Start \/ Listening \/ Stop \/ Closed \/ Heartbeat

ConnStep(c) ==
  \/ Accept(c) \/ HandshakeDeadline(c) \/ Request(c) \/ ConnectionLost(c)
  \/ \E fault \in Faults : Upgrade(c, fault)
  \/ SessionCloses(c) \/ CloseFrame(c) \/ FallsIdle(c) \/ Activity(c)

Next == ServerStep \/ \E c \in Conns : ConnStep(c)

Spec == Init /\ [][Next]_vars

\* The interval fires.
FairSpec == Spec /\ WF_vars(Heartbeat)

-----------------------------------------------------------------------------
(* Properties.                                                             *)

\* The type invariant; a session is registered only while its socket exists.
TypeOK ==
  /\ tls \in BOOLEAN
  /\ server \in {"new", "starting", "listening", "closing", "closed"}
  /\ heartbeat \in BOOLEAN
  /\ conn \in [Conns -> ConnStates]
  /\ deadline \in [Conns -> BOOLEAN]
  /\ sessions \in SUBSET {c \in Conns : conn[c] \in {"bridge", "ended"}}
  /\ idle \in SUBSET sessions
  /\ clientIp \in [Conns -> Ips]
  /\ sessionsByIp \in [Ips -> Nat]

\* The count kept per address is the number of registered sessions of that
\* address, through every way a session can end (incrementIp, decrementIp).
CountsExact == \A ip \in Ips : sessionsByIp[ip] = Cardinality(SessionsOf(ip))

\* Never more sessions than maxSessions, nor more of one address than
\* maxSessionsPerIp (server/README.md "total sessions, per-IP sessions ...").
\* It follows from ImplementsSlots, whose grants are within the limits.
LimitsHold ==
  /\ Cardinality(sessions) <= MaxSessions
  /\ \A ip \in Ips : Cardinality(SessionsOf(ip)) <= MaxSessionsPerIp

\* Over plain HTTP a connection is under the handshake deadline until its first
\* request and never after it, so no session is destroyed by the timer of its
\* own handshake; over TLS the timer lives as long as the connection, and never
\* longer (clearHandshakeDeadline of requests, upgrades and the close event).
DeadlineExact ==
  \A c \in Conns : deadline[c] <=> conn[c] \in (IF tls THEN Live ELSE {"reading"})

\* "Both timers are cleared as soon as headers are parsed": the timer of a
\* connection is armed only while no request has come on it.  The code breaks it
\* over TLS, where a session is destroyed at handshakeTimeoutMs.
ClearedByHeaders == \A c \in Conns : deadline[c] => conn[c] = "reading"

\* When the listener reports that it closed, no session is left and none can
\* come, although connections accepted before stop() may upgrade after it.
StoppedIsEmpty == server = "closed" => sessions = {} /\ \A c \in Conns : conn[c] \notin Live

\* While the heartbeat runs, a session that fell idle becomes active again or
\* is closed, also one whose socket was ended by the browser's Close frame.
IdleReaped == \A c \in Conns : c \in idle ~> c \notin idle \/ ~heartbeat

Slots == INSTANCE SessionSlots WITH
  waiting <- {c \in Conns : conn[c] \in {"none", "reading", "answered"}},
  held <- sessions,
  shut <- server = "closed"

\* Refinement: the registry with its counters, sockets and deadlines grants
\* sessions as SessionSlots allows.  A connection is admitted at most once,
\* against the sessions that are really open and not a count that drifted,
\* and never after server.close() called back, although a connection accepted
\* before stop() may still upgrade while the listener closes.
ImplementsSlots == Slots!Spec

=============================================================================
