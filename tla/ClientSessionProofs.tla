------------------------ MODULE ClientSessionProofs ------------------------
(***************************************************************************)
(* Proofs about ClientSession and Keyboard: the records a session keeps of *)
(* its player (lifecycle, input state) agree, the requests of the join are *)
(* sent once until the session is closed, also when a close that the       *)
(* browser refuses leaves its socket open, and what acts for the tank is   *)
(* sent only while it is in play, for messages of any number of packets in *)
(* any order and for any number of keys held at once.                      *)
(***************************************************************************)
EXTENDS Keyboard, TLAPS

Fields ==
  {"phase", "joined", "alive", "paused", "respawnPending", "closed", "tcpReady", "udpState",
   "udpReady", "udpRequested", "playerId", "physicsReady", "tankAlive", "tankPaused"}

\* The type of the session's record: the provers take its shape and the types of
\* the fields that decide something better apart than as one set of records.
Shaped(t) == t = [f \in Fields |-> t[f]]
Booleans(t) ==
  /\ t.joined \in BOOLEAN /\ t.alive \in BOOLEAN /\ t.paused \in BOOLEAN
  /\ t.closed \in BOOLEAN /\ t.physicsReady \in BOOLEAN
  /\ t.tankAlive \in BOOLEAN /\ t.tankPaused \in BOOLEAN

\* The parts of the invariant that are about the lifecycle alone.
Gate(t) ==
  ~t.closed =>
    /\ t.alive => t.joined /\ t.physicsReady /\ t.tankAlive /\ (t.paused <=> t.tankPaused)
    /\ t.joined => (t.alive <=> t.tankAlive)
Phase(t) ==
  /\ t.alive => t.joined
  /\ t.phase = "playing" => t.joined /\ t.alive /\ ~t.paused
  /\ t.phase = "paused" => t.paused
  /\ t.phase = "dead" => ~t.alive
  /\ t.phase \in {"accepted", "rejected", "left"} => ~t.joined /\ ~t.alive

Good(t) == Shaped(t) /\ Booleans(t) /\ Gate(t) /\ Phase(t)

-----------------------------------------------------------------------------
(* Every event of the lifecycle keeps them.                                *)

LEMMA SocketEvents ==
  ASSUME NEW t, Good(t)
  PROVE  /\ Good(SocketOpen(t))
         /\ Good(HandshakeReady(t))
         /\ Good(SocketError(t))
         /\ Good(RestartRequested(t))
         /\ Good(UdpAsked(t))
<1>1. /\ Shaped(SocketOpen(t))
      /\ Shaped(HandshakeReady(t))
      /\ Shaped(SocketError(t))
      /\ Shaped(RestartRequested(t))
      /\ Shaped(UdpAsked(t))
  BY Zenon DEF Good, Shaped, SocketOpen, HandshakeReady, SocketError,
             RestartRequested, UdpAsked
<1>2. /\ Booleans(SocketOpen(t))
      /\ Booleans(HandshakeReady(t))
      /\ Booleans(SocketError(t))
      /\ Booleans(RestartRequested(t))
      /\ Booleans(UdpAsked(t))
  BY SMT DEF Good, Shaped, Fields, Booleans, SocketOpen, HandshakeReady, SocketError,
             RestartRequested, UdpAsked
<1>3. /\ Gate(SocketOpen(t))
      /\ Gate(HandshakeReady(t))
      /\ Gate(SocketError(t))
      /\ Gate(RestartRequested(t))
      /\ Gate(UdpAsked(t))
  BY SMT DEF Good, Shaped, Fields, Booleans, Gate, SocketOpen, HandshakeReady, SocketError,
             RestartRequested, UdpAsked
<1>4. /\ Phase(SocketOpen(t))
      /\ Phase(HandshakeReady(t))
      /\ Phase(SocketError(t))
      /\ Phase(RestartRequested(t))
      /\ Phase(UdpAsked(t))
  BY SMT DEF Good, Shaped, Fields, Booleans, Phase, SocketOpen, HandshakeReady, SocketError,
             RestartRequested, UdpAsked
<1> QED  BY <1>1, <1>2, <1>3, <1>4 DEF Good

LEMMA CloseEvents ==
  ASSUME NEW t, Good(t)
  PROVE  /\ Good(CloseRequested(t))
         /\ Good(SocketClosed(t))
<1>1. /\ Shaped(CloseRequested(t))
      /\ Shaped(SocketClosed(t))
  BY Zenon DEF Good, Shaped, CloseRequested, UdpClosed,
             SocketClosed, ResetPhysics
<1>2. /\ Booleans(CloseRequested(t))
      /\ Booleans(SocketClosed(t))
  BY SMT DEF Good, Shaped, Fields, Booleans, CloseRequested, UdpClosed,
             SocketClosed, ResetPhysics
<1>3. /\ Gate(CloseRequested(t))
      /\ Gate(SocketClosed(t))
  BY SMT DEF Good, Shaped, Fields, Booleans, Gate, CloseRequested, UdpClosed,
             SocketClosed, ResetPhysics
<1>4. /\ Phase(CloseRequested(t))
      /\ Phase(SocketClosed(t))
  BY SMT DEF Good, Shaped, Fields, Booleans, Phase, CloseRequested, UdpClosed,
             SocketClosed, ResetPhysics
<1> QED  BY <1>1, <1>2, <1>3, <1>4 DEF Good

LEMMA JoinEvents ==
  ASSUME NEW t, Good(t)
  PROVE  /\ Good(Accepted(t))
         /\ Good(Rejected(t))
         /\ Good(LocalLeft(t))
         /\ Good(LocalJoined(t))
<1>1. /\ Shaped(Accepted(t))
      /\ Shaped(Rejected(t))
      /\ Shaped(LocalLeft(t))
      /\ Shaped(LocalJoined(t))
  BY Zenon DEF Good, Shaped, Accepted, Rejected, LocalLeft,
             LocalJoined, NotPlaying, ResetPhysics
<1>2. /\ Booleans(Accepted(t))
      /\ Booleans(Rejected(t))
      /\ Booleans(LocalLeft(t))
      /\ Booleans(LocalJoined(t))
  BY SMT DEF Good, Shaped, Fields, Booleans, Accepted, Rejected, LocalLeft,
             LocalJoined, NotPlaying, ResetPhysics
<1>3. /\ Gate(Accepted(t))
      /\ Gate(Rejected(t))
      /\ Gate(LocalLeft(t))
      /\ Gate(LocalJoined(t))
  BY SMT DEF Good, Shaped, Fields, Booleans, Gate, Accepted, Rejected, LocalLeft,
             LocalJoined, NotPlaying, ResetPhysics
<1>4. /\ Phase(Accepted(t))
      /\ Phase(Rejected(t))
      /\ Phase(LocalLeft(t))
      /\ Phase(LocalJoined(t))
  BY SMT DEF Good, Shaped, Fields, Booleans, Phase, Accepted, Rejected, LocalLeft,
             LocalJoined, NotPlaying, ResetPhysics
<1> QED  BY <1>1, <1>2, <1>3, <1>4 DEF Good

LEMMA GameEvents ==
  ASSUME NEW t, Good(t)
  PROVE  /\ Good(BecameAlive(t))
         /\ Good(Killed(t))
<1>1. /\ Shaped(BecameAlive(t))
      /\ Shaped(Killed(t))
  BY Zenon DEF Good, Shaped, BecameAlive, Killed, ResetPhysics
<1>2. /\ Booleans(BecameAlive(t))
      /\ Booleans(Killed(t))
  BY SMT DEF Good, Shaped, Fields, Booleans, BecameAlive, Killed, ResetPhysics
<1>3. /\ Gate(BecameAlive(t))
      /\ Gate(Killed(t))
  BY SMT DEF Good, Shaped, Fields, Booleans, Gate, BecameAlive, Killed, ResetPhysics
<1>4. /\ Phase(BecameAlive(t))
      /\ Phase(Killed(t))
  BY SMT DEF Good, Shaped, Fields, Booleans, Phase, BecameAlive, Killed, ResetPhysics
<1> QED  BY <1>1, <1>2, <1>3, <1>4 DEF Good

LEMMA PauseEvent ==
  ASSUME NEW t, Good(t), NEW p \in BOOLEAN
  PROVE  /\ Good(Paused(t, p))
<1>1. /\ Shaped(Paused(t, p))
  BY Zenon DEF Good, Shaped, Paused
<1>2. /\ Booleans(Paused(t, p))
  BY SMT DEF Good, Shaped, Fields, Booleans, Paused
<1>3. /\ Gate(Paused(t, p))
  BY SMT DEF Good, Shaped, Fields, Booleans, Gate, Paused
<1>4. /\ Phase(Paused(t, p))
  BY SMT DEF Good, Shaped, Fields, Booleans, Phase, Paused
<1> QED  BY <1>1, <1>2, <1>3, <1>4 DEF Good

LEMMA PlayerKnown ==
  ASSUME NEW t, Good(t)
  PROVE  Good([t EXCEPT !.playerId = TRUE])
<1>1. Shaped([t EXCEPT !.playerId = TRUE])
  BY Zenon DEF Good, Shaped
<1>2. Booleans([t EXCEPT !.playerId = TRUE])
  BY SMT DEF Good, Shaped, Fields, Booleans
<1>3. Gate([t EXCEPT !.playerId = TRUE]) /\ Phase([t EXCEPT !.playerId = TRUE])
  BY SMT DEF Good, Shaped, Fields, Booleans, Gate, Phase
<1> QED  BY <1>1, <1>2, <1>3 DEF Good

\* Only the end of the session closes it, and nothing opens it again.
LEMMA StaysClosed ==
  ASSUME NEW t, Good(t)
  PROVE  /\ SocketOpen(t).closed = t.closed /\ HandshakeReady(t).closed = t.closed
         /\ SocketError(t).closed = t.closed /\ RestartRequested(t).closed = t.closed
         /\ UdpAsked(t).closed = t.closed /\ [t EXCEPT !.playerId = TRUE].closed = t.closed
         /\ Accepted(t).closed = t.closed /\ Rejected(t).closed = t.closed
         /\ LocalLeft(t).closed = t.closed /\ LocalJoined(t).closed = t.closed
         /\ BecameAlive(t).closed = t.closed /\ Killed(t).closed = t.closed
         /\ \A p : Paused(t, p).closed = t.closed
         /\ CloseRequested(t).closed = t.closed /\ SocketClosed(t).closed
<1>1. /\ SocketOpen(t).closed = t.closed /\ HandshakeReady(t).closed = t.closed
      /\ SocketError(t).closed = t.closed /\ RestartRequested(t).closed = t.closed
      /\ UdpAsked(t).closed = t.closed /\ [t EXCEPT !.playerId = TRUE].closed = t.closed
  BY SMT DEF Good, Shaped, Fields, SocketOpen, HandshakeReady, SocketError, RestartRequested, UdpAsked
<1>2. /\ Accepted(t).closed = t.closed /\ Rejected(t).closed = t.closed
      /\ LocalLeft(t).closed = t.closed /\ LocalJoined(t).closed = t.closed
  BY SMT DEF Good, Shaped, Fields, Accepted, Rejected, LocalLeft, LocalJoined,
             NotPlaying, ResetPhysics
<1>3. /\ BecameAlive(t).closed = t.closed /\ Killed(t).closed = t.closed
      /\ \A p : Paused(t, p).closed = t.closed
  BY SMT DEF Good, Shaped, Fields, BecameAlive, Killed, Paused, ResetPhysics
<1>4. CloseRequested(t).closed = t.closed /\ SocketClosed(t).closed
  BY SMT DEF Good, Shaped, Fields, CloseRequested, SocketClosed, UdpClosed, ResetPhysics
<1> QED  BY <1>1, <1>2, <1>3, <1>4

\* Death and birth put the two notes of life right, whatever they were before;
\* a pause does so for a player that is alive.
Loose(t) == Shaped(t) /\ Booleans(t) /\ Phase(t)

LEMMA DeathAndBirth ==
  ASSUME NEW t, Loose(t)
  PROVE  /\ Good(Killed(t)) /\ Killed(t).closed = t.closed
         /\ Good(BecameAlive(t)) /\ BecameAlive(t).closed = t.closed
         /\ BecameAlive(t).alive /\ ~BecameAlive(t).paused
<1>1. Shaped(Killed(t)) /\ Shaped(BecameAlive(t))
  BY Zenon DEF Loose, Shaped, Killed, BecameAlive, ResetPhysics
<1>2. Booleans(Killed(t)) /\ Killed(t).closed = t.closed
  BY SMT DEF Loose, Shaped, Fields, Booleans, Killed, ResetPhysics
<1>3. Gate(Killed(t)) /\ Phase(Killed(t))
  BY SMT DEF Loose, Shaped, Fields, Booleans, Gate, Phase, Killed, ResetPhysics
<1>4. Booleans(BecameAlive(t)) /\ BecameAlive(t).closed = t.closed
      /\ BecameAlive(t).alive /\ ~BecameAlive(t).paused
  BY SMT DEF Loose, Shaped, Fields, Booleans, BecameAlive
<1>5. Gate(BecameAlive(t)) /\ Phase(BecameAlive(t))
  BY SMT DEF Loose, Shaped, Fields, Booleans, Gate, Phase, BecameAlive
<1> QED  BY <1>1, <1>2, <1>3, <1>4, <1>5 DEF Good

LEMMA PauseOfLiving ==
  ASSUME NEW t, Loose(t), t.alive, t.physicsReady, t.tankAlive, NEW p \in BOOLEAN
  PROVE  Good(Paused(t, p)) /\ Paused(t, p).closed = t.closed
<1>1. Shaped(Paused(t, p))
  BY Zenon DEF Loose, Shaped, Paused
<1>2. Booleans(Paused(t, p)) /\ Paused(t, p).closed = t.closed
  BY SMT DEF Loose, Shaped, Fields, Booleans, Paused
<1>3. Gate(Paused(t, p)) /\ Phase(Paused(t, p))
  BY SMT DEF Loose, Shaped, Fields, Booleans, Gate, Phase, Paused
<1> QED  BY <1>1, <1>2, <1>3 DEF Good

\* The tank takes the packet's state first, and the events that follow put the
\* lifecycle right.
TankOf(t, alive, paused) ==
  [t EXCEPT !.physicsReady = TRUE, !.tankAlive = alive, !.tankPaused = paused]
AfterEvents(tank, alive, paused) ==
  LET live == IF tank.alive THEN tank ELSE BecameAlive(tank)
  IN IF ~alive THEN Killed(tank)
     ELSE IF paused THEN Paused(live, TRUE)
     ELSE IF live.paused THEN Paused(live, FALSE)
     ELSE live

LEMMA LocalTank ==
  ASSUME NEW t, Good(t), NEW alive \in BOOLEAN, NEW paused \in BOOLEAN
  PROVE  /\ Good(AfterEvents(TankOf(t, alive, paused), alive, paused))
         /\ AfterEvents(TankOf(t, alive, paused), alive, paused).closed = t.closed
<1> DEFINE tank == TankOf(t, alive, paused)
<1>1. Shaped(tank)
  BY Zenon DEF Good, Shaped, TankOf
<1>2. Booleans(tank) /\ Phase(tank)
  BY SMT DEF Good, Shaped, Fields, Booleans, Phase, TankOf
<1>3. /\ tank.closed = t.closed /\ tank.physicsReady /\ tank.tankAlive = alive
      /\ tank.tankPaused = paused /\ (tank.alive => tank.joined)
  BY SMT DEF Good, Shaped, Fields, Booleans, Phase, TankOf
<1>4. Loose(tank)
  BY <1>1, <1>2 DEF Loose
<1>5. CASE ~alive
  BY <1>3, <1>4, <1>5, DeathAndBirth DEF AfterEvents
<1>6. CASE alive /\ tank.alive
  <2>1. \A p \in BOOLEAN : Good(Paused(tank, p)) /\ Paused(tank, p).closed = tank.closed
    BY <1>3, <1>4, <1>6, PauseOfLiving
  <2>2. ~tank.paused /\ ~paused => Good(tank)
    BY <1>3, <1>4, <1>6 DEF Loose, Good, Gate, Booleans
  <2> QED  BY <1>3, <1>6, <2>1, <2>2 DEF AfterEvents
<1>7. CASE alive /\ ~tank.alive
  <2>1. /\ Good(BecameAlive(tank)) /\ BecameAlive(tank).closed = tank.closed
        /\ ~BecameAlive(tank).paused
    BY <1>4, DeathAndBirth
  <2>2. Good(Paused(BecameAlive(tank), TRUE))
    BY <2>1, GameEvents, PauseEvent
  <2>3. Paused(BecameAlive(tank), TRUE).closed = BecameAlive(tank).closed
    BY <2>1, StaysClosed
  <2> QED  BY <1>3, <1>7, <2>1, <2>2, <2>3 DEF AfterEvents
<1> QED  BY <1>5, <1>6, <1>7

-----------------------------------------------------------------------------
(* The session.                                                            *)

\* Once the server has greeted the session knows it, until it is closed; packets
\* are in hand only after that, and the socket was opened before.
LinkInv ==
  /\ left > 0 \/ greeted => s.closed \/ handshakeComplete
  /\ readyState = "connecting" => s.closed \/ ~handshakeComplete

\* What an open session has sent is marked, and starts with the greeting.
AskedInv ==
  /\ sent \subseteq requested
  /\ s.closed => sent = {}
  /\ ~s.closed /\ ~handshakeComplete => sent = {}
  /\ ~s.closed /\ handshakeComplete => {"flags", "enter"} \subseteq sent

IInv == Good(s) /\ LinkInv /\ AskedInv /\ AskedOnce

\* What closeSession may do: nothing, close the socket, or end the session.
LEMMA Closing ==
  ASSUME NEW t, Good(t), NEW code
  PROVE  /\ Good(CloseSession(t, code).s)
         /\ \/ /\ t.closed /\ CloseSession(t, code).s = t
               /\ CloseSession(t, code).ready = readyState
            \/ /\ ~t.closed /\ CloseSession(t, code).s = CloseRequested(t)
               /\ MayClose(code)
               /\ CloseSession(t, code).ready = "closing"
               /\ CloseSession(t, code).handshake = handshakeComplete
               /\ CloseSession(t, code).requested = requested
            \/ CloseSession(t, code).s.closed /\ CloseSession(t, code).ready = readyState
<1>1. CASE t.closed
  BY <1>1 DEF CloseSession, Session
<1>2. CASE ~t.closed /\ readyState \in {"open", "closing"} /\ MayClose(code)
  <2>1. CloseSession(t, code) = [Session(CloseRequested(t)) EXCEPT !.ready = "closing"]
    BY <1>2 DEF CloseSession
  <2>2. /\ CloseSession(t, code).s = CloseRequested(t) /\ CloseSession(t, code).ready = "closing"
        /\ CloseSession(t, code).handshake = handshakeComplete
        /\ CloseSession(t, code).requested = requested
    BY <2>1 DEF Session
  <2> QED  BY <1>2, <2>2, CloseEvents
<1>3. CASE ~t.closed /\ ~(readyState \in {"open", "closing"} /\ MayClose(code))
  <2> DEFINE u == SocketClosed(CloseRequested(t))
  <2>1. CloseSession(t, code) = [Session(u) EXCEPT !.handshake = FALSE, !.order = -1,
                                                   !.requested = @ \cap {"world"}]
    BY <1>3 DEF CloseSession, FinalizeSessionClose
  <2>2. Good(u) /\ u.closed
    BY CloseEvents, StaysClosed
  <2> HIDE DEF u
  <2>3. CloseSession(t, code).s = u /\ CloseSession(t, code).ready = readyState
    BY <2>1 DEF Session
  <2> QED  BY <2>2, <2>3
<1> QED  BY <1>1, <1>2, <1>3

LEMMA Initially == Init => IInv
<1> SUFFICES ASSUME Init PROVE IInv
  OBVIOUS
<1>1. PICK udp \in {"idle", "disabled"} :
        s = [phase |-> "connecting", joined |-> FALSE, alive |-> FALSE,
             paused |-> FALSE, respawnPending |-> FALSE, closed |-> FALSE,
             tcpReady |-> FALSE, udpState |-> udp,
             udpReady |-> FALSE, udpRequested |-> FALSE,
             playerId |-> FALSE, physicsReady |-> FALSE, tankAlive |-> FALSE,
             tankPaused |-> FALSE]
  BY DEF Init
<1>2. Booleans(s) /\ Gate(s) /\ Phase(s)
  BY <1>1 DEF Booleans, Gate, Phase
<1>3. Shaped(s)
  BY <1>1, SMTT(60) DEF Shaped, Fields
<1>4. LinkInv /\ AskedInv /\ AskedOnce
  BY DEF Init, LinkInv, AskedInv, AskedOnce
<1> QED  BY <1>2, <1>3, <1>4 DEF IInv, Good

\* A step that sends nothing and changes the lifecycle by a good record only.
LEMMA Quiet ==
  ASSUME IInv, Good(s'), s'.closed = s.closed,
         UNCHANGED <<greeted, handshakeComplete, requested, sent, again>>,
         readyState' = "connecting" => readyState = "connecting",
         left' > 0 => s.closed \/ handshakeComplete
  PROVE  IInv'
<1>1. LinkInv'
  BY DEF IInv, LinkInv
<1>2. AskedInv'
  BY DEF IInv, AskedInv
<1>3. AskedOnce'
  BY DEF IInv, AskedOnce
<1> QED  BY <1>1, <1>2, <1>3 DEF IInv

\* A session that is closed is asked about no more.
LEMMA Finished ==
  ASSUME IInv, Good(s'), s'.closed, sent' = {}, UNCHANGED again
  PROVE  IInv'
BY DEF IInv, LinkInv, AskedInv, AskedOnce

LEMMA SocketSteps ==
  ASSUME IInv, Opened \/ (\E failed \in BOOLEAN : SocketGone(failed)) \/ Unload \/ Restart
  PROVE  IInv'
<1>1. CASE Opened
  <2>1. Good(s') /\ s'.closed = s.closed
    BY <1>1, SocketEvents, StaysClosed DEF Opened, IInv
  <2>2. /\ readyState' = "open" /\ left' = 0
        /\ UNCHANGED <<greeted, handshakeComplete, requested, sent, again>>
    BY <1>1 DEF Opened, Idle, history
  <2> QED  BY <2>1, <2>2, Quiet
<1>2. ASSUME NEW failed \in BOOLEAN, SocketGone(failed) PROVE IInv'
  <2>1. Good(s') /\ s'.closed
    <3>1. Good(IF failed THEN SocketError(s) ELSE s)
      BY SocketEvents DEF IInv
    <3> QED  BY <1>2, <3>1, CloseEvents, StaysClosed DEF SocketGone
  <2> QED  BY <1>2, <2>1, Finished DEF SocketGone
<1>3. CASE Unload
  <2>1. /\ s' = s /\ readyState' = readyState /\ left' = 0
        /\ UNCHANGED <<greeted, handshakeComplete, requested, sent, again>>
    BY <1>3 DEF Unload, Idle, history
  <2> QED  BY <2>1, Quiet DEF IInv
<1>4. CASE Restart
  <2>1. Good(s') /\ s'.closed = s.closed
    BY <1>4, SocketEvents, StaysClosed DEF Restart, IInv
  <2>2. /\ readyState' = readyState /\ left' = 0
        /\ UNCHANGED <<greeted, handshakeComplete, requested, sent, again>>
    BY <1>4 DEF Restart, Idle, history
  <2> QED  BY <2>1, <2>2, Quiet
<1> QED  BY <1>1, <1>2, <1>3, <1>4

\* What closing the session does, for the button, the exit key and a packet that
\* ends it.
LEMMA Ended ==
  ASSUME IInv, NEW t, Good(t), t.closed = s.closed, NEW code, Becomes(CloseSession(t, code)),
         UNCHANGED greeted, left' > 0 => s.closed \/ handshakeComplete
  PROVE  IInv'
<1> DEFINE c == CloseSession(t, code)
<1>1. /\ s' = c.s /\ readyState' = c.ready /\ handshakeComplete' = c.handshake
      /\ requested' = c.requested /\ Concludes(c.s)
  BY DEF Becomes
<1>2. Good(c.s)
  BY Closing
<1>3. CASE c.s.closed
  BY <1>1, <1>2, <1>3, Finished DEF Concludes
<1>4. CASE ~c.s.closed
  <2>1. /\ ~t.closed /\ c.s = CloseRequested(t) /\ c.ready = "closing"
        /\ c.handshake = handshakeComplete /\ c.requested = requested
    BY <1>4, Closing
  <2>2. UNCHANGED <<sent, again>>
    BY <1>1, <1>4 DEF Concludes, history
  <2>3. c.s.closed = s.closed
    BY <2>1, StaysClosed
  <2> HIDE DEF c
  <2> QED  BY <1>1, <1>2, <2>1, <2>2, <2>3, Quiet
<1> QED  BY <1>3, <1>4

LEMMA LeaveSteps == ASSUME IInv, Disconnect \/ Exit PROVE IInv'
<1>1. Becomes(CloseSession(s, 1000)) /\ left' = 0 /\ UNCHANGED greeted /\ Good(s)
  BY DEF Disconnect, Exit, Idle, IInv
<1> QED  BY <1>1, Ended

LEMMA MessageStep ==
  ASSUME IInv, NEW packets \in 0 .. MaxPackets, Message(packets)
  PROVE  IInv'
<1>1. /\ s' = s /\ readyState' = readyState
      /\ UNCHANGED <<greeted, handshakeComplete, requested, sent, again>>
  BY DEF Message, history
<1>2. s.closed \/ handshakeComplete
  BY DEF Message, IInv, LinkInv
<1> QED  BY <1>1, <1>2, Quiet DEF IInv

\* The one-time packets that leave in an open session were not sent before.
LEMMA Sending ==
  ASSUME IInv, NEW packets, packets \cap sent = {}, Ask(packets)
  PROVE  /\ ~again'
         /\ s.closed => sent' = sent
         /\ ~s.closed => sent' = sent \cup packets
<1>1. ~again
  BY DEF IInv, AskedOnce
<1>2. CASE s.closed
  BY <1>1, <1>2 DEF Ask
<1>3. CASE ~s.closed
  <2>1. sent' = sent \cup packets /\ again' = (again \/ sent \cap packets # {})
    BY <1>3 DEF Ask
  <2> QED  BY <1>1, <1>3, <2>1
<1> QED  BY <1>2, <1>3

LEMMA GreetingStep ==
  ASSUME IInv, NEW packets \in 0 .. MaxPackets, Greeting(packets)
  PROVE  IInv'
<1>1. /\ readyState' = "open" /\ ~handshakeComplete /\ handshakeComplete'
      /\ requested' = requested \cup {"flags", "enter"} /\ Ask({"flags", "enter"})
  BY DEF Greeting
<1>2. Good(s') /\ s'.closed = s.closed
  <2> DEFINE t == [HandshakeReady(s) EXCEPT !.playerId = TRUE]
  <2>1. Good(HandshakeReady(s)) /\ HandshakeReady(s).closed = s.closed
    BY SocketEvents, StaysClosed DEF IInv
  <2>2. Good(t) /\ t.closed = s.closed
    BY <2>1, PlayerKnown, StaysClosed
  <2>3. s' = SendInitialProtocolPackets(t)
    BY DEF Greeting
  <2> HIDE DEF t
  <2>4. Good(UdpAsked(t)) /\ UdpAsked(t).closed = t.closed
    BY <2>2, SocketEvents, StaysClosed
  <2> QED  BY <2>2, <2>3, <2>4 DEF SendInitialProtocolPackets
<1>3. sent = {}
  BY <1>1 DEF IInv, AskedInv
<1>4. /\ s.closed => sent' = {}
      /\ ~s.closed => sent' = {"flags", "enter"}
      /\ ~again'
  BY <1>1, <1>3, Sending DEF IInv, AskedOnce
<1>5. AskedInv' /\ AskedOnce'
  BY <1>1, <1>2, <1>4 DEF AskedInv, AskedOnce
<1>6. LinkInv'
  BY <1>1 DEF LinkInv
<1> QED  BY <1>2, <1>5, <1>6 DEF IInv

-----------------------------------------------------------------------------
(* One packet of the message in hand.                                      *)

LEMMA InHand ==
  ASSUME IInv, left > 0, left' = left - 1, UNCHANGED <<greeted, readyState>>
  PROVE  /\ left' > 0 => s.closed \/ handshakeComplete
         /\ s.closed \/ handshakeComplete
         /\ readyState' = "connecting" => readyState = "connecting"
BY DEF IInv, LinkInv

LEMMA AppliedStep ==
  ASSUME IInv, left > 0, left' = left - 1, UNCHANGED greeted, NEW t, Good(t), t.closed = s.closed,
         Applied(t) \/ Restarted(t)
  PROVE  IInv'
<1>1. s' = t /\ UNCHANGED <<readyState, handshakeComplete, requested, sent, again>>
  BY DEF Applied, Restarted, history
<1> QED  BY <1>1, InHand, Quiet

LEMMA AnswerStep ==
  ASSUME IInv, left > 0, left' = left - 1, UNCHANGED greeted, NEW t, Good(t), t.closed = s.closed,
         NEW mark, Answer(t, mark)
  PROVE  IInv'
<1>1. /\ s' = t /\ UNCHANGED <<readyState, handshakeComplete>>
      /\ requested' = requested \cup {mark}
  BY DEF Answer
<1>2. s.closed \/ handshakeComplete
  BY <1>1, InHand
<1>3. LinkInv'
  BY <1>1, <1>2 DEF IInv, LinkInv
<1>4. /\ ~again'
      /\ sent' = sent \/ (~s.closed /\ sent' = sent \cup {mark})
  <2>1. CASE ~(mark \notin requested /\ readyState = "open")
    BY <2>1 DEF Answer, IInv, AskedOnce
  <2>2. CASE mark \notin requested /\ readyState = "open"
    <3>1. {mark} \cap sent = {}
      BY <2>2 DEF IInv, AskedInv
    <3>2. Ask({mark})
      BY <2>2 DEF Answer
    <3> QED  BY <3>1, <3>2, Sending
  <2> QED  BY <2>1, <2>2
<1>5. AskedInv'
  BY <1>1, <1>2, <1>4 DEF IInv, AskedInv
<1>6. AskedOnce'
  BY <1>2, <1>4 DEF IInv, AskedInv, AskedOnce
<1> QED  BY <1>1, <1>3, <1>5, <1>6 DEF IInv

LEMMA UpdateStep ==
  ASSUME IInv, left > 0, left' = left - 1, UNCHANGED greeted, NEW order \in 0 .. MaxOrder,
         NEW alive \in BOOLEAN, NEW paused \in BOOLEAN, LocalUpdate(order, alive, paused)
  PROVE  IInv'
<1>1. /\ s' = AfterEvents(TankOf(s, alive, paused), alive, paused)
      /\ UNCHANGED <<readyState, handshakeComplete, requested, sent, again>>
  BY DEF LocalUpdate, AfterEvents, TankOf, history
<1>2. Good(s') /\ s'.closed = s.closed
  BY <1>1, LocalTank DEF IInv
<1> QED  BY <1>1, <1>2, InHand, Quiet

LEMMA PacketStep == ASSUME IInv, Packet PROVE IInv'
<1>1. /\ left > 0 /\ left' = left - 1 /\ UNCHANGED greeted /\ Good(s)
      /\ left' > 0 => s.closed \/ handshakeComplete
  BY DEF Packet, IInv, LinkInv
<1>2. CASE Answer(Accepted(s), "queries") \/ Answer(s, "settings") \/ Answer(s, "hash")
           \/ Answer(s, "world")
  BY <1>1, <1>2, AnswerStep, JoinEvents, StaysClosed
<1>3. CASE Ends(Rejected(s), 1008) \/ Ends(SocketError(s), 1008) \/ Ends(LocalLeft(s), 1000)
  <2>1. \A t \in {Rejected(s), SocketError(s), LocalLeft(s)} : Good(t) /\ t.closed = s.closed
    BY <1>1, JoinEvents, SocketEvents, StaysClosed
  <2>2. ASSUME NEW t \in {Rejected(s), SocketError(s), LocalLeft(s)}, NEW code, Ends(t, code)
        PROVE  IInv'
    <3>1. Becomes(CloseSession(t, code))
      BY <2>2 DEF Ends
    <3>2. Good(t) /\ t.closed = s.closed
      BY <2>1
    <3> QED  BY <1>1, <3>1, <3>2, Ended
  <2> QED  BY <1>3, <2>2
<1>4. CASE LinkConfirmed
  <2>1. s' = s /\ UNCHANGED <<readyState, handshakeComplete, requested, sent, again>>
    BY <1>4 DEF LinkConfirmed
  <2> QED  BY <1>1, <2>1, Quiet
<1>5. CASE Restarted(LocalJoined(s)) \/ Restarted(BecameAlive(s)) \/ Applied(Killed(s)) \/ Applied(s)
  BY <1>1, <1>5, AppliedStep, JoinEvents, GameEvents, StaysClosed
<1>6. ASSUME NEW paused \in BOOLEAN, Applied(Paused(s, paused)) PROVE IInv'
  BY <1>1, <1>6, AppliedStep, PauseEvent, StaysClosed
<1>7. ASSUME NEW order \in 0 .. MaxOrder, NEW alive \in BOOLEAN, NEW paused \in BOOLEAN,
             LocalUpdate(order, alive, paused)
      PROVE  IInv'
  BY <1>1, <1>7, UpdateStep
<1> QED  BY <1>2, <1>3, <1>4, <1>5, <1>6, <1>7 DEF Packet

LEMMA NextStep == IInv /\ [Next]_vars => IInv'
<1> SUFFICES ASSUME IInv, [Next]_vars PROVE IInv'
  OBVIOUS
<1>1. CASE UNCHANGED vars
  BY <1>1 DEF vars, history, IInv, LinkInv, AskedInv, AskedOnce
<1>2. CASE Next
  BY <1>2, SocketSteps, LeaveSteps, GreetingStep, MessageStep, PacketStep DEF Next, NextButKeys
<1> QED  BY <1>1, <1>2

\* The inductive invariant holds of the session, whatever the packets are, also of
\* one that was closed while its socket stayed open.
THEOREM SessionInvariant == Spec => []IInv
<1> QED  BY Initially, NextStep, PTL DEF Spec

\* The gate of the keyboard and the state of the tank it sends agree, for messages
\* of any number of packets and orders of any size.
THEOREM GateMatches == Spec => []GateMatchesPhysics
<1>1. IInv => GateMatchesPhysics
  BY DEF IInv, Good, Gate, GateMatchesPhysics
<1> QED  BY <1>1, SessionInvariant, PTL

\* The phase the page shows is that of the player.
THEOREM PhaseFits == Spec => []PhaseAgrees
<1>1. IInv => PhaseAgrees
  BY DEF IInv, Good, Phase, PhaseAgrees
<1> QED  BY <1>1, SessionInvariant, PTL

\* Until the session is closed each request of the join is sent once, the first
\* two before all others.
THEOREM AskedOnceOnly == Spec => []AskedOnce
<1>1. IInv => AskedOnce
  BY DEF IInv
<1> QED  BY <1>1, SessionInvariant, PTL

-----------------------------------------------------------------------------
(* The keys.  A player in the game is shown as one, until the session ends: *)
(* with that, the gate in front of the encoder shuts out all but play.      *)

Play(t) ==
  ~t.closed /\ t.joined =>
    /\ t.phase \in {"joined", "playing", "paused", "dead", "closing"}
    /\ t.phase = "joined" => ~t.alive
PlayInv == Play(s) /\ (~s.closed /\ ~handshakeComplete => ~s.joined)

LEMMA PlayEvents ==
  ASSUME NEW t, Good(t), Play(t)
  PROVE  /\ Play(RestartRequested(t)) /\ Play(CloseRequested(t))
         /\ Play(Accepted(t)) /\ Play(Rejected(t)) /\ Play(LocalLeft(t)) /\ Play(LocalJoined(t))
         /\ Play(BecameAlive(t)) /\ Play(Killed(t)) /\ Play(UdpAsked(t))
         /\ Play([t EXCEPT !.playerId = TRUE]) /\ \A p : Play(Paused(t, p))
<1>1. Play(RestartRequested(t)) /\ Play(CloseRequested(t))
  BY SMT DEF Good, Shaped, Fields, Booleans, Phase, Play, RestartRequested, CloseRequested, UdpClosed
<1>2. Play(Accepted(t)) /\ Play(Rejected(t)) /\ Play(LocalLeft(t)) /\ Play(LocalJoined(t))
  BY SMT DEF Good, Shaped, Fields, Booleans, Play, Accepted, Rejected, LocalLeft, LocalJoined,
         NotPlaying, ResetPhysics
<1>3. Play(BecameAlive(t)) /\ Play(Killed(t)) /\ \A p : Play(Paused(t, p))
  BY SMT DEF Good, Shaped, Fields, Booleans, Play, BecameAlive, Killed, Paused, ResetPhysics
<1>4. Play(UdpAsked(t)) /\ Play([t EXCEPT !.playerId = TRUE])
  BY SMT DEF Good, Shaped, Fields, Booleans, Play, UdpAsked
<1> QED  BY <1>1, <1>2, <1>3, <1>4

\* Whether the player joined, where an event leaves it.
LEMMA StaysJoined ==
  ASSUME NEW t, Good(t)
  PROVE  /\ SocketOpen(t).joined = t.joined /\ HandshakeReady(t).joined = t.joined
         /\ RestartRequested(t).joined = t.joined /\ CloseRequested(t).joined = t.joined
BY SMT DEF Good, Shaped, Fields, SocketOpen, HandshakeReady, RestartRequested, CloseRequested, UdpClosed

LEMMA PlayPaused ==
  ASSUME NEW t, Shaped(t), NEW p \in BOOLEAN
  PROVE  Play(Paused(t, p)) /\ Play(Killed(t)) /\ Play(BecameAlive(t))
<1> DEFINE u == Paused(t, p)
<1>1. u.phase = IF p THEN "paused" ELSE IF t.alive THEN "playing" ELSE "dead"
  BY SMT DEF Shaped, Fields, Paused
<1>2. u.phase \in {"paused", "playing", "dead"}
  BY <1>1
<1>3. BecameAlive(t).phase = "playing" /\ Killed(t).phase = "dead"
  BY SMT DEF Shaped, Fields, BecameAlive, Killed, ResetPhysics
<1> QED  BY <1>2, <1>3, Zenon DEF Play

LEMMA PlayAfterUpdate ==
  ASSUME NEW t, Good(t), Play(t), NEW alive \in BOOLEAN, NEW paused \in BOOLEAN
  PROVE  Play(AfterEvents(TankOf(t, alive, paused), alive, paused))
<1> DEFINE tank == TankOf(t, alive, paused)
<1>1. Shaped(tank) /\ Shaped(BecameAlive(tank))
  BY Zenon DEF Good, Shaped, TankOf, BecameAlive
<1>2. Booleans(tank) /\ Play(tank)
  BY SMT DEF Good, Shaped, Fields, Booleans, Play, TankOf
<1>3. Play(Paused(tank, TRUE)) /\ Play(Paused(BecameAlive(tank), TRUE))
  BY <1>1, PlayPaused
<1>4. Play(Paused(tank, FALSE)) /\ Play(Paused(BecameAlive(tank), FALSE))
  BY <1>1, PlayPaused
<1>5. Play(Killed(tank)) /\ Play(BecameAlive(tank))
  BY <1>1, PlayPaused
<1> QED  BY <1>1, <1>2, <1>3, <1>4, <1>5, Zenon DEF AfterEvents

LEMMA PlayClosing ==
  ASSUME NEW t, NEW code, Good(t), ~t.closed /\ MayClose(code) => Play(t),
         ~t.closed /\ ~handshakeComplete => ~t.joined, Becomes(CloseSession(t, code))
  PROVE  PlayInv'
<1> DEFINE c == CloseSession(t, code)
<1>1. s' = c.s /\ handshakeComplete' = c.handshake
  BY DEF Becomes
<1>2. CASE c.s.closed
  BY <1>1, <1>2 DEF PlayInv, Play
<1>3. CASE ~c.s.closed
  <2>1. ~t.closed /\ c.s = CloseRequested(t) /\ MayClose(code) /\ c.handshake = handshakeComplete
    BY <1>3, Closing
  <2>2. Play(CloseRequested(t)) /\ CloseRequested(t).joined = t.joined
    BY <2>1, PlayEvents, StaysJoined
  <2> HIDE DEF c
  <2> QED  BY <1>1, <2>1, <2>2 DEF PlayInv
<1> QED  BY <1>2, <1>3

LEMMA PlaySocketSteps ==
  ASSUME IInv, PlayInv,
         \/ Opened \/ (\E failed \in BOOLEAN : SocketGone(failed)) \/ Unload \/ Restart
         \/ Disconnect \/ Exit \/ \E packets \in 0 .. MaxPackets : Greeting(packets) \/ Message(packets)
  PROVE  PlayInv'
<1> Good(s)
  BY DEF IInv
<1>1. CASE Opened
  <2>1. /\ s.closed \/ ~handshakeComplete
        /\ s' = SocketOpen(s) /\ handshakeComplete' = handshakeComplete
    BY <1>1 DEF Opened, IInv, LinkInv
  <2> QED  BY <2>1, StaysClosed, StaysJoined DEF PlayInv, Play
<1>2. ASSUME NEW failed \in BOOLEAN, SocketGone(failed) PROVE PlayInv'
  <2>1. s'.closed
    <3>1. Good(IF failed THEN SocketError(s) ELSE s)
      BY SocketEvents
    <3> QED  BY <1>2, <3>1, StaysClosed DEF SocketGone
  <2> QED  BY <2>1 DEF PlayInv, Play
<1>3. CASE Unload \/ \E packets \in 0 .. MaxPackets : Message(packets)
  BY <1>3 DEF Unload, Message, PlayInv
<1>4. CASE Restart
  BY <1>4, PlayEvents, StaysClosed, StaysJoined DEF Restart, PlayInv
<1>5. CASE Disconnect \/ Exit
  BY <1>5, PlayClosing DEF Disconnect, Exit, PlayInv
<1>6. ASSUME NEW packets \in 0 .. MaxPackets, Greeting(packets) PROVE PlayInv'
  <2> DEFINE h == HandshakeReady(s)
             t == [h EXCEPT !.playerId = TRUE]
  <2>1. Good(h) /\ (~h.closed => ~h.joined)
    BY <1>6, SocketEvents, StaysClosed, StaysJoined DEF Greeting, PlayInv
  <2>2. Good(t) /\ Play(t)
    BY <2>1, PlayerKnown, PlayEvents DEF Play
  <2>3. s' = SendInitialProtocolPackets(t) /\ handshakeComplete'
    BY <1>6 DEF Greeting
  <2> HIDE DEF t
  <2>4. Play(UdpAsked(t))
    BY <2>2, PlayEvents
  <2> QED  BY <2>2, <2>3, <2>4 DEF SendInitialProtocolPackets, PlayInv
<1> QED  BY <1>1, <1>2, <1>3, <1>4, <1>5, <1>6

LEMMA PlayPacketStep == ASSUME IInv, PlayInv, Packet PROVE PlayInv'
<1>1. Good(s) /\ Play(s) /\ (s.closed \/ handshakeComplete)
  BY DEF Packet, IInv, LinkInv, PlayInv
<1>2. ASSUME NEW t, Play(t), t.closed = s.closed,
             \/ Applied(t) \/ Restarted(t)
             \/ \E mark : Answer(t, mark)
      PROVE  PlayInv'
  <2>1. s' = t /\ handshakeComplete' = handshakeComplete
    BY <1>2 DEF Applied, Restarted, Answer
  <2> QED  BY <1>1, <1>2, <2>1 DEF PlayInv
<1>3. CASE \/ Answer(Accepted(s), "queries") \/ Answer(s, "settings") \/ Answer(s, "hash")
           \/ Answer(s, "world")
  BY <1>1, <1>2, <1>3, PlayEvents, StaysClosed
<1>4. CASE Ends(LocalLeft(s), 1000)
  <2>1. /\ Good(LocalLeft(s)) /\ Play(LocalLeft(s)) /\ LocalLeft(s).closed = s.closed
    BY <1>1, JoinEvents, PlayEvents, StaysClosed
  <2> QED  BY <1>1, <1>4, <2>1, PlayClosing DEF Ends
<1>5. CASE Ends(Rejected(s), 1008) \/ Ends(SocketError(s), 1008)
  <2>1. ~MayClose(1008)
    BY DEF MayClose
  <2>2. /\ Good(Rejected(s)) /\ Rejected(s).closed = s.closed
        /\ Good(SocketError(s)) /\ SocketError(s).closed = s.closed
    BY <1>1, JoinEvents, SocketEvents, StaysClosed
  <2> QED  BY <1>1, <1>5, <2>1, <2>2, PlayClosing DEF Ends
<1>6. CASE LinkConfirmed
  <2>1. s' = s /\ handshakeComplete' = handshakeComplete
    BY <1>6 DEF LinkConfirmed
  <2> QED  BY <2>1 DEF PlayInv
<1>7. CASE \/ Applied(Killed(s)) \/ Applied(s)
           \/ Restarted(LocalJoined(s)) \/ Restarted(BecameAlive(s))
  <2>1. \A t \in {Killed(s), s, LocalJoined(s), BecameAlive(s)} : Play(t) /\ t.closed = s.closed
    BY <1>1, PlayEvents, StaysClosed
  <2> QED  BY <1>2, <1>7, <2>1
<1>8. ASSUME NEW paused \in BOOLEAN, Applied(Paused(s, paused)) PROVE PlayInv'
  <2>1. Play(Paused(s, paused)) /\ Paused(s, paused).closed = s.closed
    BY <1>1, PlayEvents, StaysClosed
  <2> QED  BY <1>2, <1>8, <2>1
<1>9. ASSUME NEW order \in 0 .. MaxOrder, NEW alive \in BOOLEAN, NEW paused \in BOOLEAN,
             LocalUpdate(order, alive, paused)
      PROVE  PlayInv'
  <2>1. s' = AfterEvents(TankOf(s, alive, paused), alive, paused) /\ handshakeComplete' = handshakeComplete
    BY <1>9 DEF LocalUpdate, AfterEvents, TankOf
  <2>2. s'.closed = s.closed
    BY <1>1, <2>1, LocalTank
  <2> QED  BY <1>1, <2>1, <2>2, PlayAfterUpdate DEF PlayInv
<1> QED  BY <1>3, <1>4, <1>5, <1>6, <1>7, <1>8, <1>9 DEF Packet

LEMMA PlayStep == IInv /\ PlayInv /\ [Next]_vars => PlayInv'
<1> SUFFICES ASSUME IInv, PlayInv, [Next]_vars PROVE PlayInv'
  OBVIOUS
<1>1. CASE UNCHANGED vars
  BY <1>1 DEF vars, PlayInv
<1>2. CASE Next
  BY <1>2, PlaySocketSteps, PlayPacketStep DEF Next, NextButKeys
<1> QED  BY <1>1, <1>2

\* A step of the keys is one of the session, or none of it.
LEMMA KeysAreSteps == ASSUME [KeyboardNext]_<<vars, keyVars>> PROVE [Next]_vars
<1>1. ASSUME NEW command, NEW phase, SendCommand(command, phase) PROVE [Next]_vars
  BY <1>1 DEF SendCommand, Next, NextButKeys
<1> QED  BY <1>1 DEF KeyboardNext, Press, Release, Next

\* A message for the tank is encoded only when the gate and the tank allow it, and
\* sending it changes neither.
LEMMA ActsStep ==
  ASSUME IInv, PlayInv, KeyboardNext
  PROVE  ActsInPlay'
<1>1. ASSUME NEW command \in Commands, NEW phase, SendCommand(command, phase) PROVE ActsInPlay'
  <2> DEFINE message == EncodeInput(command, phase)
  <2>1. CASE wire' = Nothing
    BY <2>1 DEF ActsInPlay, Nothing
  <2>2. CASE wire' # Nothing
    <3>1. wire' = [message |-> message, channel |-> InputChannel(command)]
      BY <1>1, <2>2 DEF SendCommand
    <3>2. message \in {"PlayerUpdate", "ShotBegin", "DropFlag"} =>
            command \in Gameplay /\ WholeState(command, phase) /\ s' = s
      BY <1>1, <2>2 DEF SendCommand, EncodeInput, Gameplay, vars
    <3>3. message = "Pause" => CanSendSessionInput("pause", phase) /\ ~s.paused /\ s' = s
      BY <1>1, <2>2 DEF SendCommand, EncodeInput, WholeState, vars
    <3>4. CASE message \in {"PlayerUpdate", "ShotBegin", "DropFlag"}
      <4>1. /\ s.joined /\ s.alive /\ ~s.paused /\ ~s.closed /\ s.phase # "closing" /\ s.physicsReady
        BY <3>2, <3>4 DEF WholeState, CanSendSessionInput
      <4>2. s.phase = "playing" /\ s.tankAlive /\ ~s.tankPaused
        BY <4>1 DEF IInv, Good, Gate, Phase, PlayInv, Play
      <4> QED  BY <3>1, <3>2, <3>4, <4>1, <4>2 DEF ActsInPlay
    <3>5. CASE message \notin {"PlayerUpdate", "ShotBegin", "DropFlag"}
      BY <3>1, <3>3, <3>5 DEF ActsInPlay, CanSendSessionInput
    <3> QED  BY <3>4, <3>5
  <2> QED  BY <2>1, <2>2
<1>2. wire' = Nothing => ActsInPlay'
  BY DEF ActsInPlay, Nothing
<1> QED  BY <1>1, <1>2 DEF KeyboardNext, Press, Release

\* Nothing is sent for a tank that is not in play, with any number of keys held.
THEOREM KeysActInPlay == KeyboardSpec => []ActsInPlay
<1> DEFINE KInv == IInv /\ PlayInv /\ ActsInPlay
<1>1. KeyboardInit => KInv
  <2> SUFFICES ASSUME KeyboardInit PROVE KInv
    OBVIOUS
  <2>1. IInv
    BY Initially DEF KeyboardInit
  <2>2. ~s.joined
    BY DEF KeyboardInit, Init
  <2> QED  BY <2>1, <2>2 DEF KeyboardInit, PlayInv, Play, ActsInPlay, Nothing
<1>2. KInv /\ [KeyboardNext]_<<vars, keyVars>> => KInv'
  <2> SUFFICES ASSUME KInv, [KeyboardNext]_<<vars, keyVars>> PROVE KInv'
    OBVIOUS
  <2>1. IInv' /\ PlayInv'
    BY KeysAreSteps, NextStep, PlayStep
  <2>2. ActsInPlay'
    BY ActsStep DEF ActsInPlay, vars, keyVars
  <2> QED  BY <2>1, <2>2
<1>3. KInv => ActsInPlay
  OBVIOUS
<1> QED  BY <1>1, <1>2, <1>3, PTL DEF KeyboardSpec
=============================================================================
