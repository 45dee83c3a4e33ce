----------------------- MODULE GatewayRegistryProofs -----------------------
(***************************************************************************)
(* Proofs about GatewayRegistry, for every finite set of connections and   *)
(* all limits: the counts per address are exact, the limits hold, nothing  *)
(* is left when the listener has closed, and the registry implements the   *)
(* abstract SessionSlots.                                                  *)
(***************************************************************************)
EXTENDS GatewayRegistry, FiniteSetTheorems, TLAPS

\* Each conjunct of the invariant is one of the properties; together they are
\* inductive, LimitsHold by CountsExact and StoppedIsEmpty by TypeOK.
IInv == TypeOK /\ CountsExact /\ LimitsHold /\ DeadlineExact /\ StoppedIsEmpty

\* The sessions, those of an address and any part of them are finite.
LEMMA SessionsFinite ==
  ASSUME TypeOK
  PROVE  \A S \in SUBSET sessions : IsFiniteSet(S) /\ Cardinality(S) \in Nat
  <1>1. sessions \in SUBSET Conns
    BY DEF TypeOK
  <1>2. ASSUME NEW S \in SUBSET sessions
        PROVE  IsFiniteSet(S) /\ Cardinality(S) \in Nat
    <2>1. IsFiniteSet(S)
      BY <1>1, FS_Subset, RegistryAssumption DEF RegistryAssumption
    <2> QED
      BY <2>1, FS_CardinalityType
  <1> QED
    BY <1>2

LEMMA InitInv == Init => IInv
  <1> SUFFICES ASSUME Init PROVE IInv
    OBVIOUS
  <1> USE RegistryAssumption DEF Init, RegistryAssumption
  <1>1. TypeOK
    BY DEF TypeOK, ConnStates
  <1>2. \A ip \in Ips : SessionsOf(ip) = {}
    BY DEF SessionsOf
  <1>3. CountsExact
    BY <1>2, FS_EmptySet DEF CountsExact
  <1>4. LimitsHold
    BY <1>2, FS_EmptySet DEF LimitsHold
  <1>5. DeadlineExact
    BY DEF DeadlineExact, Live
  <1>6. StoppedIsEmpty
    BY DEF StoppedIsEmpty, Live
  <1> QED
    BY <1>1, <1>3, <1>4, <1>5, <1>6 DEF IInv

\* Whatever set of sessions leaves, the counts stay exact and the limits hold.
LEMMA LeaveCounts ==
  ASSUME IInv, NEW S \in SUBSET sessions, Leave(S), UNCHANGED clientIp
  PROVE  /\ sessionsByIp' \in [Ips -> Nat]
         /\ CountsExact' /\ LimitsHold'
  <1> DEFINE Gone(ip) == {c \in S : clientIp[c] = ip}
  <1>1. ASSUME NEW ip \in Ips
        PROVE  /\ Cardinality(SessionsOf(ip)') = Cardinality(SessionsOf(ip)) - Cardinality(Gone(ip))
               /\ Cardinality(SessionsOf(ip)') \in Nat
               /\ Cardinality(SessionsOf(ip)') <= Cardinality(SessionsOf(ip))
    <2>1. SessionsOf(ip)' = SessionsOf(ip) \ Gone(ip)
      BY DEF Leave, SessionsOf
    <2>2. SessionsOf(ip) \in SUBSET sessions /\ Gone(ip) = SessionsOf(ip) \cap Gone(ip)
      BY DEF SessionsOf
    <2>3. IsFiniteSet(SessionsOf(ip)) /\ SessionsOf(ip) \ Gone(ip) \in SUBSET sessions
      BY <2>2, SessionsFinite DEF IInv
    <2>4. Cardinality(SessionsOf(ip) \ Gone(ip))
            = Cardinality(SessionsOf(ip)) - Cardinality(SessionsOf(ip) \cap Gone(ip))
      BY <2>3, FS_Difference
    <2>5. Cardinality(SessionsOf(ip) \ Gone(ip)) \in Nat
      BY <2>3, SessionsFinite DEF IInv
    <2>6. Cardinality(SessionsOf(ip) \ Gone(ip)) <= Cardinality(SessionsOf(ip))
      BY <2>3, FS_Subset
    <2> QED
      BY <2>1, <2>2, <2>4, <2>5, <2>6
  <1>2. \A ip \in Ips : sessionsByIp'[ip] = Cardinality(SessionsOf(ip)')
    <2> SUFFICES ASSUME NEW ip \in Ips PROVE sessionsByIp'[ip] = Cardinality(SessionsOf(ip)')
      OBVIOUS
    <2>1. sessionsByIp'[ip] = IF sessionsByIp[ip] - Cardinality(Gone(ip)) <= 0
                                THEN 0 ELSE sessionsByIp[ip] - Cardinality(Gone(ip))
      BY DEF Leave, Decremented
    <2>2. sessionsByIp[ip] = Cardinality(SessionsOf(ip))
      BY DEF IInv, CountsExact
    <2> HIDE DEF Gone
    <2> QED
      BY <1>1, <2>1, <2>2
  <1>3. sessionsByIp' \in [Ips -> Nat]
    <2>1. DOMAIN sessionsByIp' = Ips /\ sessionsByIp' = [ip \in Ips |-> sessionsByIp'[ip]]
      BY DEF Leave, Decremented
    <2> QED
      BY <1>1, <1>2, <2>1
  <1>4. CountsExact'
    BY <1>2 DEF CountsExact
  <1>5. LimitsHold'
    <2>1. sessions' \in SUBSET sessions
      BY DEF Leave
    <2>2. Cardinality(sessions') <= Cardinality(sessions)
      BY <2>1, SessionsFinite, FS_Subset DEF IInv
    <2>3. Cardinality(sessions') \in Nat /\ Cardinality(sessions) \in Nat
      BY <2>1, SessionsFinite DEF IInv
    <2>4. Cardinality(sessions)' <= MaxSessions
      BY <2>2, <2>3, RegistryAssumption DEF IInv, LimitsHold, RegistryAssumption
    <2>5. ASSUME NEW ip \in Ips PROVE Cardinality(SessionsOf(ip)') <= MaxSessionsPerIp
      <3>1. SessionsOf(ip) \in SUBSET sessions
        BY DEF SessionsOf
      <3>2. Cardinality(SessionsOf(ip)) <= MaxSessionsPerIp /\ Cardinality(SessionsOf(ip)) \in Nat
        BY <3>1, SessionsFinite DEF IInv, LimitsHold
      <3>3. /\ Cardinality(SessionsOf(ip)') \in Nat
            /\ Cardinality(SessionsOf(ip)') <= Cardinality(SessionsOf(ip))
        BY <1>1
      <3>4. MaxSessionsPerIp \in Nat
        BY RegistryAssumption DEF RegistryAssumption
      <3> QED
        BY <3>2, <3>3, <3>4
    <2> QED
      BY <2>4, <2>5 DEF LimitsHold
  <1> QED
    BY <1>3, <1>4, <1>5

\* A step that leaves the registry alone keeps its counts.
LEMMA SameCounts ==
  ASSUME IInv, UNCHANGED <<sessions, clientIp, sessionsByIp>>
  PROVE  CountsExact' /\ LimitsHold' /\ sessionsByIp' \in [Ips -> Nat]
  BY DEF IInv, TypeOK, CountsExact, LimitsHold, SessionsOf

\* An admitted session is counted once, and there was room for it.
LEMMA RegisterCounts ==
  ASSUME IInv, NEW c \in Conns, c \notin sessions, Admits(clientIp[c]),
         sessions' = sessions \cup {c}, UNCHANGED clientIp,
         sessionsByIp' = [sessionsByIp EXCEPT ![clientIp[c]] = @ + 1]
  PROVE  CountsExact' /\ LimitsHold' /\ sessionsByIp' \in [Ips -> Nat]
  <1>1. clientIp[c] \in Ips /\ sessionsByIp \in [Ips -> Nat]
    BY DEF IInv, TypeOK
  <1>2. ASSUME NEW ip \in Ips
        PROVE  /\ sessionsByIp'[ip] = Cardinality(SessionsOf(ip)')
               /\ Cardinality(SessionsOf(ip)') <= MaxSessionsPerIp
    <2>1. /\ sessionsByIp[ip] = Cardinality(SessionsOf(ip))
          /\ Cardinality(SessionsOf(ip)) <= MaxSessionsPerIp
          /\ IsFiniteSet(SessionsOf(ip)) /\ Cardinality(SessionsOf(ip)) \in Nat
      BY SessionsFinite DEF IInv, CountsExact, LimitsHold, SessionsOf
    <2>2. CASE ip = clientIp[c]
      <3>1. SessionsOf(ip)' = SessionsOf(ip) \cup {c} /\ c \notin SessionsOf(ip)
        BY <2>2 DEF SessionsOf
      <3>2. Cardinality(SessionsOf(ip)') = Cardinality(SessionsOf(ip)) + 1
        BY <2>1, <3>1, FS_AddElement
      <3>3. sessionsByIp'[ip] = sessionsByIp[ip] + 1 /\ sessionsByIp[ip] < MaxSessionsPerIp
        BY <1>1, <2>2 DEF Admits
      <3> QED
        BY <2>1, <3>2, <3>3, RegistryAssumption DEF RegistryAssumption
    <2>3. CASE ip # clientIp[c]
      <3>1. SessionsOf(ip)' = SessionsOf(ip)
        BY <2>3 DEF SessionsOf
      <3>2. sessionsByIp'[ip] = sessionsByIp[ip]
        BY <1>1, <2>3
      <3> QED
        BY <2>1, <3>1, <3>2
    <2> QED
      BY <2>2, <2>3
  <1>3. Cardinality(sessions)' <= MaxSessions
    <2>1. IsFiniteSet(sessions) /\ Cardinality(sessions) \in Nat
      BY SessionsFinite DEF IInv
    <2>2. Cardinality(sessions') = Cardinality(sessions) + 1
      BY <2>1, FS_AddElement
    <2> QED
      BY <2>1, <2>2, RegistryAssumption DEF Admits, RegistryAssumption
  <1>4. sessionsByIp' \in [Ips -> Nat]
    BY <1>1
  <1> QED
    BY <1>2, <1>3, <1>4 DEF CountsExact, LimitsHold

-----------------------------------------------------------------------------
LEMMA NextInv == IInv /\ [Next]_vars => IInv'
  <1> SUFFICES ASSUME IInv, [Next]_vars PROVE IInv'
    OBVIOUS
  <1> USE DEF ConnStates, Live
  <1>1. CASE UNCHANGED vars \/ Start \/ Listening
    <2>1. UNCHANGED <<tls, conn, deadline, sessions, clientIp, sessionsByIp, idle>>
      BY <1>1 DEF vars, Start, Listening
    <2>2. TypeOK'
      BY <1>1, <2>1 DEF IInv, TypeOK, vars, Start, Listening
    <2>3. DeadlineExact' /\ StoppedIsEmpty'
      BY <1>1, <2>1 DEF IInv, DeadlineExact, StoppedIsEmpty, vars, Start, Listening
    <2> QED
      BY <2>1, <2>2, <2>3, SameCounts DEF IInv
  <1>2. CASE Stop
    <2>1. CountsExact' /\ LimitsHold' /\ sessionsByIp' \in [Ips -> Nat]
      BY <1>2, LeaveCounts DEF Stop
    <2>2. sessions' = {} /\ idle' = {} /\ UNCHANGED <<tls, clientIp>> /\ heartbeat' = FALSE
      BY <1>2 DEF Stop, Leave, IInv, TypeOK
    <2>3. conn' \in [Conns -> ConnStates] /\ deadline' \in [Conns -> BOOLEAN]
      BY <1>2 DEF Stop, Ended, IInv, TypeOK
    <2>4. ASSUME NEW c \in Conns
          PROVE  deadline'[c] <=> conn'[c] \in (IF tls THEN Live ELSE {"reading"})
      <3>1. /\ deadline[c] <=> conn[c] \in (IF tls THEN Live ELSE {"reading"})
            /\ c \in sessions => conn[c] \in {"bridge", "ended"}
        BY DEF IInv, TypeOK, DeadlineExact
      <3>2. CASE server = "listening"
        <4>1. conn'[c] = IF c \in sessions THEN "ended"
                         ELSE IF conn[c] = "answered" THEN "gone" ELSE conn[c]
          BY <1>2, <3>1, <3>2 DEF Stop
        <4>2. deadline' = [d \in Conns |-> deadline[d] /\ conn[d] # "answered"]
          BY <1>2, <3>2 DEF Stop
        <4>3. deadline'[c] <=> deadline[c] /\ conn[c] # "answered"
          BY ONLY <4>2, c \in Conns, Zenon
        <4> QED
          BY ONLY <3>1, <4>1, <4>3 DEF Live
      <3>3. CASE server # "listening"
        <4>1. /\ conn'[c] = IF c \in sessions THEN "ended" ELSE conn[c]
              /\ deadline'[c] = deadline[c]
          BY <1>2, <3>3 DEF Stop, Ended
        <4> QED
          BY <3>1, <4>1
      <3> QED
        BY <3>2, <3>3
    <2>5. server' \in {"new", "starting", "listening", "closing", "closed"}
      BY <1>2 DEF Stop, IInv, TypeOK
    <2>6. TypeOK'
      BY <2>1, <2>2, <2>3, <2>5 DEF IInv, TypeOK
    <2>7. DeadlineExact'
      BY <2>2, <2>4 DEF DeadlineExact
    <2>8. StoppedIsEmpty'
      BY <1>2, <2>2 DEF Stop, Ended, IInv, TypeOK, StoppedIsEmpty
    <2> QED
      BY <2>1, <2>6, <2>7, <2>8 DEF IInv
  <1>3. CASE Closed
    <2>1. UNCHANGED <<tls, conn, deadline, sessions, clientIp, sessionsByIp, idle>>
      BY <1>3 DEF Closed
    <2>2. TypeOK' /\ DeadlineExact'
      BY <1>3, <2>1 DEF IInv, TypeOK, DeadlineExact, Closed
    <2>3. StoppedIsEmpty'
      BY <1>3, <2>1 DEF IInv, TypeOK, StoppedIsEmpty, Closed, Drained
    <2> QED
      BY <2>1, <2>2, <2>3, SameCounts DEF IInv
  <1>4. CASE Heartbeat
    <2>1. CountsExact' /\ LimitsHold' /\ sessionsByIp' \in [Ips -> Nat]
      BY <1>4, LeaveCounts DEF Heartbeat, IInv, TypeOK
    <2>2. TypeOK'
      BY <1>4, <2>1 DEF Heartbeat, Leave, Ended, IInv, TypeOK
    <2>3. DeadlineExact' /\ StoppedIsEmpty'
      BY <1>4 DEF Heartbeat, Leave, Ended, IInv, TypeOK, DeadlineExact, StoppedIsEmpty
    <2> QED
      BY <2>1, <2>2, <2>3 DEF IInv
  <1>5. ASSUME NEW c \in Conns, Accept(c) \/ Request(c)
        PROVE  IInv'
    <2>1. UNCHANGED <<tls, server, sessions, clientIp, sessionsByIp, idle>>
      BY <1>5 DEF Accept, Request
    <2>2. c \notin sessions
      BY <1>5 DEF Accept, Request, IInv, TypeOK
    <2>3. TypeOK'
      BY <1>5, <2>1, <2>2 DEF Accept, Request, ClearHandshakeDeadline, IInv, TypeOK
    <2>4. DeadlineExact' /\ StoppedIsEmpty'
      BY <1>5, <2>1 DEF Accept, Request, ClearHandshakeDeadline, IInv, TypeOK,
                        DeadlineExact, StoppedIsEmpty
    <2> QED
      BY <2>1, <2>3, <2>4, SameCounts DEF IInv
  <1>6. ASSUME NEW c \in Conns, ConnectionLost(c) \/ HandshakeDeadline(c)
        PROVE  IInv'
    <2>1. CountsExact' /\ LimitsHold' /\ sessionsByIp' \in [Ips -> Nat]
      BY <1>6, LeaveCounts DEF ConnectionLost, HandshakeDeadline
    <2>2. TypeOK'
      BY <1>6, <2>1 DEF ConnectionLost, HandshakeDeadline, Leave, IInv, TypeOK
    <2>3. DeadlineExact' /\ StoppedIsEmpty'
      BY <1>6 DEF ConnectionLost, HandshakeDeadline, Leave, IInv, TypeOK, DeadlineExact, StoppedIsEmpty
    <2> QED
      BY <2>1, <2>2, <2>3 DEF IInv
  <1>7. ASSUME NEW c \in Conns, NEW fault \in Faults, Upgrade(c, fault)
        PROVE  IInv'
    <2>1. c \notin sessions /\ conn[c] \in {"reading", "answered"}
      BY <1>7 DEF Upgrade, IInv, TypeOK
    <2>2. CASE fault = "none" /\ Admits(clientIp[c])
      <3>1. CountsExact' /\ LimitsHold' /\ sessionsByIp' \in [Ips -> Nat]
        BY <1>7, <2>1, <2>2, RegisterCounts DEF Upgrade
      <3>2. TypeOK'
        BY <1>7, <2>1, <2>2, <3>1 DEF Upgrade, ClearHandshakeDeadline, IInv, TypeOK
      <3>3. DeadlineExact' /\ StoppedIsEmpty'
        BY <1>7, <2>1, <2>2 DEF Upgrade, ClearHandshakeDeadline, IInv, TypeOK, DeadlineExact, StoppedIsEmpty
      <3> QED
        BY <3>1, <3>2, <3>3 DEF IInv
    <2>3. CASE ~(fault = "none" /\ Admits(clientIp[c]))
      <3>1. UNCHANGED <<sessions, clientIp, sessionsByIp>>
        BY <1>7, <2>3 DEF Upgrade
      <3>2. TypeOK'
        BY <1>7, <2>1, <2>3 DEF Upgrade, ClearHandshakeDeadline, IInv, TypeOK
      <3>3. DeadlineExact' /\ StoppedIsEmpty'
        BY <1>7, <2>1, <2>3 DEF Upgrade, ClearHandshakeDeadline, IInv, TypeOK, DeadlineExact, StoppedIsEmpty
      <3> QED
        BY <3>1, <3>2, <3>3, SameCounts DEF IInv
    <2> QED
      BY <2>2, <2>3
  <1>8. ASSUME NEW c \in Conns, SessionCloses(c)
        PROVE  IInv'
    <2>1. CountsExact' /\ LimitsHold' /\ sessionsByIp' \in [Ips -> Nat]
      BY <1>8, LeaveCounts DEF SessionCloses
    <2>2. TypeOK'
      BY <1>8, <2>1 DEF SessionCloses, Leave, Ended, IInv, TypeOK
    <2>3. DeadlineExact' /\ StoppedIsEmpty'
      BY <1>8 DEF SessionCloses, Leave, Ended, IInv, TypeOK, DeadlineExact, StoppedIsEmpty
    <2> QED
      BY <2>1, <2>2, <2>3 DEF IInv
  <1>9. ASSUME NEW c \in Conns, CloseFrame(c) \/ FallsIdle(c) \/ Activity(c)
        PROVE  IInv'
    <2>1. UNCHANGED <<tls, server, deadline, sessions, clientIp, sessionsByIp>>
      BY <1>9 DEF CloseFrame, FallsIdle, Activity
    <2>2. TypeOK'
      BY <1>9, <2>1 DEF CloseFrame, FallsIdle, Activity, Ended, IInv, TypeOK
    <2>3. DeadlineExact' /\ StoppedIsEmpty'
      BY <1>9, <2>1
      DEF CloseFrame, FallsIdle, Activity, Ended, IInv, TypeOK, DeadlineExact, StoppedIsEmpty
    <2> QED
      BY <2>1, <2>2, <2>3, SameCounts DEF IInv
  <1> QED
    BY <1>1, <1>2, <1>3, <1>4, <1>5, <1>6, <1>7, <1>8, <1>9 DEF Next, ServerStep, ConnStep

-----------------------------------------------------------------------------
\* Type correctness, with every registered session on a socket that exists.
THEOREM TypeCorrect == Spec => []TypeOK
  <1>1. IInv => TypeOK
    BY DEF IInv
  <1> QED
    BY <1>1, InitInv, NextInv, PTL DEF Spec

\* The counts per address are exact, however sessions come and go.
THEOREM Counts == Spec => []CountsExact
  <1>1. IInv => CountsExact
    BY DEF IInv
  <1> QED
    BY <1>1, InitInv, NextInv, PTL DEF Spec

\* Neither limit is ever exceeded.
THEOREM Limits == Spec => []LimitsHold
  <1>1. IInv => LimitsHold
    BY DEF IInv
  <1> QED
    BY <1>1, InitInv, NextInv, PTL DEF Spec

\* Over plain HTTP the handshake timer is armed for exactly the connections
\* without a request, over TLS for every connection as long as it exists.
THEOREM Deadlines == Spec => []DeadlineExact
  <1>1. IInv => DeadlineExact
    BY DEF IInv
  <1> QED
    BY <1>1, InitInv, NextInv, PTL DEF Spec

\* A listener that reported its close has no session, and will have none.
THEOREM Stopped == Spec => []StoppedIsEmpty
  <1>1. IInv => StoppedIsEmpty
    BY DEF IInv
  <1> QED
    BY <1>1, InitInv, NextInv, PTL DEF Spec

-----------------------------------------------------------------------------
(* The refinement.  A grant is decided by the counters, so it takes        *)
(* CountsExact, and it may come while the listener closes, so it takes     *)
(* StoppedIsEmpty: a connection that can still ask keeps server.close()    *)
(* waiting.                                                                *)

\* SessionSlots counts with the Cardinality of its own instance of FiniteSets.
LEMMA SlotsCardinality == \A S : Slots!Cardinality(S) = Cardinality(S)
  BY DEF Slots!Cardinality, Cardinality

\* A step that neither admits nor reports the end is a Leave of the slots.
LEMMA LeavesSlots ==
  ASSUME UNCHANGED clientIp, sessions' \in SUBSET sessions,
         \A c \in Conns : conn'[c] \in {"none", "reading", "answered"}
                            => conn[c] \in {"none", "reading", "answered"},
         (server' = "closed") = (server = "closed")
  PROVE  Slots!Leave
  BY DEF Slots!Leave

\* The upgrade handler grants a slot or sees the connection leave.
LEMMA UpgradeSlots ==
  ASSUME IInv, NEW c \in Conns, NEW fault \in Faults, Upgrade(c, fault)
  PROVE  Slots!Grant(c) \/ Slots!Leave
  <1>1. /\ UNCHANGED <<server, clientIp>> /\ conn[c] \in {"reading", "answered"}
        /\ conn \in [Conns -> ConnStates]
    BY DEF Upgrade, IInv, TypeOK
  <1>2. CASE fault = "none" /\ Admits(clientIp[c])
    <2>1. conn' = [conn EXCEPT ![c] = "bridge"] /\ sessions' = sessions \cup {c}
      BY <1>2 DEF Upgrade
    <2>2. server # "closed"
      BY <1>1 DEF IInv, StoppedIsEmpty, Live
    <2>3. Cardinality(sessions) < MaxSessions
      BY <1>2 DEF Admits
    <2>4. Slots!HeldFrom(clientIp[c]) = SessionsOf(clientIp[c])
      BY DEF Slots!HeldFrom, SessionsOf
    <2>5. sessionsByIp[clientIp[c]] = Cardinality(SessionsOf(clientIp[c]))
      BY DEF IInv, TypeOK, CountsExact
    <2>6. Cardinality(Slots!HeldFrom(clientIp[c])) < MaxSessionsPerIp
      BY <1>2, <2>4, <2>5 DEF Admits
    <2>7. {d \in Conns : conn'[d] \in {"none", "reading", "answered"}}
            = {d \in Conns : conn[d] \in {"none", "reading", "answered"}} \ {c}
      BY <1>1, <2>1
    <2> QED
      BY <1>1, <2>1, <2>2, <2>3, <2>6, <2>7, SlotsCardinality DEF Slots!Grant
  <1>3. CASE ~(fault = "none" /\ Admits(clientIp[c]))
    <2>1. conn' = [conn EXCEPT ![c] = "ended"] /\ UNCHANGED sessions
      BY <1>3 DEF Upgrade
    <2> QED
      BY <1>1, <2>1, LeavesSlots
  <1> QED
    BY <1>2, <1>3

\* The registry implements SessionSlots: a session only for a connection that
\* had none, while fewer than the limits are open, and none once it is shut.
THEOREM SlotsRefinement == Spec => ImplementsSlots
  <1>1. Init => Slots!Init
    BY DEF Init, Slots!Init
  <1>2. IInv /\ [Next]_vars => [Slots!Next]_(Slots!slotVars)
    <2> SUFFICES ASSUME IInv, [Next]_vars PROVE Slots!Next \/ UNCHANGED Slots!slotVars
      OBVIOUS
    <2>1. conn \in [Conns -> ConnStates]
      BY DEF IInv, TypeOK
    <2>2. CASE Start \/ Listening
      BY <2>2, LeavesSlots DEF Start, Listening, Slots!Next
    <2>3. CASE Stop
      <3>1. UNCHANGED clientIp /\ sessions' \in SUBSET sessions
        BY <2>3 DEF Stop, Leave
      <3>2. (server' = "closed") = (server = "closed")
        BY <2>3 DEF Stop
      <3>3. \A c \in Conns : conn'[c] \in {"none", "reading", "answered"}
                               => conn[c] \in {"none", "reading", "answered"}
        BY <2>1, <2>3 DEF Stop, Ended
      <3> QED
        BY <3>1, <3>2, <3>3, LeavesSlots DEF Slots!Next
    <2>4. CASE Closed
      <3>1. sessions = {}
        BY <2>4 DEF Closed, Drained, IInv, TypeOK
      <3>2. Slots!Shut
        BY <2>4, <3>1 DEF Closed, Slots!Shut
      <3> QED
        BY <3>2 DEF Slots!Next
    <2>5. CASE Heartbeat
      BY <2>1, <2>5, LeavesSlots DEF Heartbeat, Leave, Ended, Slots!Next
    <2>6. ASSUME NEW c \in Conns, Accept(c) \/ Request(c)
          PROVE  Slots!Next
      <3>1. UNCHANGED <<server, sessions, clientIp>>
        BY <2>6 DEF Accept, Request
      <3>2. \A d \in Conns : conn'[d] \in {"none", "reading", "answered"}
                               => conn[d] \in {"none", "reading", "answered"}
        BY <2>1, <2>6 DEF Accept, Request
      <3> QED
        BY <3>1, <3>2, LeavesSlots DEF Slots!Next
    <2>7. ASSUME NEW c \in Conns,
                 ConnectionLost(c) \/ HandshakeDeadline(c) \/ SessionCloses(c) \/ CloseFrame(c)
          PROVE  Slots!Next
      <3>1. UNCHANGED <<server, clientIp>> /\ sessions' \in SUBSET sessions
        BY <2>7 DEF ConnectionLost, HandshakeDeadline, SessionCloses, CloseFrame, Leave
      <3>2. \A d \in Conns : conn'[d] \in {"none", "reading", "answered"}
                               => conn[d] \in {"none", "reading", "answered"}
        BY <2>1, <2>7 DEF ConnectionLost, HandshakeDeadline, SessionCloses, CloseFrame, Ended
      <3> QED
        BY <3>1, <3>2, LeavesSlots DEF Slots!Next
    <2>8. ASSUME NEW c \in Conns, FallsIdle(c) \/ Activity(c)
          PROVE  Slots!Next
      BY <2>8, LeavesSlots DEF FallsIdle, Activity, Slots!Next
    <2>9. ASSUME NEW c \in Conns, NEW fault \in Faults, Upgrade(c, fault)
          PROVE  Slots!Next
      BY <2>9, UpgradeSlots DEF Slots!Next
    <2>10. CASE UNCHANGED vars
      BY <2>10 DEF vars, Slots!slotVars
    <2> QED
      BY <2>2, <2>3, <2>4, <2>5, <2>6, <2>7, <2>8, <2>9, <2>10 DEF Next, ServerStep, ConnStep
  <1> QED
    BY <1>1, <1>2, InitInv, NextInv, PTL DEF Spec, ImplementsSlots, Slots!Spec

=============================================================================
