------------------------- MODULE BridgeSessionProofs -------------------------
(***************************************************************************)
(* Proofs about BridgeSession, for every set of payloads, every limit and  *)
(* every length of the greeting.                                           *)
(***************************************************************************)
EXTENDS BridgeSession, SequenceTheorems, WellFoundedInduction, TLAPS

(***************************************************************************)
(* The inductive invariant.  Its parts say, in turn: what a closed session *)
(* has given up; that the target's side grows only behind the gate; where  *)
(* the accepted payloads are; and what the browser has been sent.          *)
(***************************************************************************)
SlotInv ==
  /\ NothingLeftBehind
  /\ DeadlineCoversPreflight
  /\ targetEndpoint = "resolving" => tcp = "none"

GateInv ==
  /\ targetHandshakeVerified => Genuine
  /\ ~targetHandshakeVerified =>
       /\ udp = "none" /\ ~udpCallback /\ ~udpReady
       /\ toTarget = << >> /\ clientStream = << >>
       /\ ~closed => connecting

OrderInv ==
  /\ ~closed /\ connecting  => toTarget = << >> /\ pendingMessages = accepted
  /\ ~closed /\ ~connecting => toTarget = accepted /\ pendingMessages = << >>
  /\ closed => \E k \in 0..Len(accepted) : toTarget = SubSeq(accepted, 1, k)

StreamInv == GaplessClientStream

IInv == TypeOK /\ SlotInv /\ GateInv /\ OrderInv /\ StreamInv

-----------------------------------------------------------------------------
(* Lemmas about the operators of the model.                                *)

\* Bytes(from, to) is a sequence of to - from + 1 positions.
LEMMA BytesType ==
  ASSUME NEW from \in Nat \ {0}, NEW to \in Nat, from <= to + 1
  PROVE  /\ Bytes(from, to) \in Seq(Nat)
         /\ Len(Bytes(from, to)) = to - from + 1
         /\ \A i \in 1..(to - from + 1) : Bytes(from, to)[i] = from + i - 1
  <1> DEFINE n == to - from + 1
  <1>1. n \in Nat
    OBVIOUS
  <1>2. Bytes(from, to) \in [1..n -> Nat]
    BY <1>1 DEF Bytes
  <1>3. Bytes(from, to) \in Seq(Nat)
    BY <1>1, <1>2, SeqDef
  <1>4. DOMAIN Bytes(from, to) = 1..n /\ DOMAIN Bytes(from, to) = 1..Len(Bytes(from, to))
    BY <1>2, <1>3, LenProperties
  <1>5. Len(Bytes(from, to)) = n
    BY <1>1, <1>3, <1>4, LenProperties
  <1> QED
    BY <1>3, <1>5 DEF Bytes

\* A stream extended by the positions that follow it is again a stream from 1.
LEMMA BytesExtend ==
  ASSUME NEW n \in Nat, NEW m \in Nat, n <= m
  PROVE  Bytes(1, n) \o Bytes(n + 1, m) = Bytes(1, m)
  <1> DEFINE a == Bytes(1, n)
             b == Bytes(n + 1, m)
             c == Bytes(1, m)
  <1>1. /\ a \in Seq(Nat) /\ Len(a) = n
        /\ \A i \in 1..n : a[i] = i
    <2>1. 1 \in Nat \ {0} /\ 1 <= n + 1
      OBVIOUS
    <2>2. /\ a \in Seq(Nat) /\ Len(a) = n - 1 + 1
          /\ \A i \in 1..(n - 1 + 1) : a[i] = 1 + i - 1
      BY <2>1, BytesType
    <2> QED
      BY <2>2
  <1>2. /\ b \in Seq(Nat) /\ Len(b) = m - n
        /\ \A i \in 1..(m - n) : b[i] = n + i
    <2>1. n + 1 \in Nat \ {0} /\ n + 1 <= m + 1
      OBVIOUS
    <2>2. /\ b \in Seq(Nat) /\ Len(b) = m - (n + 1) + 1
          /\ \A i \in 1..(m - (n + 1) + 1) : b[i] = n + 1 + i - 1
      BY <2>1, BytesType
    <2> QED
      BY <2>2
  <1>3. /\ c \in Seq(Nat) /\ Len(c) = m
        /\ \A i \in 1..m : c[i] = i
    <2>1. 1 \in Nat \ {0} /\ 1 <= m + 1
      OBVIOUS
    <2>2. /\ c \in Seq(Nat) /\ Len(c) = m - 1 + 1
          /\ \A i \in 1..(m - 1 + 1) : c[i] = 1 + i - 1
      BY <2>1, BytesType
    <2> QED
      BY <2>2
  <1> HIDE DEF a, b, c
  <1>4. /\ a \o b \in Seq(Nat) /\ Len(a \o b) = m
        /\ \A i \in 1..m : (a \o b)[i] = IF i <= n THEN a[i] ELSE b[i - n]
    <2>1. n + (m - n) = m
      OBVIOUS
    <2>2. /\ a \o b \in Seq(Nat) /\ Len(a \o b) = Len(a) + Len(b)
          /\ \A i \in 1..(Len(a) + Len(b)) :
               (a \o b)[i] = IF i <= Len(a) THEN a[i] ELSE b[i - Len(a)]
      BY <1>1, <1>2, ConcatProperties
    <2>3. Len(a) = n /\ Len(b) = m - n
      BY <1>1, <1>2
    <2> QED
      BY <2>1, <2>2, <2>3, Zenon
  <1>5. ASSUME NEW i \in 1..m PROVE (a \o b)[i] = c[i]
    <2>1. CASE i <= n
      BY <1>1, <1>3, <1>4, <2>1
    <2>2. CASE ~(i <= n)
      <3>1. i - n \in 1..(m - n)
        BY <2>2
      <3>2. (a \o b)[i] = b[i - n] /\ b[i - n] = n + (i - n)
        BY <1>2, <1>4, <2>2, <3>1
      <3> QED
        BY <1>3, <3>2
    <2> QED
      BY <2>1, <2>2
  <1>6. a \o b = c
    BY <1>3, <1>4, <1>5, SeqEqual
  <1> QED
    BY <1>6 DEF a, b, c

-----------------------------------------------------------------------------
LEMMA InitInv == Init => IInv
  <1> SUFFICES ASSUME Init PROVE IInv
    OBVIOUS
  <1> USE BridgeAssumption DEF Init, BridgeAssumption
  <1>1. TypeOK
    <2>1. FlagsOK
      BY DEF FlagsOK
    <2>2. LinksOK
      BY DEF LinksOK
    <2>3. CountersOK
      BY DEF CountersOK
    <2>4. QueuesOK
      BY DEF QueuesOK
    <2> QED
      BY <2>1, <2>2, <2>3, <2>4 DEF TypeOK
  <1>2. SlotInv
    BY DEF SlotInv, NothingLeftBehind, DeadlineCoversPreflight, TcpLive, UdpOpen
  <1>3. GateInv
    BY DEF GateInv
  <1>4. OrderInv
    BY DEF OrderInv
  <1>5. StreamInv
    BY BytesExtend DEF StreamInv, GaplessClientStream, Bytes
  <1> QED
    BY <1>1, <1>2, <1>3, <1>4, <1>5 DEF IInv

\* Whatever an open session has written is a first part of what it accepted.
LEMMA WrittenIsPrefix ==
  ASSUME TypeOK, OrderInv
  PROVE  \E k \in 0..Len(accepted) : toTarget = SubSeq(accepted, 1, k)
  <1>1. accepted \in Seq(Payloads) /\ Len(accepted) \in Nat
    BY LenProperties DEF TypeOK, QueuesOK
  <1>2. SubSeq(accepted, 1, 0) = << >>
    BY SubSeqEmpty
  <1>3. SubSeq(accepted, 1, Len(accepted)) = accepted
    BY <1>1, SubSeqFull
  <1>4. CASE closed
    BY <1>4 DEF OrderInv
  <1>5. CASE ~closed /\ connecting
    <2>1. toTarget = SubSeq(accepted, 1, 0)
      BY <1>2, <1>5 DEF OrderInv
    <2> QED
      BY <1>1, <2>1
  <1>6. CASE ~closed /\ ~connecting
    <2>1. toTarget = SubSeq(accepted, 1, Len(accepted))
      BY <1>3, <1>6 DEF OrderInv
    <2> QED
      BY <1>1, <2>1
  <1> QED
    BY <1>4, <1>5, <1>6 DEF TypeOK

-----------------------------------------------------------------------------
(* Two kinds of step: the session ends, or only its links and clocks move. *)

\* A handler that ends the session, whatever it did first to the target's
\* side, keeps the invariant if it wrote no more than a first part of what was
\* accepted and sent the browser a stream without a gap.
LEMMA TeardownInv ==
  ASSUME IInv, ~closed,
         NEW tcpNow, NEW udpNow, Teardown(tcpNow, udpNow),
         tcpNow \in TcpLive \cup {"none", "destroyed", "closed"},
         udpNow \in UdpOpen \cup {"none", "closed"},
         ws' \in {"closing", "closed"}, sock' \in {"open", "ended", "dying", "gone"},
         targetEndpoint' \in {"resolving", "resolved", "none"},
         targetEndpoint' = "resolving" => tcpNow = "none",
         targetHandshakeVerified' \in BOOLEAN, udpCallback' \in BOOLEAN,
         badByte' = badByte, received' \in Nat, accepted' = accepted,
         toTarget' \in Seq(Payloads), clientStream' \in Seq(Nat),
         \E k \in 0..Len(accepted) : toTarget' = SubSeq(accepted, 1, k),
         clientStream' = Bytes(1, Len(clientStream')),
         targetHandshakeVerified' => Genuine,
         ~targetHandshakeVerified' => /\ udpNow = "none" /\ ~udpCallback'
                                      /\ toTarget' = << >> /\ clientStream' = << >>
  PROVE  IInv'
  <1> USE DEF Teardown
  <1>1. FlagsOK'
    BY DEF FlagsOK
  <1>2. LinksOK'
    BY DEF LinksOK, TcpLive, UdpOpen
  <1>3. CountersOK'
    BY BridgeAssumption
    DEF BridgeAssumption, IInv, TypeOK, CountersOK, SlotInv, NothingLeftBehind
  <1>4. QueuesOK'
    BY DEF IInv, TypeOK, QueuesOK
  <1>5. SlotInv'
    BY DEF IInv, TypeOK, CountersOK, SlotInv, NothingLeftBehind, DeadlineCoversPreflight,
           TcpLive, UdpOpen
  <1>6. GateInv'
    BY DEF GateInv, Genuine, UdpOpen
  <1>7. OrderInv'
    BY DEF OrderInv
  <1>8. StreamInv'
    BY DEF StreamInv, GaplessClientStream
  <1> QED
    BY <1>1, <1>2, <1>3, <1>4, <1>5, <1>6, <1>7, <1>8 DEF IInv, TypeOK

\* A step that only moves sockets and clocks keeps the invariant if it brings
\* no link of a closed session back.
LEMMA LinkStepInv ==
  ASSUME IInv, UNCHANGED <<session, target, history, udp, udpCallback>>,
         LinksOK', idle' \in 0..IdleLimit, tcpIdle' \in 0..IdleLimit,
         closed => ws' # "open" /\ tcp' \notin TcpLive,
         ~closed => ws' # "closed",
         WsWritable' => WsWritable,
         targetEndpoint' = "resolving" => tcp' = "none"
  PROVE  IInv'
  <1> USE DEF session, target, history
  <1>1. FlagsOK'
    BY DEF IInv, TypeOK, FlagsOK
  <1>2. CountersOK'
    BY DEF IInv, TypeOK, CountersOK
  <1>3. QueuesOK'
    BY DEF IInv, TypeOK, QueuesOK
  <1>4. SlotInv'
    BY DEF IInv, SlotInv, NothingLeftBehind, DeadlineCoversPreflight
  <1>5. GateInv'
    BY DEF IInv, GateInv, Genuine
  <1>6. OrderInv'
    BY DEF IInv, OrderInv
  <1>7. StreamInv'
    BY DEF IInv, StreamInv, GaplessClientStream
  <1> QED
    BY <1>1, <1>2, <1>3, <1>4, <1>5, <1>6, <1>7 DEF IInv, TypeOK

-----------------------------------------------------------------------------
(* The actions.                                                            *)

\* What every handler that leaves the target's side alone may rely on.
LEMMA OpenFacts ==
  ASSUME IInv
  PROVE  /\ \E k \in 0..Len(accepted) : toTarget = SubSeq(accepted, 1, k)
         /\ clientStream = Bytes(1, Len(clientStream))
         /\ targetHandshakeVerified => Genuine
         /\ ~targetHandshakeVerified => /\ udp = "none" /\ ~udpCallback
                                        /\ toTarget = << >> /\ clientStream = << >>
  BY WrittenIsPrefix DEF IInv, GateInv, StreamInv, GaplessClientStream

LEMMA EndClientFacts ==
  ASSUME IInv, EndClient
  PROVE  ws' \in {"closing", "closed"} /\ sock' \in {"open", "ended", "dying", "gone"}
  BY DEF IInv, TypeOK, LinksOK, EndClient

LEMMA ShutInv == ASSUME IInv, Shut PROVE IInv'
  <1>1. /\ tcp \in TcpLive \cup {"none", "destroyed", "closed"}
        /\ udp \in UdpOpen \cup {"none", "closed"}
        /\ targetEndpoint \in {"resolving", "resolved", "none"}
        /\ targetEndpoint = "resolving" => tcp = "none"
        /\ targetHandshakeVerified \in BOOLEAN /\ udpCallback \in BOOLEAN
        /\ received \in Nat /\ toTarget \in Seq(Payloads) /\ clientStream \in Seq(Nat)
    BY DEF IInv, TypeOK, FlagsOK, LinksOK, CountersOK, QueuesOK, SlotInv
  <1>2. /\ ~closed /\ Teardown(tcp, udp) /\ EndClient
        /\ UNCHANGED <<targetHandshakeVerified, targetEndpoint, udpCallback, badByte,
                       received, accepted, toTarget, clientStream>>
    BY DEF Shut, target, history
  <1> QED
    BY <1>1, <1>2, OpenFacts, EndClientFacts, TeardownInv

LEMMA ClientCloseFrameInv == ASSUME IInv, ClientCloseFrame PROVE IInv'
  <1>1. LinksOK' /\ idle' \in 0..IdleLimit /\ tcpIdle' \in 0..IdleLimit
    BY DEF ClientCloseFrame, IInv, TypeOK, LinksOK, CountersOK, links, clocks
  <1> QED
    BY <1>1, LinkStepInv
    DEF ClientCloseFrame, IInv, SlotInv, NothingLeftBehind, WsWritable, links, clocks

LEMMA SockLostInv == ASSUME IInv, SockLost PROVE IInv'
  <1>1. LinksOK' /\ idle' \in 0..IdleLimit /\ tcpIdle' \in 0..IdleLimit
    BY DEF SockLost, IInv, TypeOK, LinksOK, CountersOK, links, clocks
  <1> QED
    BY <1>1, LinkStepInv
    DEF SockLost, IInv, SlotInv, NothingLeftBehind, WsWritable, links, clocks

LEMMA SockEventInv == ASSUME IInv, SockEvent PROVE IInv'
  <1>1. CASE closed
    <2>1. LinksOK' /\ idle' \in 0..IdleLimit /\ tcpIdle' \in 0..IdleLimit
      BY <1>1 DEF SockEvent, IInv, TypeOK, LinksOK, CountersOK, links, clocks
    <2> QED
      BY <1>1, <2>1, LinkStepInv
      DEF SockEvent, IInv, SlotInv, NothingLeftBehind, WsWritable, links, clocks
  <1>2. CASE ~closed
    <2>1. /\ tcp \in TcpLive \cup {"none", "destroyed", "closed"}
          /\ udp \in UdpOpen \cup {"none", "closed"}
          /\ targetEndpoint \in {"resolving", "resolved", "none"}
          /\ targetEndpoint = "resolving" => tcp = "none"
          /\ targetHandshakeVerified \in BOOLEAN /\ udpCallback \in BOOLEAN
          /\ received \in Nat /\ toTarget \in Seq(Payloads) /\ clientStream \in Seq(Nat)
      BY DEF IInv, TypeOK, FlagsOK, LinksOK, CountersOK, QueuesOK, SlotInv
    <2>2. /\ Teardown(tcp, udp) /\ ws' = "closed" /\ sock' = "gone"
          /\ UNCHANGED <<targetHandshakeVerified, targetEndpoint, udpCallback, badByte,
                         received, accepted, toTarget, clientStream>>
      BY <1>2 DEF SockEvent, target, history
    <2> QED
      BY <1>2, <2>1, <2>2, OpenFacts, TeardownInv
  <1> QED
    BY <1>1, <1>2

LEMMA ResolveTargetInv == ASSUME IInv, ResolveTarget PROVE IInv'
  <1>1. targetEndpoint = "resolving" /\ tcp = "none" /\ UNCHANGED <<target, history>>
    BY DEF ResolveTarget, IInv, SlotInv
  <1>2. CASE /\ targetEndpoint' = "resolved" /\ tcp' = "connecting" /\ tcpIdle' = 0 /\ ~closed
             /\ UNCHANGED <<session, udp, udpCallback, client, idle>>
    <2>1. LinksOK' /\ idle' \in 0..IdleLimit /\ tcpIdle' \in 0..IdleLimit
      BY <1>2, BridgeAssumption
      DEF BridgeAssumption, IInv, TypeOK, LinksOK, CountersOK, client, TcpLive
    <2> QED
      BY <1>1, <1>2, <2>1, LinkStepInv DEF IInv, SlotInv, NothingLeftBehind, WsWritable, client
  <1>3. CASE /\ targetEndpoint' = "none"
             /\ UNCHANGED <<session, tcp, udp, udpCallback, client, clocks>>
    <2>1. LinksOK' /\ idle' \in 0..IdleLimit /\ tcpIdle' \in 0..IdleLimit
      BY <1>3 DEF IInv, TypeOK, LinksOK, CountersOK, client, clocks
    <2> QED
      BY <1>1, <1>3, <2>1, LinkStepInv DEF IInv, SlotInv, NothingLeftBehind, WsWritable, client
  <1>4. CASE /\ ~closed /\ targetEndpoint' = "none" /\ Teardown(tcp, udp) /\ EndClient
             /\ UNCHANGED <<targetHandshakeVerified, udpCallback>>
    <2>1. /\ udp \in UdpOpen \cup {"none", "closed"}
          /\ targetHandshakeVerified \in BOOLEAN /\ udpCallback \in BOOLEAN
          /\ received \in Nat /\ toTarget \in Seq(Payloads) /\ clientStream \in Seq(Nat)
      BY DEF IInv, TypeOK, FlagsOK, LinksOK, CountersOK, QueuesOK
    <2>2. UNCHANGED <<badByte, received, accepted, toTarget, clientStream>>
      BY <1>1 DEF target, history
    <2> QED
      BY <1>1, <1>4, <2>1, <2>2, OpenFacts, EndClientFacts, TeardownInv
  <1> QED
    BY <1>2, <1>3, <1>4 DEF ResolveTarget, StillWanted

LEMMA TcpConnectInv == ASSUME IInv, TcpConnect PROVE IInv'
  <1>1. LinksOK' /\ idle' \in 0..IdleLimit /\ tcpIdle' \in 0..IdleLimit
    BY BridgeAssumption
    DEF BridgeAssumption, TcpConnect, IInv, TypeOK, LinksOK, CountersOK, client, TcpLive
  <1> QED
    BY <1>1, LinkStepInv
    DEF TcpConnect, IInv, SlotInv, NothingLeftBehind, WsWritable, client, TcpLive

LEMMA TcpEndInv == ASSUME IInv, TcpEnd PROVE IInv'
  <1>1. LinksOK' /\ idle' \in 0..IdleLimit /\ tcpIdle' \in 0..IdleLimit
    BY DEF TcpEnd, IInv, TypeOK, LinksOK, CountersOK, client, clocks, TcpLive
  <1> QED
    BY <1>1, LinkStepInv
    DEF TcpEnd, IInv, SlotInv, NothingLeftBehind, WsWritable, client, TcpLive

LEMMA TcpClosedInv == ASSUME IInv, TcpClosed PROVE IInv'
  <1>1. CASE closed
    <2>1. LinksOK' /\ idle' \in 0..IdleLimit /\ tcpIdle' \in 0..IdleLimit
      BY <1>1 DEF TcpClosed, IInv, TypeOK, LinksOK, CountersOK, client, clocks
    <2> QED
      BY <1>1, <2>1, LinkStepInv
      DEF TcpClosed, IInv, SlotInv, NothingLeftBehind, WsWritable, client, TcpLive
  <1>2. CASE ~closed
    <2>1. /\ udp \in UdpOpen \cup {"none", "closed"}
          /\ targetEndpoint \in {"resolving", "resolved", "none"}
          /\ targetEndpoint # "resolving"
          /\ targetHandshakeVerified \in BOOLEAN /\ udpCallback \in BOOLEAN
          /\ received \in Nat /\ toTarget \in Seq(Payloads) /\ clientStream \in Seq(Nat)
      BY DEF TcpClosed, IInv, TypeOK, FlagsOK, LinksOK, CountersOK, QueuesOK, SlotInv
    <2>2. /\ Teardown("closed", udp) /\ EndClient
          /\ UNCHANGED <<targetHandshakeVerified, targetEndpoint, udpCallback, badByte,
                         received, accepted, toTarget, clientStream>>
      BY <1>2 DEF TcpClosed, target, history
    <2> QED
      BY <1>2, <2>1, <2>2, OpenFacts, EndClientFacts, TeardownInv
  <1> QED
    BY <1>1, <1>2

LEMMA ElapseInv == ASSUME IInv, Elapse PROVE IInv'
  <1>1. LinksOK' /\ idle' \in 0..IdleLimit /\ tcpIdle' \in 0..IdleLimit
    BY BridgeAssumption
    DEF BridgeAssumption, Elapse, IInv, TypeOK, LinksOK, CountersOK, links, client
  <1> QED
    BY <1>1, LinkStepInv
    DEF Elapse, IInv, SlotInv, NothingLeftBehind, WsWritable, links, client

LEMMA UdpMessageInv == ASSUME IInv, UdpMessage PROVE IInv'
  <1>1. CASE idle' = 0 /\ UNCHANGED <<session, links, client, tcpIdle, target, history>>
    <2>1. LinksOK' /\ idle' \in 0..IdleLimit /\ tcpIdle' \in 0..IdleLimit
      BY <1>1, BridgeAssumption
      DEF BridgeAssumption, IInv, TypeOK, LinksOK, CountersOK, links, client
    <2> QED
      BY <1>1, <2>1, LinkStepInv
      DEF IInv, SlotInv, NothingLeftBehind, WsWritable, links, client
  <1> QED
    BY <1>1, ShutInv DEF UdpMessage

\* A payload that is forwarded or queued: one more at the end of both sides.
LEMMA ClientMessageInv ==
  ASSUME IInv, NEW p \in Payloads, ClientMessage(p)
  PROVE  IInv'
  <1>1. CASE Shut
    BY <1>1, ShutInv
  <1>2. CASE /\ connecting
             /\ pendingMessages' = Append(pendingMessages, p)
             /\ pendingBytes' = pendingBytes + Size[p]
             /\ accepted' = Append(accepted, p)
             /\ idle' = 0
             /\ UNCHANGED <<closed, connecting, udpReady, targetHandshakeVerified,
                            targetHandshakeTimer, released, links, client, tcpIdle,
                            target, toTarget, clientStream>>
    <2> USE <1>2 DEF links, client, target
    <2>1. ~closed
      BY DEF ClientMessage, IInv, SlotInv, NothingLeftBehind
    <2>2. FlagsOK' /\ LinksOK'
      BY DEF IInv, TypeOK, FlagsOK, LinksOK
    <2>3. CountersOK'
      BY BridgeAssumption DEF BridgeAssumption, IInv, TypeOK, CountersOK
    <2>4. QueuesOK'
      BY DEF IInv, TypeOK, QueuesOK
    <2>5. SlotInv'
      BY <2>1 DEF IInv, SlotInv, NothingLeftBehind, DeadlineCoversPreflight
    <2>6. GateInv'
      BY DEF IInv, GateInv, Genuine
    <2>7. OrderInv'
      BY <2>1 DEF IInv, OrderInv
    <2>8. StreamInv'
      BY DEF IInv, StreamInv, GaplessClientStream, WsWritable
    <2> QED
      BY <2>2, <2>3, <2>4, <2>5, <2>6, <2>7, <2>8 DEF IInv, TypeOK
  <1>3. CASE /\ ~connecting
             /\ toTarget' = Append(toTarget, p)
             /\ accepted' = Append(accepted, p)
             /\ idle' = 0
             /\ tcpIdle' = IF Channel[p] = "tcp" THEN 0 ELSE tcpIdle
             /\ RelayReady
             /\ UNCHANGED <<session, links, client, target, clientStream>>
    <2> USE <1>3 DEF session, links, client, target, RelayReady
    <2>1. ~closed
      BY DEF ClientMessage, IInv, SlotInv, NothingLeftBehind
    <2>2. FlagsOK' /\ LinksOK'
      BY DEF IInv, TypeOK, FlagsOK, LinksOK
    <2>3. CountersOK'
      BY BridgeAssumption DEF BridgeAssumption, IInv, TypeOK, CountersOK
    <2>4. QueuesOK'
      BY DEF IInv, TypeOK, QueuesOK
    <2>5. SlotInv'
      BY DEF IInv, SlotInv, NothingLeftBehind, DeadlineCoversPreflight
    <2>6. GateInv'
      BY DEF IInv, GateInv, Genuine
    <2>7. OrderInv'
      BY <2>1 DEF IInv, OrderInv
    <2>8. StreamInv'
      BY DEF IInv, StreamInv, GaplessClientStream, WsWritable
    <2> QED
      BY <2>2, <2>3, <2>4, <2>5, <2>6, <2>7, <2>8 DEF IInv, TypeOK
  <1> QED
    BY <1>1, <1>2, <1>3 DEF ClientMessage

\* The flush: all of what is held, or a first part of it and then the end.
LEMMA FlushInv ==
  ASSUME IInv, ~closed, connecting, targetHandshakeVerified,
         NEW udpNow \in UdpOpen \cup {"none", "closed"}, Flush(udpNow), udpCallback' = FALSE,
         UNCHANGED <<targetHandshakeVerified, targetEndpoint, target, accepted, clientStream>>
  PROVE  IInv'
  <1> USE DEF target
  <1>1. PICK k \in 0..Len(pendingMessages) :
          /\ toTarget' = toTarget \o SubSeq(pendingMessages, 1, k)
          /\ \/ /\ k = Len(pendingMessages)
                /\ connecting' = FALSE /\ udpReady' = TRUE
                /\ pendingMessages' = << >> /\ pendingBytes' = 0
                /\ udp' = udpNow
                /\ idle' = 0 /\ tcpIdle' = 0
                /\ UNCHANGED <<closed, targetHandshakeTimer, released, tcp, client>>
             \/ Teardown(tcp, udpNow) /\ EndClient
    BY DEF Flush
  <1>2. toTarget = << >> /\ pendingMessages = accepted /\ accepted \in Seq(Payloads)
    BY DEF IInv, OrderInv, TypeOK, QueuesOK
  <1>3. toTarget' = SubSeq(accepted, 1, k) /\ SubSeq(accepted, 1, k) \in Seq(Payloads)
    <2>1. SubSeq(accepted, 1, k) \in Seq(Payloads)
      <3>1. \A i \in 1..k : i \in 1..Len(accepted)
        BY <1>1, <1>2, LenProperties
      <3> QED
        BY <1>2, <3>1, SubSeqProperties, LenProperties
    <2> QED
      BY <1>1, <1>2, <2>1, ConcatEmptySeq
  <1>4. CASE /\ k = Len(pendingMessages)
             /\ connecting' = FALSE /\ udpReady' = TRUE
             /\ pendingMessages' = << >> /\ pendingBytes' = 0
             /\ udp' = udpNow
             /\ idle' = 0 /\ tcpIdle' = 0
             /\ UNCHANGED <<closed, targetHandshakeTimer, released, tcp, client>>
    <2> USE <1>4 DEF client
    <2>1. toTarget' = accepted
      BY <1>2, <1>3, SubSeqFull
    <2>2. FlagsOK' /\ LinksOK'
      BY DEF IInv, TypeOK, FlagsOK, LinksOK
    <2>3. CountersOK'
      BY BridgeAssumption DEF BridgeAssumption, IInv, TypeOK, CountersOK
    <2>4. QueuesOK'
      BY <1>2, <2>1 DEF IInv, TypeOK, QueuesOK
    <2>5. SlotInv'
      BY DEF IInv, SlotInv, NothingLeftBehind, DeadlineCoversPreflight
    <2>6. GateInv'
      BY DEF IInv, GateInv, Genuine
    <2>7. OrderInv'
      BY <2>1 DEF IInv, OrderInv
    <2>8. StreamInv'
      BY DEF IInv, StreamInv, GaplessClientStream, WsWritable
    <2> QED
      BY <2>2, <2>3, <2>4, <2>5, <2>6, <2>7, <2>8 DEF IInv, TypeOK
  <1>5. CASE Teardown(tcp, udpNow) /\ EndClient
    <2>1. /\ tcp \in TcpLive \cup {"none", "destroyed", "closed"}
          /\ targetEndpoint' \in {"resolving", "resolved", "none"}
          /\ targetEndpoint' = "resolving" => tcp = "none"
          /\ targetHandshakeVerified' \in BOOLEAN /\ udpCallback' \in BOOLEAN
          /\ received' \in Nat /\ clientStream' \in Seq(Nat) /\ badByte' = badByte
      BY DEF IInv, TypeOK, FlagsOK, LinksOK, CountersOK, QueuesOK, SlotInv
    <2>2. \E j \in 0..Len(accepted) : toTarget' = SubSeq(accepted, 1, j)
      BY <1>2, <1>3
    <2>3. /\ toTarget' \in Seq(Payloads) /\ accepted' = accepted
          /\ clientStream' = Bytes(1, Len(clientStream'))
          /\ targetHandshakeVerified' => Genuine
      BY <1>3, OpenFacts
    <2>4. ws' \in {"closing", "closed"} /\ sock' \in {"open", "ended", "dying", "gone"}
      BY <1>5, EndClientFacts
    <2>5. ~targetHandshakeVerified' => /\ udpNow = "none" /\ ~udpCallback'
                                       /\ toTarget' = << >> /\ clientStream' = << >>
      OBVIOUS
    <2> QED
      BY <1>5, <2>1, <2>2, <2>3, <2>4, <2>5, TeardownInv
  <1> QED
    BY <1>1, <1>4, <1>5

LEMMA UdpConnectCallbackInv == ASSUME IInv, UdpConnectCallback PROVE IInv'
  <1> DEFINE Now(outcome) == IF udp = "connecting" THEN outcome ELSE udp
  <1>1. targetHandshakeVerified /\ udpCallback
    BY DEF UdpConnectCallback, IInv, TypeOK, FlagsOK, GateInv
  <1>2. PICK outcome \in {"connected", "failed"} :
          IF closed \/ ~connecting \/ ~targetHandshakeVerified
            THEN /\ udpReady' = TRUE /\ udp' = Now(outcome) /\ idle' = 0
                 /\ UNCHANGED <<closed, connecting, targetHandshakeTimer,
                                pendingMessages, pendingBytes, released, tcp,
                                client, tcpIdle, toTarget>>
            ELSE Flush(Now(outcome))
    BY DEF UdpConnectCallback
  <1>3. Now(outcome) \in UdpOpen \cup {"none", "closed"}
    BY DEF IInv, TypeOK, LinksOK, UdpOpen
  <1>4. /\ udpCallback' = FALSE
        /\ UNCHANGED <<targetHandshakeVerified, targetEndpoint, target, accepted, clientStream>>
    BY DEF UdpConnectCallback
  <1>5. CASE closed \/ ~connecting
    <2>1. /\ udpReady' = TRUE /\ udp' = Now(outcome) /\ idle' = 0
          /\ UNCHANGED <<closed, connecting, targetHandshakeTimer, pendingMessages,
                         pendingBytes, released, tcp, client, tcpIdle, toTarget>>
      BY <1>2, <1>5
    <2> USE <1>1, <1>3, <1>4, <2>1 DEF client, target
    <2>2. FlagsOK' /\ LinksOK'
      BY DEF IInv, TypeOK, FlagsOK, LinksOK
    <2>3. CountersOK'
      BY BridgeAssumption DEF BridgeAssumption, IInv, TypeOK, CountersOK
    <2>4. QueuesOK'
      BY DEF IInv, TypeOK, QueuesOK
    <2>5. SlotInv'
      BY DEF IInv, SlotInv, NothingLeftBehind, DeadlineCoversPreflight, UdpOpen
    <2>6. GateInv'
      BY DEF IInv, GateInv, Genuine
    <2>7. OrderInv'
      BY DEF IInv, OrderInv
    <2>8. StreamInv'
      BY DEF IInv, StreamInv, GaplessClientStream, WsWritable
    <2> QED
      BY <2>2, <2>3, <2>4, <2>5, <2>6, <2>7, <2>8 DEF IInv, TypeOK
  <1>6. CASE ~closed /\ connecting
    <2>1. Flush(Now(outcome))
      BY <1>1, <1>2, <1>6
    <2> HIDE DEF Now
    <2> QED
      BY <1>1, <1>3, <1>4, <1>6, <2>1, FlushInv
  <1> QED
    BY <1>5, <1>6 DEF IInv, TypeOK, FlagsOK

\* Data passed on by a verified session: the browser's stream grows by what
\* follows it, all of it or up to an envelope that ends the session.
LEMMA SendTargetDataInv ==
  ASSUME IInv, ~closed,
         NEW from \in Nat \ {0}, NEW to \in Nat, from <= to,
         NEW cuts, \A c \in cuts : c \in (from - 1)..to,
         NEW udpNow \in UdpOpen \cup {"none", "closed"},
         SendTargetData(from, to, cuts, udpNow),
         WsWritable => clientStream = Bytes(1, from - 1) /\ received' = to,
         received' \in Nat, targetHandshakeVerified', Genuine,
         targetHandshakeVerified' \in BOOLEAN, udpCallback' \in BOOLEAN,
         UNCHANGED <<targetEndpoint, badByte, accepted, toTarget>>
  PROVE  IInv'
  <1> DEFINE Sent(c) == IF WsWritable THEN clientStream \o Bytes(from, c) ELSE clientStream
  <1>1. ASSUME NEW c \in (from - 1)..to
        PROVE  /\ Sent(c) \in Seq(Nat) /\ Sent(c) = Bytes(1, Len(Sent(c)))
               /\ WsWritable => Len(Sent(c)) = c
    <2>1. CASE WsWritable
      <3>1. from - 1 \in Nat /\ c \in Nat /\ from - 1 <= c /\ from - 1 + 1 = from
        OBVIOUS
      <3>2. Bytes(1, from - 1) \o Bytes(from - 1 + 1, c) = Bytes(1, c)
        BY <3>1, BytesExtend
      <3>3. Sent(c) = Bytes(1, c)
        BY <2>1, <3>1, <3>2
      <3>4. 1 \in Nat \ {0} /\ 1 <= c + 1 /\ c - 1 + 1 = c
        BY <3>1
      <3>5. Bytes(1, c) \in Seq(Nat) /\ Len(Bytes(1, c)) = c - 1 + 1
        BY <3>1, <3>4, BytesType
      <3> QED
        BY <3>3, <3>4, <3>5
    <2>2. CASE ~WsWritable
      BY <2>2 DEF IInv, TypeOK, QueuesOK, StreamInv, GaplessClientStream
    <2> QED
      BY <2>1, <2>2
  <1>2. CASE /\ clientStream' = Sent(to)
             /\ udp' = udpNow /\ idle' = 0 /\ tcpIdle' = 0 /\ targetHandshakeTimer' = FALSE
             /\ UNCHANGED <<closed, connecting, udpReady, pendingMessages, pendingBytes,
                            released, tcp, client>>
    <2> USE <1>2 DEF client
    <2>1. clientStream' \in Seq(Nat) /\ clientStream' = Bytes(1, Len(clientStream'))
      <3>1. to \in (from - 1)..to
        OBVIOUS
      <3>2. Sent(to) \in Seq(Nat) /\ Sent(to) = Bytes(1, Len(Sent(to)))
        BY <1>1, <3>1
      <3> QED
        BY <3>2
    <2>2. WsWritable => Len(clientStream') = received'
      <3>1. to \in (from - 1)..to
        OBVIOUS
      <3>2. WsWritable => Len(Sent(to)) = to
        BY <1>1, <3>1
      <3> QED
        BY <3>2
    <2> HIDE DEF Sent
    <2>3. FlagsOK' /\ LinksOK'
      BY DEF IInv, TypeOK, FlagsOK, LinksOK
    <2>4. CountersOK'
      BY BridgeAssumption DEF BridgeAssumption, IInv, TypeOK, CountersOK
    <2>5. QueuesOK'
      BY <2>1 DEF IInv, TypeOK, QueuesOK
    <2>6. SlotInv'
      BY DEF IInv, SlotInv, NothingLeftBehind, DeadlineCoversPreflight
    <2>7. GateInv'
      BY DEF GateInv, Genuine
    <2>8. OrderInv'
      BY DEF IInv, OrderInv
    <2>9. StreamInv'
      BY <2>1, <2>2 DEF StreamInv, GaplessClientStream, WsWritable
    <2> QED
      BY <2>3, <2>4, <2>5, <2>6, <2>7, <2>8, <2>9 DEF IInv, TypeOK
  <1>3. CASE /\ \E c \in cuts : clientStream' = Sent(c)
             /\ Teardown(tcp, udpNow) /\ EndClient
    <2>1. PICK c \in cuts : clientStream' = Sent(c)
      BY <1>3
    <2>2. Sent(c) \in Seq(Nat) /\ Sent(c) = Bytes(1, Len(Sent(c)))
      BY <1>1
    <2>3. clientStream' \in Seq(Nat) /\ clientStream' = Bytes(1, Len(clientStream'))
      BY <2>1, <2>2
    <2>4. /\ tcp \in TcpLive \cup {"none", "destroyed", "closed"}
          /\ targetEndpoint' \in {"resolving", "resolved", "none"}
          /\ targetEndpoint' = "resolving" => tcp = "none"
          /\ toTarget' \in Seq(Payloads)
          /\ badByte' = badByte /\ accepted' = accepted
      BY DEF IInv, TypeOK, LinksOK, QueuesOK, SlotInv
    <2>5. \E k \in 0..Len(accepted) : toTarget' = SubSeq(accepted, 1, k)
      BY OpenFacts
    <2>6. ws' \in {"closing", "closed"} /\ sock' \in {"open", "ended", "dying", "gone"}
      BY <1>3, EndClientFacts
    <2> HIDE DEF Sent
    <2> QED
      BY <1>3, <2>3, <2>4, <2>5, <2>6, TeardownInv
  <1> QED
    BY <1>2, <1>3 DEF SendTargetData

LEMMA TcpDataInv ==
  ASSUME IInv, NEW n \in 1..MaxStream, TcpData(n)
  PROVE  IInv'
  <1> DEFINE end == received + n
  <1>1. /\ tcp = "open" /\ ~closed /\ received \in Nat /\ n \in Nat \ {0}
        /\ end \in Nat \ {0} /\ received < end
        /\ UNCHANGED <<targetEndpoint, badByte, accepted, toTarget>>
    BY BridgeAssumption DEF BridgeAssumption, TcpData, IInv, TypeOK, CountersOK
  <1>2. /\ badByte \in 1..(GreetingBytes + 1) /\ GreetingBytes \in Nat \ {0}
        /\ ChunkBytes \in Nat \ {0}
    BY BridgeAssumption DEF BridgeAssumption, IInv, TypeOK, CountersOK
  <1>3. CASE /\ targetHandshakeVerified
             /\ received' = IF WsWritable THEN end ELSE received
             /\ SendTargetData(received + 1, end, Cuts(received + 1, end), udp)
             /\ UNCHANGED <<targetHandshakeVerified, udpCallback>>
    <2>1. received + 1 \in Nat \ {0} /\ received + 1 <= end /\ received + 1 - 1 = received
      BY <1>1
    <2>2. \A c \in Cuts(received + 1, end) : c \in (received + 1 - 1)..end
      BY <1>1 DEF Cuts
    <2>3. udp \in UdpOpen \cup {"none", "closed"}
      BY DEF IInv, TypeOK, LinksOK
    <2>4. WsWritable => clientStream = Bytes(1, received + 1 - 1) /\ received' = end
      BY <1>1, <1>3, <2>1 DEF IInv, StreamInv, GaplessClientStream
    <2>5. /\ received' \in Nat /\ targetHandshakeVerified' /\ Genuine
          /\ targetHandshakeVerified' \in BOOLEAN /\ udpCallback' \in BOOLEAN
      BY <1>1, <1>3 DEF IInv, TypeOK, FlagsOK, GateInv
    <2> HIDE DEF end
    <2> QED
      BY <1>1, <1>3, <2>1, <2>2, <2>3, <2>4, <2>5, SendTargetDataInv
  <1>4. CASE /\ received' = end
             /\ Teardown(tcp, udp) /\ EndClient
             /\ UNCHANGED <<targetHandshakeVerified, udpCallback, clientStream>>
    <2>1. /\ udp \in UdpOpen \cup {"none", "closed"}
          /\ targetEndpoint' \in {"resolving", "resolved", "none"}
          /\ targetEndpoint' = "resolving" => tcp = "none"
          /\ targetHandshakeVerified' \in BOOLEAN /\ udpCallback' \in BOOLEAN
          /\ received' \in Nat /\ toTarget' \in Seq(Payloads) /\ clientStream' \in Seq(Nat)
      BY <1>1, <1>4 DEF IInv, TypeOK, FlagsOK, LinksOK, QueuesOK, SlotInv
    <2>2. /\ \E k \in 0..Len(accepted) : toTarget' = SubSeq(accepted, 1, k)
          /\ clientStream' = Bytes(1, Len(clientStream'))
          /\ targetHandshakeVerified' => Genuine
          /\ ~targetHandshakeVerified' => /\ udp = "none" /\ ~udpCallback'
                                          /\ toTarget' = << >> /\ clientStream' = << >>
      BY <1>1, <1>4, OpenFacts
    <2>3. ws' \in {"closing", "closed"} /\ sock' \in {"open", "ended", "dying", "gone"}
      BY <1>4, EndClientFacts
    <2>4. tcp \in TcpLive \cup {"none", "destroyed", "closed"}
      BY <1>1 DEF TcpLive
    <2> QED
      BY <1>1, <1>4, <2>1, <2>2, <2>3, <2>4, TeardownInv
  <1>5. CASE /\ ~targetHandshakeVerified
             /\ received' = end /\ tcpIdle' = 0
             /\ UNCHANGED <<session, tcp, udp, udpCallback, client, idle, clientStream>>
    <2> USE <1>1, <1>5 DEF session, client
    <2>1. FlagsOK' /\ LinksOK'
      BY DEF IInv, TypeOK, FlagsOK, LinksOK
    <2>2. CountersOK'
      BY BridgeAssumption DEF BridgeAssumption, IInv, TypeOK, CountersOK
    <2>3. QueuesOK'
      BY DEF IInv, TypeOK, QueuesOK
    <2>4. SlotInv'
      BY DEF IInv, SlotInv, NothingLeftBehind, DeadlineCoversPreflight
    <2>5. GateInv'
      BY DEF IInv, GateInv, Genuine
    <2>6. OrderInv'
      BY DEF IInv, OrderInv
    <2>7. StreamInv'
      BY DEF IInv, StreamInv, GaplessClientStream
    <2> QED
      BY <2>1, <2>2, <2>3, <2>4, <2>5, <2>6, <2>7 DEF IInv, TypeOK
  <1>6. CASE /\ ~targetHandshakeVerified
             /\ ~Mismatch(end) /\ ~Refused(end) /\ end >= GreetingBytes
             /\ received' = end
             /\ targetHandshakeVerified' = TRUE /\ udpCallback' = TRUE
             /\ SendTargetData(1, end, Cuts(1, GreetingBytes) \cup Cuts(GreetingBytes + 1, end),
                               "connecting")
    <2>1. Genuine
      BY <1>1, <1>2, <1>6 DEF Mismatch, Refused, Genuine
    <2>2. 1 \in Nat \ {0} /\ 1 <= end
      BY <1>1
    <2>3. \A c \in Cuts(1, GreetingBytes) \cup Cuts(GreetingBytes + 1, end) : c \in (1 - 1)..end
      BY <1>1, <1>2, <1>6 DEF Cuts
    <2>4. "connecting" \in UdpOpen \cup {"none", "closed"}
      BY DEF UdpOpen
    <2>5. clientStream = Bytes(1, 1 - 1)
      <3>1. clientStream = << >> /\ clientStream = Bytes(1, Len(clientStream))
        BY <1>6 DEF IInv, GateInv, StreamInv, GaplessClientStream
      <3> QED
        BY <3>1
    <2> HIDE DEF end
    <2> QED
      BY <1>1, <1>6, <2>1, <2>2, <2>3, <2>4, <2>5, SendTargetDataInv
  <1> QED
    BY <1>3, <1>4, <1>5, <1>6 DEF TcpData

-----------------------------------------------------------------------------
(* The theorems.                                                           *)

LEMMA NextInv == IInv /\ [Next]_vars => IInv'
  <1> SUFFICES ASSUME IInv, [Next]_vars PROVE IInv'
    OBVIOUS
  <1>1. CASE ClientStep
    BY <1>1, ClientCloseFrameInv, SockLostInv, SockEventInv, ShutInv, ClientMessageInv
    DEF ClientStep, WsClose
  <1>2. CASE TargetStep
    BY <1>2, ResolveTargetInv, TcpConnectInv, TcpEndInv, ShutInv, TcpClosedInv,
       UdpConnectCallbackInv, UdpMessageInv, TcpDataInv
    DEF TargetStep, TcpError, UdpError
  <1>3. CASE TimerStep
    BY <1>3, ShutInv, ElapseInv DEF TimerStep, HandshakeDeadline, Tick, TcpIdleTimeout, GatewayStop
  <1>4. CASE UNCHANGED vars
    <2> USE <1>4 DEF vars, session, links, client, clocks, target, history
    <2>1. LinksOK' /\ idle' \in 0..IdleLimit /\ tcpIdle' \in 0..IdleLimit
      BY DEF IInv, TypeOK, LinksOK, CountersOK
    <2> QED
      BY <2>1, LinkStepInv DEF IInv, SlotInv, NothingLeftBehind, WsWritable
  <1> QED
    BY <1>1, <1>2, <1>3, <1>4 DEF Next

\* The invariant holds in every reachable state.
THEOREM InvariantHolds == Spec => []IInv
  BY InitInv, NextInv, PTL DEF Spec

\* Type correctness.
THEOREM TypeCorrect == Spec => []TypeOK
  <1>1. IInv => TypeOK
    BY DEF IInv
  <1> QED
    BY <1>1, InvariantHolds, PTL

\* A target that does not identify itself as a BZFS server with a free slot is
\* never written to, over TCP or UDP, and nothing of it reaches the browser.
THEOREM OnlyGenuine == Spec => []OnlyGenuineTargets
  <1>1. IInv => OnlyGenuineTargets
    BY DEF IInv, TypeOK, FlagsOK, GateInv, OnlyGenuineTargets
  <1> QED
    BY <1>1, InvariantHolds, PTL

\* The browser's payloads are written to the target in order, each at most
\* once, and none is missing as long as the session is open.
THEOREM InOrder == Spec => []InOrderNoneLost
  <1>1. ASSUME IInv PROVE InOrderNoneLost
    <2>1. accepted \in Seq(Payloads) /\ Len(accepted) \in Nat /\ closed \in BOOLEAN
      BY <1>1, LenProperties DEF IInv, TypeOK, FlagsOK, QueuesOK
    <2>2. CASE ~closed /\ connecting
      <3>1. << >> \o accepted = accepted
        BY <2>1, ConcatEmptySeq
      <3> QED
        BY <1>1, <2>2, <3>1 DEF IInv, OrderInv, InOrderNoneLost
    <2>3. CASE ~closed /\ ~connecting
      <3>1. accepted \o << >> = accepted
        BY <2>1, ConcatEmptySeq
      <3> QED
        BY <1>1, <2>3, <3>1 DEF IInv, OrderInv, InOrderNoneLost
    <2>4. CASE closed
      <3>1. PICK k \in 0..Len(accepted) : toTarget = SubSeq(accepted, 1, k)
        BY <1>1, <2>4 DEF IInv, OrderInv
      <3>2. Len(toTarget) = k /\ k <= Len(accepted)
        <4>1. \A i \in 1..k : i \in 1..Len(accepted)
          BY <2>1
        <4>2. k \in Nat /\ k <= Len(accepted)
          BY <2>1
        <4> QED
          BY <2>1, <3>1, <4>1, <4>2, SubSeqProperties
      <3>3. toTarget = SubSeq(accepted, 1, Len(toTarget))
        BY <3>1, <3>2
      <3>4. SubSeq(toTarget, 1, Len(toTarget)) = toTarget
        BY <1>1, SubSeqFull DEF IInv, TypeOK, QueuesOK
      <3> QED
        BY <2>4, <3>2, <3>3, <3>4 DEF InOrderNoneLost, IsPrefix
    <2> QED
      BY <2>1, <2>2, <2>3, <2>4
  <1> QED
    BY <1>1, InvariantHolds, PTL

\* The browser receives the target's stream from its first byte without a gap.
THEOREM Gapless == Spec => []GaplessClientStream
  <1>1. IInv => GaplessClientStream
    BY DEF IInv, StreamInv
  <1> QED
    BY <1>1, InvariantHolds, PTL

\* A closed session has given up its timer, its queue, its sockets and, once,
\* its slot; an open one still has its slot.
THEOREM NothingLeft == Spec => []NothingLeftBehind
  <1>1. IInv => NothingLeftBehind
    BY DEF IInv, SlotInv
  <1> QED
    BY <1>1, InvariantHolds, PTL

\* The preflight deadline is armed in exactly the open, unverified states.
THEOREM DeadlineCovers == Spec => []DeadlineCoversPreflight
  <1>1. IInv => DeadlineCoversPreflight
    BY DEF IInv, SlotInv
  <1> QED
    BY <1>1, InvariantHolds, PTL

\* Late events and callbacks of a closed session neither write, nor send, nor
\* release its slot again.
THEOREM Final == Spec => ClosedIsFinal
  <1>1. IInv /\ [Next]_vars
          => [closed => closed' /\ UNCHANGED <<history, pendingMessages, released>>]_vars
    <2> SUFFICES ASSUME IInv, closed, Next
                 PROVE  closed' /\ UNCHANGED <<history, pendingMessages, released>>
      BY DEF vars
    <2>1. ws # "open" /\ ~targetHandshakeTimer
      BY DEF IInv, SlotInv, NothingLeftBehind
    <2>2. CASE ClientStep
      BY <2>1, <2>2
      DEF ClientStep, ClientCloseFrame, SockLost, SockEvent, WsClose, ClientMessage, session
    <2>3. CASE UdpConnectCallback
      BY <2>3 DEF UdpConnectCallback, history
    <2>4. CASE TargetStep /\ ~UdpConnectCallback
      BY <2>4
      DEF TargetStep, ResolveTarget, TcpConnect, TcpEnd, TcpError, TcpClosed, UdpError,
          UdpMessage, TcpData, Shut, session
    <2>5. CASE TimerStep
      BY <2>5 DEF TimerStep, HandshakeDeadline, Tick, TcpIdleTimeout, GatewayStop, Elapse, Shut
    <2> QED
      BY <2>2, <2>3, <2>4, <2>5 DEF Next
  <1> QED
    BY <1>1, InvariantHolds, PTL DEF Spec, ClosedIsFinal

-----------------------------------------------------------------------------
(* The counter of the setup buffer.                                        *)

LEMMA LeastOf ==
  ASSUME NEW T, T \subseteq Nat, T # {}
  PROVE  \E n \in T : \A m \in T : n <= m
  <1>1. PICK n \in T : \A m \in T : <<m, n>> \notin OpToRel(<, Nat)
    BY NatLessThanWellFounded, WFMin
  <1>2. ASSUME NEW m \in T PROVE n <= m
    <2>1. <<m, n>> \in Nat \X Nat
      OBVIOUS
    <2>2. ~ (m < n)
      BY <1>1, <2>1 DEF OpToRel
    <2> QED
      BY <2>2
  <1> QED
    BY <1>2

\* The sizes of the first payloads of s, for each number of them up to n.
Sums(g, s, n) == g = [i \in 0..n |-> IF i = 0 THEN 0 ELSE g[i - 1] + Size[s[i]]]

LEMMA SumsExist ==
  ASSUME NEW s, NEW n \in Nat
  PROVE  \E g : Sums(g, s, n)
  <1> DEFINE T == {k \in Nat : ~ \E g : Sums(g, s, k)}
  <1>1. SUFFICES ASSUME T # {} PROVE FALSE
    OBVIOUS
  <1>2. PICK k \in T : \A m \in T : k <= m
    BY <1>1, LeastOf
  <1>3. k # 0
    <2>1. Sums([i \in 0..0 |-> 0], s, 0)
      BY DEF Sums
    <2> QED
      BY <2>1
  <1>4. PICK g : Sums(g, s, k - 1)
    <2>1. k - 1 \in Nat /\ ~ (k <= k - 1)
      BY <1>3
    <2> QED
      BY <1>2, <2>1
  <1> DEFINE h == [i \in 0..k |-> IF i = k THEN g[k - 1] + Size[s[k]] ELSE g[i]]
  <1>5. \A i \in 0..k : h[i] = IF i = 0 THEN 0 ELSE h[i - 1] + Size[s[i]]
    BY <1>3, <1>4 DEF Sums
  <1>6. Sums(h, s, k)
    BY <1>5 DEF Sums
  <1> QED
    BY <1>6

LEMMA SumsAgree ==
  ASSUME NEW s, NEW t, NEW n \in Nat, \A i \in 1..n : s[i] = t[i],
         NEW m \in Nat, n <= m, NEW g, Sums(g, s, n), NEW h, Sums(h, t, m)
  PROVE  g[n] = h[n]
  <1> DEFINE T == {i \in 0..n : g[i] # h[i]}
  <1>1. SUFFICES ASSUME T # {} PROVE FALSE
    OBVIOUS
  <1>2. PICK k \in T : \A i \in T : k <= i
    <2>1. T \subseteq Nat
      OBVIOUS
    <2> HIDE DEF T
    <2> QED
      BY <1>1, <2>1, LeastOf
  <1>3. k # 0
    BY DEF Sums
  <1>4. g[k - 1] = h[k - 1]
    BY <1>2, <1>3
  <1>5. g[k] = g[k - 1] + Size[s[k]] /\ h[k] = h[k - 1] + Size[t[k]]
    BY <1>3 DEF Sums
  <1> QED
    BY <1>3, <1>4, <1>5

LEMMA BytesOfIs ==
  ASSUME NEW s, Len(s) \in Nat
  PROVE  \E g : Sums(g, s, Len(s)) /\ BytesOf(s) = g[Len(s)]
  <1> DEFINE sum == CHOOSE g : Sums(g, s, Len(s))
  <1>1. Sums(sum, s, Len(s))
    BY SumsExist
  <1>2. BytesOf(s) = sum[Len(s)]
    BY DEF BytesOf, Sums
  <1> QED
    BY <1>1, <1>2

LEMMA BytesOfEmpty == BytesOf(<< >>) = 0
  <1>1. Len(<< >>) = 0
    OBVIOUS
  <1>2. PICK g : Sums(g, << >>, 0) /\ BytesOf(<< >>) = g[0]
    BY <1>1, BytesOfIs
  <1> QED
    BY <1>2 DEF Sums

LEMMA BytesOfAppend ==
  ASSUME NEW s \in Seq(Payloads), NEW p \in Payloads
  PROVE  BytesOf(Append(s, p)) = BytesOf(s) + Size[p]
  <1> DEFINE t == Append(s, p)
             n == Len(s)
  <1>1. /\ n \in Nat /\ Len(t) = n + 1 /\ t[n + 1] = p
        /\ \A i \in 1..n : s[i] = t[i]
    OBVIOUS
  <1> HIDE DEF t, n
  <1>2. PICK g : Sums(g, s, n) /\ BytesOf(s) = g[n]
    BY <1>1, BytesOfIs DEF n
  <1>3. PICK h : Sums(h, t, n + 1) /\ BytesOf(t) = h[n + 1]
    BY <1>1, BytesOfIs
  <1>4. g[n] = h[n]
    BY <1>1, <1>2, <1>3, SumsAgree
  <1>5. h[n + 1] = h[n] + Size[t[n + 1]]
    BY <1>1, <1>3 DEF Sums
  <1> QED
    BY <1>1, <1>2, <1>3, <1>4, <1>5 DEF t

\* A step takes one payload into the buffer, if it fits, or empties it, or leaves it.
LEMMA BufferSteps ==
  ASSUME [Next]_vars
  PROVE  \/ UNCHANGED <<pendingMessages, pendingBytes>>
         \/ pendingMessages' = << >> /\ pendingBytes' = 0
         \/ \E p \in Payloads : /\ Fits(p)
                                /\ pendingMessages' = Append(pendingMessages, p)
                                /\ pendingBytes' = pendingBytes + Size[p]
  <1> DEFINE Kept == UNCHANGED <<pendingMessages, pendingBytes>>
             Emptied == pendingMessages' = << >> /\ pendingBytes' = 0
  <1>1. Shut => Emptied
    BY DEF Shut, Teardown
  <1>2. CASE ClientStep
    <2>1. ASSUME NEW p \in Payloads, ClientMessage(p)
          PROVE  \/ Kept \/ Emptied
                 \/ /\ Fits(p)
                    /\ pendingMessages' = Append(pendingMessages, p)
                    /\ pendingBytes' = pendingBytes + Size[p]
      BY <1>1, <2>1 DEF ClientMessage, session
    <2>2. CASE ClientCloseFrame \/ SockLost \/ SockEvent \/ WsClose
      BY <1>1, <2>2 DEF ClientCloseFrame, SockLost, SockEvent, WsClose, session, Teardown
    <2> QED
      BY <1>2, <2>1, <2>2 DEF ClientStep
  <1>3. CASE TargetStep
    <2>1. CASE UdpConnectCallback
      BY <2>1 DEF UdpConnectCallback, Flush, Teardown
    <2>2. ASSUME NEW n \in 1..MaxStream, TcpData(n) PROVE Kept \/ Emptied
      BY <2>2 DEF TcpData, SendTargetData, Teardown, session
    <2>3. CASE ResolveTarget \/ TcpConnect \/ TcpEnd \/ TcpError \/ TcpClosed
                 \/ UdpError \/ UdpMessage
      BY <1>1, <2>3
      DEF ResolveTarget, TcpConnect, TcpEnd, TcpError, TcpClosed, UdpError, UdpMessage,
          session, Teardown
    <2> QED
      BY <1>3, <2>1, <2>2, <2>3 DEF TargetStep
  <1>4. CASE TimerStep
    BY <1>1, <1>4
    DEF TimerStep, HandshakeDeadline, Tick, TcpIdleTimeout, GatewayStop, Elapse, session, Teardown
  <1>5. CASE UNCHANGED vars
    BY <1>5 DEF vars, session
  <1> QED
    BY <1>2, <1>3, <1>4, <1>5 DEF Next

\* The counter that refuses payloads is the size of what is held, at every moment,
\* and that stays within maxBufferedBytes (#handleClientMessage, #maybeReady, close).
THEOREM BytesExact == Spec => []PendingBytesExact
  <1>1. Init => PendingBytesExact
    BY BridgeAssumption, BytesOfEmpty DEF BridgeAssumption, Init, PendingBytesExact
  <1>2. ASSUME IInv, PendingBytesExact, [Next]_vars PROVE PendingBytesExact'
    <2>1. CASE UNCHANGED <<pendingMessages, pendingBytes>>
      BY <1>2, <2>1 DEF PendingBytesExact
    <2>2. CASE pendingMessages' = << >> /\ pendingBytes' = 0
      BY <2>2, BridgeAssumption, BytesOfEmpty DEF BridgeAssumption, PendingBytesExact
    <2>3. ASSUME NEW p \in Payloads, Fits(p), pendingMessages' = Append(pendingMessages, p),
                 pendingBytes' = pendingBytes + Size[p]
          PROVE  PendingBytesExact'
      <3>1. pendingMessages \in Seq(Payloads)
        BY <1>2 DEF IInv, TypeOK, QueuesOK
      <3>2. BytesOf(pendingMessages') = BytesOf(pendingMessages) + Size[p]
        BY <2>3, <3>1, BytesOfAppend
      <3>3. BytesOf(pendingMessages)' = BytesOf(pendingMessages')
        BY DEF BytesOf
      <3> QED
        BY <1>2, <2>3, <3>2, <3>3 DEF PendingBytesExact, Fits
    <2> QED
      BY <1>2, <2>1, <2>2, <2>3, BufferSteps
  <1> QED
    BY <1>1, <1>2, InvariantHolds, PTL DEF Spec

-----------------------------------------------------------------------------
(* The session implements the gated channel of VerifiedRelay.              *)

\* A step that ends the session and writes nothing is an End of the channel.
LEMMA EndsRelay ==
  ASSUME IInv, ~closed, closed' = TRUE, UNCHANGED <<badByte, accepted, toTarget>>
  PROVE  Relay!End
  BY DEF Relay!End, Phase, Genuine, IInv, TypeOK, FlagsOK

\* A step that changes neither the gate nor either end leaves it alone.
LEMMA LeavesRelay ==
  ASSUME UNCHANGED <<closed, connecting, badByte, accepted, toTarget>>
  PROVE  UNCHANGED Relay!relayVars
  BY DEF Relay!relayVars, Phase, Genuine

LEMMA ShutEndsRelay == ASSUME IInv, Shut PROVE Relay!End
  BY EndsRelay DEF Shut, Teardown, target, history

LEMMA ClientMessageRelay ==
  ASSUME IInv, NEW p \in Payloads, ClientMessage(p)
  PROVE  Relay!End \/ Relay!Hold(p) \/ Relay!Pass(p)
  <1>1. ~closed
    BY DEF ClientMessage, IInv, SlotInv, NothingLeftBehind
  <1>2. CASE Shut
    BY <1>2, ShutEndsRelay
  <1>3. CASE ~Shut /\ connecting
    <2>1. /\ UNCHANGED <<closed, connecting, badByte, toTarget>>
          /\ accepted' = Append(accepted, p)
      BY <1>3 DEF ClientMessage, target
    <2>2. Phase = "held" /\ Phase' = "held" /\ Genuine' = Genuine
      BY <1>1, <1>3, <2>1 DEF Phase, Genuine
    <2> QED
      BY <2>1, <2>2 DEF Relay!Hold
  <1>4. CASE ~Shut /\ ~connecting
    <2>1. /\ UNCHANGED <<closed, connecting, badByte>>
          /\ toTarget' = Append(toTarget, p) /\ accepted' = Append(accepted, p)
      BY <1>4 DEF ClientMessage, target, session
    <2>2. Phase = "open" /\ Phase' = "open" /\ Genuine' = Genuine
      BY <1>1, <1>4, <2>1 DEF Phase, Genuine
    <2> QED
      BY <2>1, <2>2 DEF Relay!Pass
  <1> QED
    BY <1>2, <1>3, <1>4

LEMMA FlushRelay ==
  ASSUME IInv, ~closed, connecting, targetHandshakeVerified,
         NEW udpNow, Flush(udpNow), UNCHANGED <<target, accepted>>
  PROVE  Relay!Open \/ Relay!End
  <1>1. PICK k \in 0..Len(pendingMessages) :
          /\ toTarget' = toTarget \o SubSeq(pendingMessages, 1, k)
          /\ \/ /\ k = Len(pendingMessages)
                /\ connecting' = FALSE /\ UNCHANGED closed
             \/ Teardown(tcp, udpNow)
    BY DEF Flush
  <1>2. /\ toTarget = << >> /\ pendingMessages = accepted /\ accepted \in Seq(Payloads)
        /\ Genuine /\ Phase = "held" /\ Genuine' = Genuine
    BY DEF IInv, OrderInv, TypeOK, QueuesOK, GateInv, Phase, Genuine, target
  <1>3. toTarget' = SubSeq(accepted, 1, k)
    <2>1. \A i \in 1..k : i \in 1..Len(accepted)
      BY <1>1, <1>2, LenProperties
    <2>2. SubSeq(accepted, 1, k) \in Seq(Payloads)
      BY <1>2, <2>1, SubSeqProperties, LenProperties
    <2> QED
      BY <1>1, <1>2, <2>2, ConcatEmptySeq
  <1>4. CASE k = Len(pendingMessages) /\ connecting' = FALSE /\ UNCHANGED closed
    <2>1. toTarget' = accepted
      BY <1>2, <1>3, <1>4, SubSeqFull
    <2>2. Phase' = "open"
      BY <1>4 DEF Phase
    <2> QED
      BY <1>2, <2>1, <2>2 DEF Relay!Open
  <1>5. CASE Teardown(tcp, udpNow)
    <2>1. Phase' = "ended"
      BY <1>5 DEF Phase, Teardown
    <2>2. \E j \in 0..Len(accepted) : toTarget' = SubSeq(accepted, 1, j)
      BY <1>2, <1>3
    <2> QED
      BY <1>2, <2>1, <2>2 DEF Relay!End
  <1> QED
    BY <1>1, <1>4, <1>5

LEMMA TargetStepRelay ==
  ASSUME IInv, TargetStep
  PROVE  Relay!Open \/ Relay!End \/ UNCHANGED Relay!relayVars
  <1>1. CASE ResolveTarget
    BY <1>1, EndsRelay, LeavesRelay DEF ResolveTarget, Teardown, session, target, history
  <1>2. CASE TcpConnect \/ TcpEnd
    BY <1>2, LeavesRelay DEF TcpConnect, TcpEnd, session, target, history
  <1>3. CASE TcpError \/ UdpError
    BY <1>3, ShutEndsRelay DEF TcpError, UdpError
  <1>4. CASE TcpClosed
    BY <1>4, EndsRelay, LeavesRelay DEF TcpClosed, Teardown, session, target, history
  <1>5. CASE UdpMessage
    BY <1>5, ShutEndsRelay, LeavesRelay DEF UdpMessage, session, target, history
  <1>6. CASE UdpConnectCallback
    <2>1. targetHandshakeVerified
      BY <1>6 DEF UdpConnectCallback, IInv, TypeOK, FlagsOK, GateInv
    <2>2. CASE closed \/ ~connecting
      BY <1>6, <2>2, LeavesRelay DEF UdpConnectCallback, target
    <2>3. CASE ~closed /\ connecting
      <3>1. PICK udpNow : Flush(udpNow)
        BY <1>6, <2>1, <2>3 DEF UdpConnectCallback
      <3> QED
        BY <1>6, <2>1, <2>3, <3>1, FlushRelay DEF UdpConnectCallback
    <2> QED
      BY <2>2, <2>3
  <1>7. ASSUME NEW n \in 1..MaxStream, TcpData(n)
        PROVE  Relay!End \/ UNCHANGED Relay!relayVars
    <2>1. ~closed /\ UNCHANGED <<badByte, accepted, toTarget>>
      BY <1>7 DEF TcpData
    <2>2. \/ closed' = TRUE
          \/ UNCHANGED <<closed, connecting>>
      BY <1>7 DEF TcpData, SendTargetData, Teardown, session
    <2> QED
      BY <2>1, <2>2, EndsRelay, LeavesRelay
  <1> QED
    BY <1>1, <1>2, <1>3, <1>4, <1>5, <1>6, <1>7 DEF TargetStep

\* Every step of the session is a step of the gated channel or a stutter: what
\* is delivered was taken, in order, and only from behind a genuine target's gate.
THEOREM Refinement == Spec => ImplementsRelay
  <1>1. Init => Relay!Init
    BY DEF Init, Relay!Init, Phase, Genuine
  <1>2. IInv /\ [Next]_vars => [Relay!Next]_(Relay!relayVars)
    <2> SUFFICES ASSUME IInv, [Next]_vars PROVE Relay!Next \/ UNCHANGED Relay!relayVars
      OBVIOUS
    <2>1. CASE ClientStep
      <3>1. CASE ClientCloseFrame \/ SockLost
        BY <3>1, LeavesRelay DEF ClientCloseFrame, SockLost, session, target, history
      <3>2. CASE SockEvent
        BY <3>2, EndsRelay, LeavesRelay
        DEF SockEvent, Teardown, session, target, history, Relay!Next
      <3>3. CASE WsClose
        BY <3>3, ShutEndsRelay DEF WsClose, Relay!Next
      <3>4. ASSUME NEW p \in Payloads, ClientMessage(p)
            PROVE  Relay!Next
        BY <3>4, ClientMessageRelay DEF Relay!Next
      <3> QED
        BY <2>1, <3>1, <3>2, <3>3, <3>4 DEF ClientStep, Relay!Next
    <2>2. CASE TargetStep
      BY <2>2, TargetStepRelay DEF Relay!Next
    <2>3. CASE TimerStep
      BY <2>3, ShutEndsRelay, LeavesRelay
      DEF TimerStep, HandshakeDeadline, Tick, TcpIdleTimeout, GatewayStop, Elapse, Relay!Next,
          session, target, history
    <2>4. CASE UNCHANGED vars
      BY <2>4, LeavesRelay DEF vars, session, target, history
    <2> QED
      BY <2>1, <2>2, <2>3, <2>4 DEF Next
  <1> QED
    BY <1>1, <1>2, InvariantHolds, PTL DEF Spec, ImplementsRelay, Relay!Spec

=============================================================================
