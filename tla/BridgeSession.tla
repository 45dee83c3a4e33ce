--------------------------- MODULE BridgeSession ---------------------------
(***************************************************************************)
(* One bridge session of the gateway (class GatewaySession of              *)
(* server/gateway.ts): a browser's WebSocket on one side, the BZFS TCP     *)
(* connection and UDP socket of one target on the other, and the preflight *)
(* that holds the browser's traffic back until the target has identified   *)
(* itself as a BZFS server.                                                *)
(*                                                                         *)
(* Every action is one run of an event handler to completion, with every   *)
(* call it makes.  Node runs handlers one at a time, so what interleaves   *)
(* is their order: the DNS answer, socket events of three sockets, timers, *)
(* frames of the browser, a gateway shutdown.  Sockets are the             *)
(* environment: whether a write finds room in a send buffer, and when a    *)
(* peer hangs up, is a free choice.  So are the per-second budgets, which  *)
(* module RateBudget models exactly.                                       *)
(***************************************************************************)
EXTENDS Integers, Sequences, SequencesExt

CONSTANTS
  Payloads,          \* what the browser may send through the bridge
  Channel,           \* the channel of each payload, "tcp" or "udp"
  Size,              \* the length of each payload in bytes
  MaxUdpBytes,       \* DEFAULT_MAX_UDP_BYTES
  MaxBufferedBytes,  \* limits.maxBufferedBytes
  GreetingBytes,     \* BZFS_GREETING_BYTES; the last one is the player slot
  ChunkBytes,        \* the largest piece of target data in one envelope
  IdleLimit,         \* limits.idleTimeoutMs, in steps of the clocks below
  MaxMessages,       \* bound: payloads accepted from the browser
  MaxStream          \* bound: bytes of the target's TCP stream

ASSUME BridgeAssumption ==
  /\ Channel \in [Payloads -> {"tcp", "udp"}]
  /\ Size \in [Payloads -> Nat]
  /\ MaxUdpBytes \in Nat
  /\ MaxBufferedBytes \in Nat
  /\ GreetingBytes \in Nat \ {0}
  /\ ChunkBytes \in Nat \ {0}
  /\ IdleLimit \in Nat \ {0}
  /\ MaxMessages \in Nat
  /\ MaxStream \in Nat

VARIABLES
  \* The session object.
  closed, connecting, udpReady, targetHandshakeVerified,
  targetHandshakeTimer,  \* whether the preflight deadline is armed
  pendingMessages, pendingBytes,
  released,              \* how often the slot in gateway.sessions was given up
  \* Its links to the target.
  targetEndpoint,        \* "resolving", then "resolved" or "none"
  tcp, udp,
  udpCallback,           \* whether the callback of udp.connect is outstanding
  \* Its link to the browser.
  ws,                    \* "open", "closing" (a Close frame was handled), "closed"
  sock,                  \* the socket under ws
  \* Time since the last activity of the session and of the TCP socket.
  idle, tcpIdle,
  \* The target: the first wrong byte of its greeting (none if it is beyond
  \* the greeting), and how much of its TCP stream was handled.
  badByte, received,
  \* History: payloads taken from the browser, payloads written to the target,
  \* and the positions of the target's stream sent on to the browser.
  accepted, toTarget, clientStream

client  == <<ws, sock>>
clocks  == <<idle, tcpIdle>>
target  == <<badByte, received>>
history == <<accepted, toTarget, clientStream>>
session == <<closed, connecting, udpReady, targetHandshakeVerified,
             targetHandshakeTimer, pendingMessages, pendingBytes, released>>
links   == <<targetEndpoint, tcp, udp, udpCallback>>
vars    == <<session, links, client, clocks, target, history>>

TcpLive == {"connecting", "open", "unwritable"}  \* created and not destroyed
UdpOpen == {"connecting", "connected", "failed"} \* created and not closed

Genuine == badByte > GreetingBytes

(***************************************************************************)
(* The constructor: the session is registered, the preflight deadline runs *)
(* and the lookup of the target's name is under way.                       *)
(***************************************************************************)
Init ==
  /\ closed = FALSE /\ connecting = TRUE /\ udpReady = FALSE
  /\ targetHandshakeVerified = FALSE /\ targetHandshakeTimer = TRUE
  /\ pendingMessages = << >> /\ pendingBytes = 0 /\ released = 0
  /\ targetEndpoint = "resolving" /\ tcp = "none" /\ udp = "none"
  /\ udpCallback = FALSE
  /\ ws = "open" /\ sock = "open"
  /\ idle = 0 /\ tcpIdle = 0
  /\ badByte \in 1..(GreetingBytes + 1) /\ received = 0
  /\ accepted = << >> /\ toTarget = << >> /\ clientStream = << >>

-----------------------------------------------------------------------------
(* Closing.                                                                *)

(***************************************************************************)
(* close() of the session, with the sockets as the running handler left    *)
(* them.  The clocks of a closed session are never read; they are reset.   *)
(***************************************************************************)
Teardown(tcpNow, udpNow) ==
  /\ closed' = TRUE /\ connecting' = FALSE /\ udpReady' = FALSE
  /\ targetHandshakeTimer' = FALSE
  /\ pendingMessages' = << >> /\ pendingBytes' = 0
  /\ tcp' = IF tcpNow \in TcpLive THEN "destroyed" ELSE tcpNow
  /\ udp' = IF udpNow \in UdpOpen THEN "closed" ELSE udpNow
  /\ released' = released + 1
  /\ idle' = 0 /\ tcpIdle' = 0

(***************************************************************************)
(* ws.close(): a connection that already handled the browser's Close frame *)
(* is closed as far as this is concerned, and stays as it is.              *)
(***************************************************************************)
EndClient ==
  /\ ws'   = IF ws = "open" THEN "closed" ELSE ws
  /\ sock' = IF ws = "open" /\ sock = "open" THEN "ended" ELSE sock

(***************************************************************************)
(* #fail(), and close() called from outside: both end the session and its  *)
(* WebSocket.  #fail closes the WebSocket first, whose onClose callback    *)
(* enters close() before #fail calls it again; the second call returns.    *)
(***************************************************************************)
Shut ==
  /\ ~closed
  /\ Teardown(tcp, udp)
  /\ EndClient
  /\ UNCHANGED <<targetHandshakeVerified, targetEndpoint, udpCallback, target, history>>

HandshakeDeadline == targetHandshakeTimer /\ Shut

Tick == idle = IdleLimit /\ Shut

GatewayStop == Shut

\* The WebSocket closes itself: socket idle, parser deadline, malformed frame.
WsClose == ws = "open" /\ Shut

\* A Close frame of the browser: echoed, the socket ended, and no onClose.
ClientCloseFrame ==
  /\ ws = "open" /\ sock = "open"
  /\ ws' = "closing" /\ sock' = "ended"
  /\ UNCHANGED <<session, links, clocks, target, history>>

\* The browser's socket is gone for the kernel, its events not yet delivered.
SockLost ==
  /\ sock \in {"open", "ended"}
  /\ sock' = "dying"
  /\ UNCHANGED <<session, links, ws, clocks, target, history>>

\* Mutated form of SockEvent: #finish calls onClose each time, close() runs again.
SockEventAgain ==
  /\ sock = "dying"
  /\ sock' = "gone" /\ ws' = "closed"
  /\ Teardown(tcp, udp)
  /\ UNCHANGED <<targetHandshakeVerified, targetEndpoint, udpCallback, target, history>>

\* The socket's 'error' or 'close' event: #finish, whose callback ends the session.
SockEvent ==
  /\ sock = "dying"
  /\ sock' = "gone" /\ ws' = "closed"
  /\ IF closed
       THEN UNCHANGED <<session, links, clocks>>
       ELSE /\ Teardown(tcp, udp)
            /\ UNCHANGED <<targetHandshakeVerified, targetEndpoint, udpCallback>>
  /\ UNCHANGED <<target, history>>

-----------------------------------------------------------------------------
(* Reaching the target.                                                    *)

\* Mutated form of StillWanted: no check after the await.
NeverRechecked == TRUE

\* The check after the await: the session may have been closed meanwhile.
StillWanted == ~closed

ResolveTarget ==
  /\ targetEndpoint = "resolving"
  /\ \/ /\ StillWanted
        /\ targetEndpoint' = "resolved" /\ tcp' = "connecting" /\ tcpIdle' = 0
        /\ UNCHANGED <<session, udp, udpCallback, client, idle>>
     \/ /\ ~StillWanted
        /\ targetEndpoint' = "none"
        /\ UNCHANGED <<session, tcp, udp, udpCallback, client, clocks>>
     \/ /\ ~closed                        \* no address, or a refused one
        /\ targetEndpoint' = "none"
        /\ Teardown(tcp, udp) /\ EndClient
        /\ UNCHANGED <<targetHandshakeVerified, udpCallback>>
  /\ UNCHANGED <<target, history>>

\* Mutated form of TcpConnect: the deadline is for the connection only.
TcpConnectEndsDeadline ==
  /\ tcp = "connecting"
  /\ tcp' = "open" /\ idle' = 0 /\ tcpIdle' = 0 /\ targetHandshakeTimer' = FALSE
  /\ UNCHANGED <<closed, connecting, udpReady, targetHandshakeVerified, pendingMessages,
                 pendingBytes, released, targetEndpoint, udp, udpCallback, client,
                 target, history>>

TcpConnect ==
  /\ tcp = "connecting"
  /\ tcp' = "open" /\ idle' = 0 /\ tcpIdle' = 0
  /\ UNCHANGED <<session, targetEndpoint, udp, udpCallback, client, target, history>>

\* The target's FIN: Node ends the writable side, 'close' follows.
TcpEnd ==
  /\ tcp = "open"
  /\ tcp' = "unwritable"
  /\ UNCHANGED <<session, targetEndpoint, udp, udpCallback, client, clocks, target, history>>

TcpError == tcp \in TcpLive /\ Shut

TcpIdleTimeout == tcp \in TcpLive /\ tcpIdle = IdleLimit /\ Shut

TcpClosed ==
  /\ tcp \in {"unwritable", "destroyed"}
  /\ IF closed
       THEN tcp' = "closed" /\ UNCHANGED <<session, udp, client, clocks>>
       ELSE Teardown("closed", udp) /\ EndClient /\ UNCHANGED targetHandshakeVerified
  /\ UNCHANGED <<targetEndpoint, udpCallback, target, history>>

UdpError == udp \in UdpOpen /\ Shut

-----------------------------------------------------------------------------
(* Browser to target.                                                      *)

OversizeDatagram(p) == Channel[p] = "udp" /\ Size[p] > MaxUdpBytes

\* Mutated form of Fits: the payload itself is not counted.
FitsBefore(p) == pendingBytes <= MaxBufferedBytes

Fits(p) == pendingBytes + Size[p] <= MaxBufferedBytes

(***************************************************************************)
(* A write of #forwardMessage that goes through, and one that fails.  TCP  *)
(* may always lack room in its send buffer; send() on a UDP socket whose   *)
(* connect failed throws.                                                  *)
(***************************************************************************)
Writable(p, udpNow) == IF Channel[p] = "tcp" THEN tcp = "open" ELSE udpNow = "connected"
Refusable(p, udpNow) == Channel[p] = "tcp" \/ udpNow # "connected"

RelayReady == targetHandshakeVerified /\ udpReady

(***************************************************************************)
(* #handleClientMessage.  A payload over the inbound budget, one that does *)
(* not decode, an oversize datagram, one beyond the setup buffer and one   *)
(* that cannot be forwarded all end the session: the first disjunct, and   *)
(* the only one left when the guards of the others fail.                   *)
(***************************************************************************)
ClientMessage(p) ==
  /\ ws = "open" /\ sock = "open"
  /\ Len(accepted) < MaxMessages
  /\ \/ Shut
     \/ /\ ~OversizeDatagram(p) /\ connecting /\ Fits(p)
        /\ pendingMessages' = Append(pendingMessages, p)
        /\ pendingBytes' = pendingBytes + Size[p]
        /\ accepted' = Append(accepted, p)
        /\ idle' = 0
        /\ UNCHANGED <<closed, connecting, udpReady, targetHandshakeVerified,
                       targetHandshakeTimer, released, links, client, tcpIdle,
                       target, toTarget, clientStream>>
     \/ /\ ~OversizeDatagram(p) /\ ~connecting /\ RelayReady /\ Writable(p, udp)
        /\ toTarget' = Append(toTarget, p)
        /\ accepted' = Append(accepted, p)
        /\ idle' = 0
        /\ tcpIdle' = IF Channel[p] = "tcp" THEN 0 ELSE tcpIdle
        /\ UNCHANGED <<session, links, client, target, clientStream>>

\* Mutated form of Flush: the queue is not emptied.
FlushKeepsQueue(udpNow) ==
  /\ \A i \in 1..Len(pendingMessages) : Writable(pendingMessages[i], udpNow)
  /\ toTarget' = toTarget \o pendingMessages
  /\ connecting' = FALSE /\ udpReady' = TRUE
  /\ udp' = udpNow /\ idle' = 0 /\ tcpIdle' = 0
  /\ UNCHANGED <<closed, targetHandshakeTimer, pendingMessages, pendingBytes,
                 released, tcp, client>>

(***************************************************************************)
(* #maybeReady once its early returns are passed: the held payloads are    *)
(* forwarded in order, up to the first one that fails and ends the session.*)
(***************************************************************************)
Flush(udpNow) ==
  \E k \in 0..Len(pendingMessages) :
    /\ \A i \in 1..k : Writable(pendingMessages[i], udpNow)
    /\ toTarget' = toTarget \o SubSeq(pendingMessages, 1, k)
    /\ \/ /\ k = Len(pendingMessages)
          /\ connecting' = FALSE /\ udpReady' = TRUE
          /\ pendingMessages' = << >> /\ pendingBytes' = 0
          /\ udp' = udpNow
          /\ idle' = 0 /\ tcpIdle' = 0
          /\ UNCHANGED <<closed, targetHandshakeTimer, released, tcp, client>>
       \/ /\ k < Len(pendingMessages) /\ Refusable(pendingMessages[k + 1], udpNow)
          /\ Teardown(tcp, udpNow) /\ EndClient

\* Mutated form of UdpConnectCallback: it does not call #maybeReady.
CallbackOnlyMarks ==
  /\ udpCallback /\ udpCallback' = FALSE
  /\ udpReady' = TRUE
  /\ udp' = IF udp = "connecting" THEN "connected" ELSE udp
  /\ UNCHANGED <<closed, connecting, targetHandshakeVerified, targetHandshakeTimer,
                 pendingMessages, pendingBytes, released, targetEndpoint, tcp,
                 client, clocks, target, history>>

(***************************************************************************)
(* The callback of udp.connect.  Node calls it when the connect succeeded  *)
(* and also, with an error, when it failed; the callback takes no argument *)
(* and marks the channel ready in both cases.  It may find the session     *)
(* closed.                                                                 *)
(***************************************************************************)
UdpConnectCallback ==
  /\ udpCallback /\ udpCallback' = FALSE
  /\ \E outcome \in {"connected", "failed"} :
       LET udpNow == IF udp = "connecting" THEN outcome ELSE udp
       IN  IF closed \/ ~connecting \/ ~targetHandshakeVerified
             THEN /\ udpReady' = TRUE /\ udp' = udpNow /\ idle' = 0
                  /\ UNCHANGED <<closed, connecting, targetHandshakeTimer,
                                 pendingMessages, pendingBytes, released, tcp,
                                 client, tcpIdle, toTarget>>
             ELSE Flush(udpNow)
  /\ UNCHANGED <<targetHandshakeVerified, targetEndpoint, target, accepted, clientStream>>

-----------------------------------------------------------------------------
(* Target to browser.                                                      *)

WsWritable == ws = "open" /\ sock = "open"

\* The positions from..to of the target's stream.
Bytes(from, to) == [i \in 1..(to - from + 1) |-> from + i - 1]

\* Where a send of from..to can stop: before one of its envelopes.
Cuts(from, to) == {c \in (from - 1)..(to - 1) : (c - from + 1) % ChunkBytes = 0}

\* Mutated form of SendTargetData: an envelope over a limit is left out, the
\* session goes on.
SendTargetDataSkips(from, to, cuts, udpNow) ==
  /\ \E c \in cuts :
       clientStream' = IF WsWritable THEN clientStream \o Bytes(from, c) ELSE clientStream
  /\ udp' = udpNow /\ idle' = 0 /\ tcpIdle' = 0 /\ targetHandshakeTimer' = FALSE
  /\ UNCHANGED <<closed, connecting, udpReady, pendingMessages, pendingBytes,
                 released, tcp, client>>

(***************************************************************************)
(* #sendTargetData of the stream positions from..to, in envelopes.  All of *)
(* them are written; or one of them is over the outbound budget or does    *)
(* not fit the browser's send buffer, and the session ends; or the browser *)
(* cannot be written to and the data is dropped.                           *)
(***************************************************************************)
SendTargetData(from, to, cuts, udpNow) ==
  \/ /\ clientStream' = IF WsWritable THEN clientStream \o Bytes(from, to) ELSE clientStream
     /\ udp' = udpNow /\ idle' = 0 /\ tcpIdle' = 0 /\ targetHandshakeTimer' = FALSE
     /\ UNCHANGED <<closed, connecting, udpReady, pendingMessages, pendingBytes,
                    released, tcp, client>>
  \/ /\ \E c \in cuts :
          clientStream' = IF WsWritable THEN clientStream \o Bytes(from, c) ELSE clientStream
     /\ Teardown(tcp, udpNow) /\ EndClient

\* Mutated form of Mismatch: the last character of the version is not compared.
MismatchShort(n) == badByte <= n /\ badByte < GreetingBytes - 1

\* The greeting differs from "BZFS" and the version within its first n bytes.
Mismatch(n) == badByte <= n /\ badByte < GreetingBytes

\* Mutated form of Refused: the player slot is not looked at.
NeverRefused(n) == FALSE

\* All of it has come and its last byte is the refusal, BZFS_NO_PLAYER.
Refused(n) == badByte = GreetingBytes /\ n >= GreetingBytes

(***************************************************************************)
(* #handleTargetTcpData for n more bytes.  Before verification they extend *)
(* the greeting, which is compared as far as it goes.  Once it is complete *)
(* and right the deadline is cleared, the UDP socket is created, and the   *)
(* greeting and what follows it are sent on; #maybeReady then returns,     *)
(* since the callback of udp.connect has not run.  A verified stream whose *)
(* browser sent Close is dropped: its position is not counted.             *)
(***************************************************************************)
TcpData(n) ==
  /\ tcp = "open" /\ ~closed
  /\ received + n <= MaxStream
  /\ \/ /\ targetHandshakeVerified
        /\ received' = IF WsWritable THEN received + n ELSE received
        /\ SendTargetData(received + 1, received + n,
                          Cuts(received + 1, received + n), udp)
        /\ UNCHANGED <<targetHandshakeVerified, udpCallback>>
     \/ /\ ~targetHandshakeVerified
        /\ Mismatch(received + n) \/ Refused(received + n)
        /\ received' = received + n
        /\ Teardown(tcp, udp) /\ EndClient
        /\ UNCHANGED <<targetHandshakeVerified, udpCallback, clientStream>>
     \/ /\ ~targetHandshakeVerified
        /\ ~Mismatch(received + n) /\ received + n < GreetingBytes
        /\ received' = received + n /\ tcpIdle' = 0
        /\ UNCHANGED <<session, tcp, udp, udpCallback, client, idle, clientStream>>
     \/ /\ ~targetHandshakeVerified
        /\ ~Mismatch(received + n) /\ ~Refused(received + n)
        /\ received + n >= GreetingBytes
        /\ received' = received + n
        /\ targetHandshakeVerified' = TRUE
        /\ udpCallback' = TRUE
        /\ SendTargetData(1, received + n,
                          Cuts(1, GreetingBytes) \cup Cuts(GreetingBytes + 1, received + n),
                          "connecting")
  /\ UNCHANGED <<targetEndpoint, badByte, accepted, toTarget>>

\* A datagram of the target: passed on or dropped, or a limit ends the session.
UdpMessage ==
  /\ udp = "connected"
  /\ \/ idle' = 0 /\ UNCHANGED <<session, links, client, tcpIdle, target, history>>
     \/ Shut

\* Time passes without activity.
Elapse ==
  /\ ~closed /\ (idle < IdleLimit \/ tcpIdle < IdleLimit)
  /\ idle' = IF idle < IdleLimit THEN idle + 1 ELSE idle
  /\ tcpIdle' = IF tcpIdle < IdleLimit THEN tcpIdle + 1 ELSE tcpIdle
  /\ UNCHANGED <<session, links, client, target, history>>

-----------------------------------------------------------------------------
ClientStep ==
  \/ ClientCloseFrame \/ SockLost \/ SockEvent \/ WsClose
  \/ \E p \in Payloads : ClientMessage(p)

TargetStep ==
  \/ ResolveTarget \/ TcpConnect \/ TcpEnd \/ TcpError \/ TcpClosed
  \/ UdpConnectCallback \/ UdpError \/ UdpMessage
  \/ \E n \in 1..MaxStream : TcpData(n)

TimerStep == HandshakeDeadline \/ Tick \/ TcpIdleTimeout \/ GatewayStop \/ Elapse

Next == ClientStep \/ TargetStep \/ TimerStep

Spec == Init /\ [][Next]_vars

(***************************************************************************)
(* What the runtime owes.  Nothing is assumed of the two peers or of the   *)
(* name lookup.  The preflight needs only that its timer fires and that    *)
(* the callback of udp.connect is called; it may not lean on the idle      *)
(* clocks, which traffic resets, so GateSpec leaves them unfair.           *)
(***************************************************************************)
GateFairness == WF_vars(HandshakeDeadline) /\ WF_vars(UdpConnectCallback)

GateSpec == Spec /\ GateFairness

\* All of it: also time passes, every timer fires, lost sockets report.
Fairness ==
  /\ GateFairness
  /\ WF_vars(SockEvent)
  /\ WF_vars(TcpClosed)
  /\ WF_vars(Elapse)
  /\ WF_vars(Tick)
  /\ WF_vars(TcpIdleTimeout)

FairSpec == Spec /\ Fairness

-----------------------------------------------------------------------------
(* Properties.                                                             *)

FlagsOK ==
  /\ closed \in BOOLEAN /\ connecting \in BOOLEAN /\ udpReady \in BOOLEAN
  /\ targetHandshakeVerified \in BOOLEAN /\ targetHandshakeTimer \in BOOLEAN
  /\ udpCallback \in BOOLEAN

LinksOK ==
  /\ targetEndpoint \in {"resolving", "resolved", "none"}
  /\ tcp \in TcpLive \cup {"none", "destroyed", "closed"}
  /\ udp \in UdpOpen \cup {"none", "closed"}
  /\ ws \in {"open", "closing", "closed"}
  /\ sock \in {"open", "ended", "dying", "gone"}

CountersOK ==
  /\ pendingBytes \in Nat /\ released \in 0..1
  /\ idle \in 0..IdleLimit /\ tcpIdle \in 0..IdleLimit
  /\ badByte \in 1..(GreetingBytes + 1) /\ received \in Nat

QueuesOK ==
  /\ pendingMessages \in Seq(Payloads)
  /\ accepted \in Seq(Payloads) /\ toTarget \in Seq(Payloads)
  /\ clientStream \in Seq(Nat)

\* The type invariant: every variable of the session is in its range.
TypeOK == FlagsOK /\ LinksOK /\ CountersOK /\ QueuesOK

\* Nothing of the browser reaches a target, no UDP socket is opened to it and
\* nothing of it reaches the browser, unless its whole greeting is that of a
\* BZFS server of the right version with a player slot (README "Gateway/bridge
\* operating model"; #handleTargetTcpData, #openUdpAfterHandshake, #forwardMessage).
OnlyGenuineTargets ==
  ~Genuine => toTarget = << >> /\ udp = "none" /\ clientStream = << >>

\* The browser's payloads reach the target in the order they came, each once:
\* what was written and what is held back are together all that was accepted,
\* and a closed session wrote a first part of it (#maybeReady, #forwardMessage).
InOrderNoneLost ==
  /\ ~closed => toTarget \o pendingMessages = accepted
  /\ closed => IsPrefix(toTarget, accepted)

\* The browser gets the target's TCP stream from the first byte of the greeting
\* with no byte lost, repeated or out of order, and it is never behind while its
\* WebSocket can be written to (#sendTargetData, #handleTargetTcpData).
GaplessClientStream ==
  /\ clientStream = Bytes(1, Len(clientStream))
  /\ ~closed /\ targetHandshakeVerified /\ WsWritable => Len(clientStream) = received

BytesOf(s) ==
  LET sum[i \in 0..Len(s)] == IF i = 0 THEN 0 ELSE sum[i - 1] + Size[s[i]]
  IN  sum[Len(s)]

\* pendingBytes is the size of what is held back, within maxBufferedBytes.
PendingBytesExact ==
  /\ pendingBytes = BytesOf(pendingMessages)
  /\ pendingBytes <= MaxBufferedBytes

\* A closed session holds nothing: no timer, no held payload, no live socket to
\* the target, no open WebSocket, and it gave its slot up once; an open one
\* still has its slot, and its WebSocket has not finished closing (close, #fail
\* and the onClose callback through which each of them enters the other).
NothingLeftBehind ==
  /\ closed => /\ ~targetHandshakeTimer /\ pendingMessages = << >> /\ ws # "open"
               /\ tcp \notin TcpLive /\ udp \notin UdpOpen
  /\ released = IF closed THEN 1 ELSE 0
  /\ ~closed => ws # "closed"

\* The preflight deadline runs from the first step of an open session until the
\* target is verified, whatever the lookup and the sockets do (#connect).
DeadlineCoversPreflight ==
  ~closed => (targetHandshakeTimer <=> ~targetHandshakeVerified)

\* Closing is final: although the lookup may still answer, and events of its
\* sockets and the callback of udp.connect may still come, a closed session stays
\* closed, sends nothing in either direction, holds nothing again and does not
\* give its slot up a second time (close, #finish and the guards on closed).
ClosedIsFinal ==
  [][closed => closed' /\ UNCHANGED <<history, pendingMessages, released>>]_vars

(***************************************************************************)
(* The session as the gated channel of module VerifiedRelay.               *)
(***************************************************************************)
Phase == CASE closed -> "ended" [] ~closed /\ connecting -> "held" [] OTHER -> "open"

Relay == INSTANCE VerifiedRelay WITH
  phase <- Phase, genuine <- Genuine, taken <- accepted, delivered <- toTarget

\* Every step of the session is a step of the gated channel, or leaves it alone.
ImplementsRelay == Relay!Spec

\* The gate of the channel opens, or the session ends: neither a silent target,
\* nor a name that is never resolved, nor a UDP socket that becomes ready late
\* keeps a session in its preflight (README: "silent targets are closed").
GateSettles == Relay!Settles

\* server/README.md:141: client traffic is held until the greeting check "and the
\* UDP socket are both ready".
HeldUntilUdpConnected == toTarget # << >> => udp \in {"connected", "closed"}

\* README.md:114: "Idle [...] sessions are closed instead of being forwarded
\* indefinitely": once the browser has sent Close, the session ends.
ClosedByBrowserEnds == (ws = "closing") ~> closed

=============================================================================
