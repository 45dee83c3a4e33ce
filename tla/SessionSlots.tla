--------------------------- MODULE SessionSlots ---------------------------
(***************************************************************************)
(* What the gateway promises about its bridge sessions, whatever becomes   *)
(* of sockets, timers and counters: a connection gets a session at most    *)
(* once, only while fewer than the limits are really held, in all and from *)
(* its address, and none once the gateway has reported that it is shut.    *)
(***************************************************************************)
EXTENDS Integers, FiniteSets

CONSTANTS Conns, Ips, MaxSessions, MaxSessionsPerIp

VARIABLES
  waiting,    \* connections that may still ask for a session
  held,       \* connections that hold one
  clientIp,   \* the address of each connection
  shut        \* whether the end of the service was reported

slotVars == <<waiting, held, clientIp, shut>>

Init ==
  /\ waiting = Conns /\ held = {}
  /\ clientIp \in [Conns -> Ips]
  /\ shut = FALSE

HeldFrom(ip) == {c \in held : clientIp[c] = ip}

Grant(c) ==
  /\ ~shut /\ c \in waiting
  /\ Cardinality(held) < MaxSessions
  /\ Cardinality(HeldFrom(clientIp[c])) < MaxSessionsPerIp
  /\ waiting' = waiting \ {c} /\ held' = held \cup {c}
  /\ UNCHANGED <<clientIp, shut>>

\* Connections go, and sessions with them or before them, for good.
Leave ==
  /\ waiting' \in SUBSET waiting /\ held' \in SUBSET held
  /\ UNCHANGED <<clientIp, shut>>

Shut ==
  /\ ~shut /\ held = {}
  /\ shut' = TRUE
  /\ UNCHANGED <<waiting, held, clientIp>>

Next == Leave \/ Shut \/ \E c \in Conns : Grant(c)

Spec == Init /\ [][Next]_slotVars

=============================================================================
