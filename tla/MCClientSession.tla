--------------------------- MODULE MCClientSession ---------------------------
(* Keyboard on ClientSession, and the stream and the codec of protocol.ts   *)
(* it is fed by, each with small constants.  A session may be handed any    *)
(* packet in any order, so the three share no state, and one moves only     *)
(* while the others stand at their beginning.                               *)
EXTENDS Keyboard, PacketStream, PacketCodec

\* Packets without a payload, of the largest size, and one byte beyond it.
MCScripts == UNION {[1 .. n -> {0, 5, 6}] : n \in 0 .. 4}
\* What BZFS passes on as it is, and what it puts the sender in front of.
MCVerbatim == {"PlayerUpdate", "ShotBegin", "ShotEnd"}
MCPrefixed == {"Killed", "Pause", "AutoPilot", "Teleport"}

NoStream == StreamInit /\ greeting = "ok" /\ script = <<>>
MCInit == KeyboardInit /\ StreamInit /\ CodecInit
SessionMoves == NoStream /\ CodecInit /\ KeyboardNext /\ UNCHANGED <<streamVars, codecVars>>
StreamMoves == KeyboardInit /\ CodecInit /\ StreamNext /\ UNCHANGED <<vars, keyVars, codecVars>>
CodecMoves == NoStream /\ KeyboardInit /\ CodecNext /\ UNCHANGED <<vars, keyVars, streamVars>>
MCSpec == MCInit /\ [][SessionMoves \/ StreamMoves \/ CodecMoves]_<<vars, keyVars, streamVars, codecVars>>
=============================================================================
