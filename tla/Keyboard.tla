------------------------------ MODULE Keyboard ------------------------------
(***************************************************************************)
(* The keys of client/game.ts and the input encoder of client/protocol.ts, *)
(* on top of the session: a command goes from the key through the gate of  *)
(* the lifecycle, the state of the tank, the encoder and the choice of a   *)
(* channel, and only then to the socket.  The gate decides how much state  *)
(* the encoder is given, not whether it is called.  Keys that send nothing *)
(* (menus, chat, jump) are left out, and two keys of one command are one.  *)
(***************************************************************************)
EXTENDS ClientSession, FiniteSets

CONSTANT MaxHeld   \* bound: keys that are held at once

ASSUME KeyboardAssumption == MaxHeld \in Nat

VARIABLES
  pressed,   \* keys whose release was not seen
  wire       \* the message this step has sent, if any

keyVars == <<pressed, wire>>

Nothing == [message |-> "none", channel |-> "none"]
KeyboardInit == Init /\ pressed = {} /\ wire = Nothing

\* isGameplayInput
Gameplay == {"move", "fire", "drop-flag"}
Commands == Gameplay \cup {"pause", "auto-pilot", "restart", "exit"}

\* Mutated form of CanSendSessionInput: a paused tank may act.
CanSendWhilePaused(command, phase) ==
  /\ ~s.closed /\ s.phase \notin {"rejected", "left", "closing"}
  /\ command \in Gameplay => s.joined /\ s.alive
  /\ command = "restart" => s.joined /\ ~s.alive /\ phase = "end"
  /\ command = "pause" => s.joined

CanSendSessionInput(command, phase) ==
  /\ ~s.closed /\ s.phase \notin {"rejected", "left", "closing"}
  /\ command \in Gameplay => s.joined /\ s.alive /\ ~s.paused
  /\ command = "restart" => s.joined /\ ~s.alive /\ phase = "end"
  /\ command = "pause" => s.joined

\* resolveInputChannel, of commands and shots.
InputChannel(command) ==
  CASE command = "fire" -> IF s.udpReady /\ UseUDP THEN "udp" ELSE "none"
    [] command = "move" -> IF s.udpReady THEN "udp" ELSE "tcp"
    [] OTHER            -> "tcp"

\* createFiringState, for a channel that takes shots.
Firing == InputChannel("fire") = "udp" /\ s.tankAlive /\ ~s.tankPaused

\* getInputState of bindKeyboard: the whole state of the tank, or the bare command.
WholeState(command, phase) ==
  /\ CanSendSessionInput(command, phase)
  /\ s.physicsReady /\ s.playerId
  /\ command = "fire" /\ phase = "start" => Firing

\* encodeInput: gameplay needs the whole state; a pause without it is one that
\* ends; a spawn, the exit and the autopilot need none.
EncodeInput(command, phase) ==
  LET whole == WholeState(command, phase)
  IN CASE command = "move" /\ whole                              -> "PlayerUpdate"
       [] command = "fire" /\ phase = "start" /\ whole           -> "ShotBegin"
       [] command = "drop-flag" /\ phase = "start" /\ whole      -> "DropFlag"
       [] command = "pause" /\ phase = "start" /\ whole /\ ~s.paused -> "Pause"
       [] command = "pause" /\ phase = "start" /\ ~(whole /\ ~s.paused) -> "Resume"
       [] command = "auto-pilot" /\ phase = "start"              -> "AutoPilot"
       [] command = "restart" /\ phase = "end"                   -> "Alive"
       [] command = "exit" /\ phase = "start"                    -> "Exit"
       [] OTHER                                                  -> "none"

\* sendCommand, with what the session does after a command was sent.
SendCommand(command, phase) ==
  LET message == EncodeInput(command, phase)
  IN IF readyState = "open" /\ message # "none"
       THEN /\ wire' = [message |-> message, channel |-> InputChannel(command)]
            /\ CASE message = "Alive" -> Restart
                 [] message = "Exit"  -> Exit
                 [] OTHER             -> UNCHANGED vars
       ELSE wire' = Nothing /\ UNCHANGED vars

\* handleKeyDown: in a text field, and while the key repeats, it does nothing.
Press(command, inField) ==
  /\ Idle /\ Cardinality(pressed) < MaxHeld
  /\ IF inField \/ command \in pressed
       THEN wire' = Nothing /\ UNCHANGED <<vars, pressed>>
       ELSE pressed' = pressed \cup {command} /\ SendCommand(command, "start")

\* handleKeyUp: in a text field as well, and of a key that went down there.
Release(command) ==
  /\ Idle
  /\ pressed' = pressed \ {command}
  /\ SendCommand(command, "end")

KeyboardNext ==
  \/ \E command \in Commands, inField \in BOOLEAN : Press(command, inField)
  \/ \E command \in Commands : Release(command)
  \/ NextButKeys /\ wire' = Nothing /\ UNCHANGED pressed

KeyboardSpec == KeyboardInit /\ [][KeyboardNext]_<<vars, keyVars>>

-----------------------------------------------------------------------------
\* What acts for the tank leaves only while the page shows it playing and the
\* state it is encoded from says so too: not of a tank that is dead, paused or not
\* yet placed (canSendSessionInput, getInputState of bindKeyboard, sendCommand).
ActsInPlay ==
  /\ wire.message \in {"PlayerUpdate", "ShotBegin", "DropFlag"} =>
       /\ s.phase = "playing" /\ s.joined
       /\ s.physicsReady /\ s.tankAlive /\ ~s.tankPaused
  /\ wire.message = "Pause" => s.joined /\ ~s.paused

\* "Fire input suppressed until the UDP link is ready": once the server has
\* confirmed the link of a session that is open, a shot finds its channel.  The
\* code drops the confirmation as a packet it cannot decode.
ConfirmedShoots ==
  confirmed /\ readyState = "open" /\ ~s.closed => InputChannel("fire") = "udp"
=============================================================================
