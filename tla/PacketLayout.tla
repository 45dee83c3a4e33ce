---------------------------- MODULE PacketLayout ----------------------------
(***************************************************************************)
(* The payloads of the packets as src/client/protocol.ts writes and reads  *)
(* them: for every encoder the bytes it allocates and the fields it sets,  *)
(* for every decoder the sizes it accepts and the fields it gets.  The     *)
(* sizes are the constants of the source, which are added up by hand       *)
(* there; the fields are in the order of the code.                         *)
(***************************************************************************)
EXTENDS Naturals, Sequences

\* A field: its name, how it is stored, and whether a value may be refused.
Field(name, as)  == [name |-> name, as |-> as, checked |-> FALSE]
Valid(name, as)  == [name |-> name, as |-> as, checked |-> TRUE]
Player(name)     == Valid(name, "u8")
Float(name)      == Valid(name, "f32")
Vector(name)     == Valid(name, "vector")

Width == [u8 |-> 1, u16 |-> 2, i16 |-> 2, i32 |-> 4, u32 |-> 4, f32 |-> 4, letters |-> 2,
          vector |-> 12, smallVector |-> 6, callsign |-> 32, motto |-> 128,
          token |-> 22, version |-> 60, text |-> 128, sizes |-> 24]

\* The *_BYTES constants, as they are added up in the source.
FlagBytes == 55
\* A mutant: ALIVE_PAYLOAD_BYTES forgets the player id.
AliveBytesShort == 12 + 4
AliveBytes == 1 + 12 + 4
Size ==
  [enter |-> 1 + 4 + 32 + 128 + 22 + 60, addPlayer |-> 1 + 2 + 2 + 2 + 2 + 2 + 32 + 128,
   team |-> 2 + 2 + 2 + 2, score |-> 1 + 2 + 2 + 2, messageOut |-> 1 + 128, message |-> 3,
   shotEnd |-> 1 + 2 + 2, killedOut |-> 1 + 2 + 2 + 2, killed |-> 1 + 1 + 2 + 2 + 2,
   captureOut |-> 2, capture |-> 1 + 2 + 2, flagEvent |-> 1 + 2 + FlagBytes,
   transferOut |-> 2, transfer |-> 2 + FlagBytes, teleportOut |-> 4, teleport |-> 1 + 4,
   toggleOut |-> 1, toggle |-> 1 + 1, rabbit |-> 1, scoreOver |-> 1 + 2, time |-> 4,
   update |-> 4 + 1 + 4 + 2 + 12 + 12 + 4 + 4, updateSmall |-> 4 + 1 + 4 + 2 + 6 + 6 + 2 + 2,
   fire |-> 4 + 1 + 2 + 12 + 12 + 4 + 2 + 2 + 4, settings |-> 30, query |-> 44, offset |-> 4]

\* Fields that are there only when a bit of the status is set.
When(bit, fields) == [bit |-> bit, fields |-> fields]

\* What all layouts have: n bytes at least or exactly, the fields, then a
\* counted record at most `most` times, then the conditional fields.
Payload(exact, n, fields, tail) ==
  [exact |-> exact, n |-> n, fields |-> fields, record |-> <<>>, bytes |-> 0, most |-> 0,
   tail |-> tail]
Exactly(n, fields) == Payload(TRUE, n, fields, <<>>)
AtLeast(n, fields) == Payload(FALSE, n, fields, <<>>)
Counted(n, fields, most, bytes, record) ==
  [exact |-> TRUE, n |-> n, fields |-> fields, record |-> record, bytes |-> bytes,
   most |-> most, tail |-> <<>>]

\* PLAYER_STATUS: the bits that add fields to a player update, in the order
\* in which encodePlayerUpdate writes and decodePlayerUpdate reads them.
StatusTail ==
  <<When("jumpJets", <<Field("jumpJetsScale", "i16")>>),
    When("onDriver", <<Field("physicsDriver", "i32")>>),
    When("userInputs", <<Field("userSpeed", "i16"), Field("userAngularVelocity", "i16")>>),
    When("playSound", <<Field("sounds", "u8")>>)>>

DriverTail == <<When("physicsDriverDeath", <<Field("physicsDriver", "i32")>>)>>

UpdateFields(motion) ==
  <<Float("timestamp"), Field("playerId", "u8"), Field("order", "i32"), Field("status", "i16")>>
  \o motion
ShotFields ==
  <<Float("timeSent"), Field("playerId", "u8"), Field("shotId", "u16"), Vector("position"),
    Vector("velocity"), Float("dt"), Field("team", "i16"), Field("flag", "letters"),
    Float("lifetime")>>
FullMotion ==
  <<Vector("position"), Vector("velocity"), Float("azimuth"), Float("angularVelocity")>>

EncodePlayerUpdate == Payload(FALSE, Size.update, UpdateFields(FullMotion), StatusTail)

\* The encoders of a session's own tank.
TankEncoders ==
  [Enter |-> AtLeast(Size.enter, <<Field("type", "u16"), Field("team", "i16"),
               Field("nickname", "callsign"), Field("motto", "motto"),
               Field("token", "token"), Field("version", "version")>>),
   PlayerUpdate |-> EncodePlayerUpdate,
   ShotBegin |-> AtLeast(Size.fire, ShotFields)]

\* The encoders of commands; they send nothing when an id, an index, a team
\* or a flag is not valid.
CommandEncoders ==
  [DropFlag |-> AtLeast(12, <<Vector("position")>>),
   GrabFlag |-> AtLeast(2, <<Valid("flagIndex", "u16")>>),
   Message |-> AtLeast(Size.messageOut, <<Valid("destination", "u8"), Field("message", "text")>>),
   ShotEnd |-> AtLeast(Size.shotEnd, <<Player("playerId"), Valid("shotId", "i16"), Valid("reason", "u16")>>),
   CaptureFlag |-> AtLeast(Size.captureOut, <<Valid("team", "u16")>>),
   Teleport |-> AtLeast(Size.teleportOut, <<Valid("from", "u16"), Valid("to", "u16")>>),
   TransferFlag |-> AtLeast(Size.transferOut, <<Player("from"), Player("to")>>),
   AutoPilot |-> AtLeast(Size.toggleOut, <<Field("state", "u8")>>),
   Pause |-> AtLeast(Size.toggleOut, <<Field("state", "u8")>>),
   Killed |-> Payload(FALSE, Size.killedOut, <<Valid("killer", "u8"), Valid("reason", "i16"), Valid("shotId", "i16"),
                            Valid("flagType", "letters")>>, DriverTail)]

\* The encoders of the exchange that sets a session up.
SetupEncoders ==
  [NoPayload |-> AtLeast(0, <<>>), \* queries, the UDP link, a new rabbit
   NegotiateFlags |-> Counted(0, <<>>, 46, 2, <<Field("flag", "letters")>>),
   GetWorld |-> AtLeast(Size.offset, <<Field("offset", "u32")>>),
   UDPLinkRequest |-> AtLeast(1, <<Player("playerId")>>)]

\* decodeFlagRecord
FlagRecord ==
  <<Valid("flagType", "letters"), Valid("status", "u16"), Valid("endurance", "u16"),
    Field("owner", "u8"), Vector("position"), Vector("launchPosition"),
    Vector("landingPosition"), Float("flightTime"), Float("flightEnd"),
    Float("initialVelocity")>>

\* A mutant: the optional fields are read in the order of their bits.
StatusTailByBit == <<StatusTail[2], StatusTail[3], StatusTail[1], StatusTail[4]>>
\* The optional fields decodePlayerUpdate reads.
StatusTailRead == StatusTail

\* decodePlayerUpdate
DecodePlayerUpdate ==
  Payload(FALSE, Size.update, UpdateFields(FullMotion), StatusTailRead)
DecodePlayerUpdateSmall ==
  Payload(FALSE, Size.updateSmall, UpdateFields(<<Field("position", "smallVector"), Field("velocity", "smallVector"),
     Field("azimuth", "i16"), Field("angularVelocity", "i16")>>), StatusTailRead)

\* The decoders of packets about players and shots.
TankDecoders ==
  [AddPlayer |-> AtLeast(Size.addPlayer, <<Field("playerId", "u8"), Field("type", "u16"),
                   Field("team", "u16"), Field("wins", "u16"), Field("losses", "u16"),
                   Field("tks", "u16"), Field("nickname", "callsign"), Field("motto", "motto")>>),
   RemovePlayer |-> AtLeast(1, <<Field("playerId", "u8")>>),
   PlayerUpdate |-> DecodePlayerUpdate,
   PlayerUpdateSmall |-> DecodePlayerUpdateSmall,
   ShotBegin |-> AtLeast(Size.fire, ShotFields),
   ShotEnd |-> Exactly(Size.shotEnd, <<Field("playerId", "u8"), Field("shotId", "i16"), Field("reason", "u16")>>)]

\* The decoders of teams, deaths and flags.
FlagDecoders ==
  [TeamUpdate |-> Counted(1, <<Field("count", "u8")>>, 8, Size.team,
                    <<Valid("team", "u16"), Field("size", "u16"), Field("wins", "u16"),
                      Field("losses", "u16")>>),
   Killed |-> Payload(TRUE, Size.killed, <<Player("victim"), Field("killer", "u8"), Field("reason", "i16"),
                 Field("shotId", "i16"), Valid("flagType", "letters")>>, DriverTail),
   GrabFlag |-> Exactly(Size.flagEvent, <<Player("playerId"), Field("flagIndex", "u16")>> \o FlagRecord),
   DropFlag |-> Exactly(Size.flagEvent, <<Player("playerId"), Field("flagIndex", "u16")>> \o FlagRecord),
   CaptureFlag |-> Exactly(Size.capture, <<Player("playerId"), Field("flagIndex", "u16"), Valid("team", "u16")>>),
   Teleport |-> Exactly(Size.teleport, <<Player("playerId"), Field("from", "u16"), Field("to", "u16")>>),
   TransferFlag |-> Exactly(Size.transfer, <<Player("from"), Player("to")>> \o FlagRecord)]

\* The decoders of the game's state; a string at the end of a payload is as
\* long as what is left of it.
GameDecoders ==
  [Pause |-> Exactly(Size.toggle, <<Player("playerId"), Valid("state", "u8")>>),
   AutoPilot |-> Exactly(Size.toggle, <<Player("playerId"), Valid("state", "u8")>>),
   NewRabbit |-> Exactly(Size.rabbit, <<Player("playerId")>>),
   Score |-> Counted(1, <<Field("count", "u8")>>, 255, Size.score,
               <<Player("playerId"), Field("wins", "u16"), Field("losses", "u16"),
                 Field("tks", "u16")>>),
   ScoreOver |-> Exactly(Size.scoreOver, <<Field("playerId", "u8"), Valid("team", "u16")>>),
   TimeUpdate |-> Exactly(Size.time, <<Field("timeLeft", "i32")>>),
   FlagUpdate |-> Counted(2, <<Field("count", "u16")>>, 64, 2 + FlagBytes,
                    <<Field("flagIndex", "u16")>> \o FlagRecord),
   Message |-> AtLeast(Size.message, <<Field("source", "u8"), Field("destination", "u8"), Field("type", "u8")>>),
   Alive |-> AtLeast(AliveBytes, <<Field("playerId", "u8"), Vector("position"), Float("azimuth")>>),
   Reject |-> AtLeast(2, <<Field("reasonCode", "u16")>>)]

\* The decoders of the exchange that sets a session up; two packets have no
\* payload.
SetupDecoders ==
  [Accept |-> Exactly(0, <<>>),
   SuperKill |-> Exactly(0, <<>>),
   NegotiateFlags |-> Counted(0, <<>>, 510, 2, <<Valid("flag", "letters")>>),
   WorldChunk |-> AtLeast(Size.offset, <<Valid("bytesLeft", "u32")>>),
   GameSettings |-> AtLeast(Size.settings, <<Field("worldSize", "f32"), Field("gameType", "u16"),
                      Field("gameOptions", "u16"), Field("playerSlot", "u16"),
                      Field("maxShots", "u16"), Field("maxFlags", "u16"),
                      Field("linearAcceleration", "f32"), Field("angularAcceleration", "f32"),
                      Field("shakeTimeout", "u16"), Field("shakeWins", "u16"),
                      Field("syncTime", "u32")>>),
   WorldHash |-> AtLeast(1, <<Valid("temporary", "u8")>>),
   QueryGame |-> AtLeast(Size.query, <<Field("gameType", "u16"), Field("gameOptions", "u16"),
                   Field("maxPlayers", "u16"), Field("maxShots", "u16"), Field("teams", "sizes"),
                   Field("shakeWins", "u16"), Field("shakeTimeout", "u16"),
                   Field("maxPlayerScore", "u16"), Field("maxTeamScore", "u16"),
                   Field("maxTime", "u16"), Field("timeElapsed", "u16")>>)]

\* decodePacketData: the decoder of every code.
Either(f, g) == [p \in DOMAIN f \cup DOMAIN g |-> IF p \in DOMAIN f THEN f[p] ELSE g[p]]
Decoders == Either(Either(TankDecoders, FlagDecoders), Either(GameDecoders, SetupDecoders))
Encoders == Either(TankEncoders, Either(CommandEncoders, SetupEncoders))
=============================================================================
