----------------------------- MODULE WorldState -----------------------------
(***************************************************************************)
(* client/state.ts: the reducer that turns the packets of a BZFlag server  *)
(* into the world the renderer draws.  What is kept of a player is the     *)
(* flag it carries and whether it is the rabbit; of a flag its status and  *)
(* owner, which the code stores a second time, apart from the carrier.     *)
(* Packets are those that decodePacketData hands over; one that is refused *)
(* changes nothing and is no step, but for the transfer of a flag, which   *)
(* the module remembers.  Positions, teams, scores, chat and the states of *)
(* a tank (alive, paused, autopilot, teleporting) are left out.            *)
(***************************************************************************)
EXTENDS Naturals, Sequences, FiniteSets, SequencesExt

CONSTANTS
  Players, Flags,   \* player ids and flag indexes a packet may name
  NoPlayer, NoFlag, \* 255 or null, and null
  ShotIds,
  MaxPlayers, MaxFlags, MaxShots, \* limits of the StateLimits
  MaxOrder,         \* bound: the largest order of a player update
  MaxBatch          \* bound: records in a flag update

ASSUME WorldAssumption ==
  /\ MaxPlayers \in Nat \ {0} /\ MaxFlags \in Nat \ {0} /\ MaxShots \in Nat \ {0}
  /\ MaxOrder \in Nat /\ MaxBatch \in Nat
  /\ NoPlayer \notin Players /\ NoFlag \notin Flags

VARIABLES
  players,       \* known players, with the flag they carry
  flags,         \* known flags
  flagAge,       \* their indexes, in the order of the Map's keys
  shots,         \* player and shot ids, in the order of the Map's keys
  playerOrders,  \* order of the last update that was applied
  localPlayerId, rabbitPlayerId,
  transferTo     \* history: known player that the last packet gave a flag

vars == <<players, flags, flagAge, shots, playerOrders, localPlayerId,
          rabbitPlayerId, transferTo>>

Statuses == {"onGround", "onTank", "inAir"} \* inAir: any other status

\* A flag.  stranger is history: on a tank, says the server, but of a player
\* that the reducer did not know when it was told.
Flag(status, owner, stranger) ==
  [status |-> status, owner |-> owner, stranger |-> stranger]

NewPlayer == [flagIndex |-> NoFlag, rabbit |-> FALSE]

Init ==
  /\ players = << >> /\ flags = << >> /\ flagAge = << >>
  /\ shots = << >> /\ playerOrders = << >>
  /\ localPlayerId = NoPlayer /\ rabbitPlayerId = NoPlayer
  /\ transferTo = NoPlayer

Known(p) == p \in DOMAIN players

Without(map, key) == [k \in DOMAIN map \ {key} |-> map[k]]
With(map, key, value) ==
  [k \in DOMAIN map \cup {key} |-> IF k = key THEN value ELSE map[k]]

-----------------------------------------------------------------------------
(* The private helpers of the class, as functions of who carries what.     *)

Carried(known, told, age) == [players |-> known, flags |-> told, age |-> age]
Carriage == Carried(players, flags, flagAge)

Becomes(w) == players' = w.players /\ flags' = w.flags /\ flagAge' = w.age

Released(flag) ==
  Flag(IF flag.status = "onTank" THEN "onGround" ELSE flag.status, NoPlayer, FALSE)

EmptyHanded(player) == [player EXCEPT !.flagIndex = NoFlag]

\* Mutated form of ClearPlayerFlag: the flag is not told.
ClearPlayerOnly(w, p) ==
  IF p \in DOMAIN w.players
    THEN [w EXCEPT !.players[p] = EmptyHanded(w.players[p])]
    ELSE w

\* #clearPlayerFlag without an index.
ClearPlayerFlag(w, p) ==
  IF p \notin DOMAIN w.players \/ w.players[p].flagIndex = NoFlag THEN w
  ELSE LET f == w.players[p].flagIndex
           owned == f \in DOMAIN w.flags /\ w.flags[f].owner = p
       IN Carried([w.players EXCEPT ![p] = EmptyHanded(@)],
                  IF owned THEN With(w.flags, f, Released(w.flags[f])) ELSE w.flags,
                  w.age)

ClearFlagCarrier(w, f) ==
  Carried([p \in DOMAIN w.players |->
             IF w.players[p].flagIndex = f
               THEN EmptyHanded(w.players[p])
               ELSE w.players[p]],
          IF f \in DOMAIN w.flags THEN With(w.flags, f, Released(w.flags[f])) ELSE w.flags,
          w.age)

\* p, which is known, takes flag f; whatever it carried is released first.
SetFlagCarrier(w, p, f) ==
  LET v == IF w.players[p].flagIndex \in {NoFlag, f} THEN w ELSE ClearPlayerFlag(w, p)
      u == ClearFlagCarrier(v, f)
  IN [u EXCEPT !.players[p].flagIndex = f]

\* #boundedMapInsert of a flag: the oldest one makes room for a new one.  Who
\* carries the flag that goes is not told.
InsertFlag(w, f, flag) ==
  LET full == f \notin DOMAIN w.flags /\ Len(w.age) >= MaxFlags
      kept == IF full THEN Without(w.flags, Head(w.age)) ELSE w.flags
      age  == IF full THEN Tail(w.age) ELSE w.age
  IN Carried(w.players, With(kept, f, flag),
             IF f \in DOMAIN w.flags THEN age ELSE Append(age, f))

\* p holds f, after the flag was inserted as carried by p.
Carry(w, p, f) ==
  LET flag == Flag("onTank", p, FALSE)
      v == SetFlagCarrier(InsertFlag(w, f, flag), p, f)
  IN [v EXCEPT !.flags[f] = flag]

\* The part of #removePlayerReferences that is about flags.  Only players that
\* are still known are looked at, and a flag that was evicted has no owner.
ReleaseFlagsOf(w, p) ==
  LET left == [f \in DOMAIN w.flags |->
                 IF w.flags[f].owner = p THEN Released(w.flags[f]) ELSE w.flags[f]]
      Holds(q) == /\ q # p
                  /\ w.players[q].flagIndex \in DOMAIN left
                  /\ left[w.players[q].flagIndex].owner = q
  IN Carried([q \in DOMAIN w.players |->
                IF Holds(q) THEN w.players[q] ELSE EmptyHanded(w.players[q])],
             left, w.age)

-----------------------------------------------------------------------------
(* Players.                                                                *)

\* A player that is not known can be added only below the limit.
RoomFor(p) == Known(p) \/ Cardinality(DOMAIN players) < MaxPlayers

ShotsBut(p) == SelectSeq(shots, LAMBDA shot : shot[1] # p)

\* MSG_ADD_PLAYER.  A known player loses its flag, shots and order.
AddPlayer(p, local) ==
  /\ RoomFor(p)
  /\ LET w == IF Known(p) THEN ReleaseFlagsOf(Carriage, p) ELSE Carriage
     IN Becomes([w EXCEPT !.players = With(w.players, p, NewPlayer)])
  /\ shots' = IF Known(p) THEN ShotsBut(p) ELSE shots
  /\ playerOrders' = Without(playerOrders, p)
  /\ rabbitPlayerId' = IF rabbitPlayerId = p THEN NoPlayer ELSE rabbitPlayerId
  /\ localPlayerId' = IF local THEN p ELSE localPlayerId
  /\ transferTo' = NoPlayer

\* Mutated form of RemovePlayer: the order of the last update is kept.
RemovePlayerKeepsOrder(p) ==
  /\ Known(p)
  /\ Becomes(ReleaseFlagsOf([Carriage EXCEPT !.players = Without(players, p)], p))
  /\ shots' = ShotsBut(p)
  /\ rabbitPlayerId' = IF rabbitPlayerId = p THEN NoPlayer ELSE rabbitPlayerId
  /\ localPlayerId' = IF localPlayerId = p THEN NoPlayer ELSE localPlayerId
  /\ transferTo' = NoPlayer
  /\ UNCHANGED playerOrders

\* MSG_REMOVE_PLAYER.  The player is deleted before what refers to it.
RemovePlayer(p) ==
  /\ Known(p)
  /\ Becomes(ReleaseFlagsOf([Carriage EXCEPT !.players = Without(players, p)], p))
  /\ shots' = ShotsBut(p)
  /\ playerOrders' = Without(playerOrders, p)
  /\ rabbitPlayerId' = IF rabbitPlayerId = p THEN NoPlayer ELSE rabbitPlayerId
  /\ localPlayerId' = IF localPlayerId = p THEN NoPlayer ELSE localPlayerId
  /\ transferTo' = NoPlayer

\* #ensurePlayer, where there is room for a player that is not known.
EnsurePlayer(p) ==
  IF Known(p) THEN Carriage ELSE [Carriage EXCEPT !.players = With(players, p, NewPlayer)]

\* Mutated form of Fresh: the order is not compared.
FreshAlways(p, order) == TRUE

\* Not a stale-player-order.
Fresh(p, order) == p \in DOMAIN playerOrders => order > playerOrders[p]

\* MSG_PLAYER_UPDATE and MSG_PLAYER_UPDATE_SMALL.
PlayerUpdate(p, order) ==
  /\ Fresh(p, order) /\ RoomFor(p)
  /\ Becomes(EnsurePlayer(p))
  /\ playerOrders' = With(playerOrders, p, order)
  /\ transferTo' = NoPlayer
  /\ UNCHANGED <<shots, localPlayerId, rabbitPlayerId>>

\* MSG_ALIVE.
Alive(p) ==
  /\ RoomFor(p)
  /\ Becomes(ClearPlayerFlag(EnsurePlayer(p), p))
  /\ transferTo' = NoPlayer
  /\ UNCHANGED <<shots, playerOrders, localPlayerId, rabbitPlayerId>>

\* MSG_KILLED.
Killed(victim) ==
  /\ Known(victim)
  /\ Becomes(ClearPlayerFlag(Carriage, victim))
  /\ transferTo' = NoPlayer
  /\ UNCHANGED <<shots, playerOrders, localPlayerId, rabbitPlayerId>>

\* MSG_NEW_RABBIT.
NewRabbit(p) ==
  /\ Known(p)
  /\ players' = [q \in DOMAIN players |-> [players[q] EXCEPT !.rabbit = (q = p)]]
  /\ rabbitPlayerId' = p
  /\ transferTo' = NoPlayer
  /\ UNCHANGED <<flags, flagAge, shots, playerOrders, localPlayerId>>

-----------------------------------------------------------------------------
(* Shots.  The shooter need not be known.                                  *)

\* MSG_SHOT_BEGIN: the oldest shot makes room for a new one.
ShotBegin(p, id) ==
  /\ <<p, id>> \notin ToSet(shots)
  /\ shots' = Append(IF Len(shots) >= MaxShots THEN Tail(shots) ELSE shots, <<p, id>>)
  /\ transferTo' = NoPlayer
  /\ UNCHANGED <<players, flags, flagAge, playerOrders, localPlayerId, rabbitPlayerId>>

\* MSG_SHOT_END.
ShotEnd(p, id) ==
  /\ <<p, id>> \in ToSet(shots)
  /\ shots' = SelectSeq(shots, LAMBDA shot : shot # <<p, id>>)
  /\ transferTo' = NoPlayer
  /\ UNCHANGED <<players, flags, flagAge, playerOrders, localPlayerId, rabbitPlayerId>>

-----------------------------------------------------------------------------
(* Flags.                                                                  *)

\* MSG_GRAB_FLAG.
GrabFlag(p, f) ==
  /\ Known(p)
  /\ Becomes(Carry(Carriage, p, f))
  /\ transferTo' = NoPlayer
  /\ UNCHANGED <<shots, playerOrders, localPlayerId, rabbitPlayerId>>

\* MSG_DROP_FLAG: the player need not be the one that carries the flag.
DropFlag(p, f, status) ==
  /\ Known(p)
  /\ LET w == IF players[p].flagIndex = f THEN ClearPlayerFlag(Carriage, p) ELSE Carriage
     IN Becomes(InsertFlag(ClearFlagCarrier(w, f), f, Flag(status, NoPlayer, FALSE)))
  /\ transferTo' = NoPlayer
  /\ UNCHANGED <<shots, playerOrders, localPlayerId, rabbitPlayerId>>

\* MSG_CAPTURE_FLAG: the player loses its flag, whichever that is.
CaptureFlag(p, f) ==
  /\ Known(p)
  /\ Becomes(InsertFlag(ClearFlagCarrier(ClearPlayerFlag(Carriage, p), f), f,
                        Flag("onGround", NoPlayer, FALSE)))
  /\ transferTo' = NoPlayer
  /\ UNCHANGED <<shots, playerOrders, localPlayerId, rabbitPlayerId>>

\* MSG_TRANSFER_FLAG: decodeTransferFlag finds no flagIndex in the packet, and
\* the reducer refuses one that has none; nothing changes.
TransferFlag(from, to) ==
  /\ Known(from) /\ players[from].flagIndex # NoFlag /\ Known(to) /\ from # to
  /\ transferTo' = to
  /\ UNCHANGED <<players, flags, flagAge, shots, playerOrders, localPlayerId,
                 rabbitPlayerId>>

\* One record of a flag update.  An owner that is not known leaves the player
\* that carried the flag with it.
UpdateFlag(record, w) ==
  LET f == record.index
      known == record.owner \in DOMAIN w.players
      v == InsertFlag(w, f, Flag(record.status, record.owner, ~known))
  IN IF record.status # "onTank"
       THEN ClearFlagCarrier(InsertFlag(w, f, Flag(record.status, record.owner, FALSE)), f)
       ELSE IF known THEN Carry(w, record.owner, f) ELSE v

Records ==
  [index : Flags, status : {"onTank"}, owner : Players]
    \cup [index : Flags, status : Statuses \ {"onTank"}, owner : {NoPlayer}]

\* The records of a flag update, each applied to what the one before it left.
UpdateFlags(w, batch) ==
  LET after[n \in 0 .. Len(batch)] ==
        IF n = 0 THEN w ELSE UpdateFlag(batch[n], after[n - 1])
  IN after[Len(batch)]

\* MSG_FLAG_UPDATE: the records are checked, no index twice, before the first
\* one is applied.
FlagUpdate(batch) ==
  /\ batch # << >>
  /\ \A i, j \in DOMAIN batch : i # j => batch[i].index # batch[j].index
  /\ Becomes(UpdateFlags(Carriage, batch))
  /\ transferTo' = NoPlayer
  /\ UNCHANGED <<shots, playerOrders, localPlayerId, rabbitPlayerId>>

-----------------------------------------------------------------------------
Next ==
  \/ \E p \in Players, local \in BOOLEAN : AddPlayer(p, local)
  \/ \E p \in Players : RemovePlayer(p) \/ Alive(p) \/ Killed(p) \/ NewRabbit(p)
  \/ \E p \in Players, order \in 0 .. MaxOrder : PlayerUpdate(p, order)
  \/ \E p \in Players, id \in ShotIds : ShotBegin(p, id) \/ ShotEnd(p, id)
  \/ \E p \in Players, f \in Flags : GrabFlag(p, f) \/ CaptureFlag(p, f)
  \/ \E p \in Players, f \in Flags, status \in Statuses : DropFlag(p, f, status)
  \/ \E from, to \in Players : TransferFlag(from, to)
  \/ \E batch \in BoundedSeq(Records, MaxBatch) : FlagUpdate(batch)

Spec == Init /\ [][Next]_vars

-----------------------------------------------------------------------------
(* Properties.                                                             *)

\* The two records of who has a flag, the flag's owner and the player's
\* flagIndex, agree for every flag that is known and whose carrier was known
\* when the server named it; so nobody carries one that lies on the ground or
\* flies.  Two players never carry the same flag, whatever the order of grabs,
\* drops, captures, flag updates, deaths and evictions.
CarrierAgrees ==
  /\ \A f \in DOMAIN flags :
       ~flags[f].stranger =>
         \A p \in Players :
           (flags[f].status = "onTank" /\ flags[f].owner = p)
             <=> (Known(p) /\ players[p].flagIndex = f)
  /\ \A p, q \in DOMAIN players :
       p # q /\ players[p].flagIndex # NoFlag => players[p].flagIndex # players[q].flagIndex

\* Nothing is remembered of a player that left: the local player and the rabbit
\* are known, the rabbit is the only one marked as it, and an order is kept for
\* known players only, so one that joins again is heard from its first update on.
ReferencesLive ==
  /\ localPlayerId # NoPlayer => Known(localPlayerId)
  /\ rabbitPlayerId # NoPlayer => Known(rabbitPlayerId)
  /\ \A p \in DOMAIN players : players[p].rabbit <=> rabbitPlayerId = p
  /\ DOMAIN playerOrders \subseteq DOMAIN players

\* While a player stays known, an update older than the last one is not applied.
OrdersAdvance ==
  [][\A p \in DOMAIN playerOrders \cap DOMAIN playerOrders' :
       playerOrders'[p] >= playerOrders[p]]_vars

\* When a packet has given a flag of one known player to another, that other
\* one carries a flag.
TransferReaches == transferTo # NoPlayer => players[transferTo].flagIndex # NoFlag
=============================================================================
