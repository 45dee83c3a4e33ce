----------------------------- MODULE PlayerRoster -----------------------------
(***************************************************************************)
(* client/state.ts once more: what the reducer keeps of the players beside *)
(* the flags of WorldState, as far as a page shows it: whether a tank is   *)
(* alive, which the code stores twice (a bit of the status of the server,  *)
(* and a field of its own), the score, which it stores twice as well (of   *)
(* the player, and by player id), the state of the connection, the map,    *)
(* and the revision that tells readers that something changed.             *)
(***************************************************************************)
EXTENDS Naturals, Sequences, FiniteSets, SequencesExt

CONSTANTS
  Tanks,            \* player ids a packet may name
  MaxTanks,         \* limit of players
  Reported,         \* statuses an update may carry, sets of status bits
  Wins,             \* scores a packet may carry
  Geometries,       \* maps a decoder may hand over, sequences of object kinds
  MaxRevision       \* bound: packets that are applied

ASSUME RosterAssumption ==
  /\ MaxTanks \in Nat \ {0} /\ MaxRevision \in Nat
  /\ \A status \in Reported : status \subseteq {"alive", "paused", "teleporting"}

VARIABLES
  tanks,       \* the known players
  tankAge,     \* their ids, in the order of the Map's keys
  scores,      \* wins by player id, of players that need not be known
  entities,    \* what is known beside the tanks: a shot, a flag
  phase,       \* of the connection
  geometry,    \* the map, once it is decoded
  revision,
  announced    \* history: players known from the packet that adds them

rosterVars == <<tanks, tankAge, scores, entities, phase, geometry, revision, announced>>

NoGeometry == << >>

RosterInit ==
  /\ tanks = << >> /\ tankAge = << >> /\ scores = << >> /\ entities = {}
  /\ phase = "connecting" /\ geometry = NoGeometry
  /\ revision = 0 /\ announced = {}

\* #touch, of every packet that is applied.
Touch == revision < MaxRevision /\ revision' = revision + 1

Joined(t) == t \in DOMAIN tanks
But(map, key) == [k \in DOMAIN map \ {key} |-> map[k]]
Put(map, key, value) == [k \in DOMAIN map \cup {key} |-> IF k = key THEN value ELSE map[k]]

\* copyPlayer of what a packet says: `alive' is a field that no packet has.
CopyPlayer(status, wins) == [status |-> status, alive |-> FALSE, wins |-> wins]

HasRoom(t) == Joined(t) \/ Len(tankAge) < MaxTanks
Aged(t) == IF Joined(t) THEN tankAge ELSE Append(tankAge, t)

\* The player, or the one that #ensurePlayer makes: without a status or a score.
Ensured(t) == IF Joined(t) THEN tanks[t] ELSE CopyPlayer({}, 0)

\* #removePlayerReferences: the shots of a player go with it.
ShotsGo == entities' \in {entities, entities \ {"shot"}}

\* Mutated form of AddTank: the score of an earlier player of that id stays.
AddTankOldScore(t, wins) ==
  /\ HasRoom(t) /\ Touch
  /\ tanks' = Put(tanks, t, CopyPlayer({}, wins))
  /\ tankAge' = Aged(t)
  /\ scores' = IF t \in DOMAIN scores THEN scores ELSE Put(scores, t, wins)
  /\ announced' = announced \cup {t}
  /\ UNCHANGED <<entities, phase, geometry>>

\* MSG_ADD_PLAYER, of a new player or of one that joins again.
AddTank(t, wins) ==
  /\ HasRoom(t) /\ Touch
  /\ tanks' = Put(tanks, t, CopyPlayer({}, wins))
  /\ tankAge' = Aged(t)
  /\ scores' = Put(scores, t, wins)
  /\ announced' = announced \cup {t}
  /\ IF Joined(t) THEN ShotsGo ELSE UNCHANGED entities
  /\ UNCHANGED <<phase, geometry>>

\* MSG_REMOVE_PLAYER.
RemoveTank(t) ==
  /\ Joined(t) /\ Touch
  /\ tanks' = But(tanks, t) /\ tankAge' = Remove(tankAge, t)
  /\ scores' = But(scores, t)
  /\ announced' = announced \ {t}
  /\ ShotsGo
  /\ UNCHANGED <<phase, geometry>>

\* MSG_PLAYER_UPDATE and its small form: the status is taken over, `alive' is
\* not derived from it.
UpdateTank(t, status) ==
  /\ HasRoom(t) /\ Touch
  /\ tanks' = Put(tanks, t, [Ensured(t) EXCEPT !.status = status])
  /\ tankAge' = Aged(t)
  /\ UNCHANGED <<scores, entities, phase, geometry, announced>>

\* MSG_ALIVE.
SpawnTank(t) ==
  /\ HasRoom(t) /\ Touch
  /\ LET tank == Ensured(t)
     IN tanks' = Put(tanks, t, [tank EXCEPT !.alive = TRUE,
                                            !.status = (@ \cup {"alive"}) \ {"teleporting"}])
  /\ tankAge' = Aged(t)
  /\ UNCHANGED <<scores, entities, phase, geometry, announced>>

\* MSG_KILLED.
KillTank(t) ==
  /\ Joined(t) /\ Touch
  /\ tanks' = [tanks EXCEPT ![t].alive = FALSE, ![t].status = @ \ {"alive", "teleporting"}]
  /\ UNCHANGED <<tankAge, scores, entities, phase, geometry, announced>>

\* MSG_PAUSE.
PauseTank(t, paused) ==
  /\ Joined(t) /\ Touch
  /\ tanks' = [tanks EXCEPT ![t].status = IF paused THEN @ \cup {"paused"} ELSE @ \ {"paused"}]
  /\ UNCHANGED <<tankAge, scores, entities, phase, geometry, announced>>

\* MSG_TELEPORT.
TeleportTank(t) ==
  /\ Joined(t) /\ Touch
  /\ tanks' = [tanks EXCEPT ![t].status = @ \cup {"teleporting"}]
  /\ UNCHANGED <<tankAge, scores, entities, phase, geometry, announced>>

\* MSG_SCORE: the player need not be known.
Score(t, wins) ==
  /\ Touch
  /\ scores' = Put(scores, t, wins)
  /\ tanks' = IF Joined(t) THEN [tanks EXCEPT ![t].wins = wins] ELSE tanks
  /\ UNCHANGED <<tankAge, entities, phase, geometry, announced>>

\* A packet of WorldState that adds or takes away a shot or a flag.
ChangeEntities(known) ==
  /\ known # entities /\ Touch
  /\ entities' = known
  /\ UNCHANGED <<tanks, tankAge, scores, phase, geometry, announced>>

\* MSG_ACCEPT and MSG_REJECT.
Answer(accepted) ==
  /\ Touch
  /\ phase' = IF accepted THEN "accepted" ELSE "rejected"
  /\ UNCHANGED <<tanks, tankAge, scores, entities, geometry, announced>>

\* What is applied and no scene shows: autopilot, teams, the rabbit, chat.
Unseen == Touch /\ UNCHANGED <<tanks, tankAge, scores, entities, phase, geometry, announced>>

\* Mutated form of SetWorldGeometry: the change is not announced.
SetWorldGeometrySilently(objects) ==
  /\ revision < MaxRevision /\ revision' = revision
  /\ geometry' = objects
  /\ UNCHANGED <<tanks, tankAge, scores, entities, phase, announced>>

\* setWorldGeometry: normalizeWorldGeometry passes on the objects of the map
\* and leaves out its water.
SetWorldGeometry(objects) ==
  /\ Touch
  /\ geometry' = objects
  /\ UNCHANGED <<tanks, tankAge, scores, entities, phase, announced>>

\* snapshot, a deep copy.
RosterSnapshot ==
  [revision |-> revision, tanks |-> [i \in DOMAIN tankAge |-> <<tankAge[i], tanks[tankAge[i]]>>],
   entities |-> entities, geometry |-> geometry, water |-> FALSE]

\* A packet that is applied.
ApplyPacket ==
  \/ \E t \in Tanks, wins \in Wins : AddTank(t, wins) \/ Score(t, wins)
  \/ \E t \in Tanks : RemoveTank(t) \/ SpawnTank(t) \/ KillTank(t) \/ TeleportTank(t)
  \/ \E t \in Tanks, status \in Reported : UpdateTank(t, status)
  \/ \E t \in Tanks, paused \in BOOLEAN : PauseTank(t, paused)
  \/ \E known \in SUBSET {"shot", "flag"} : ChangeEntities(known)
  \/ \E accepted \in BOOLEAN : Answer(accepted)
  \/ Unseen

RosterNext == ApplyPacket \/ \E objects \in Geometries : SetWorldGeometry(objects)

-----------------------------------------------------------------------------
\* The two records of a score agree for every player that the server announced,
\* whatever the order of scores, joins and departures of that id before.
ScoresAgree ==
  \A t \in announced :
    /\ t \in DOMAIN tanks /\ t \in DOMAIN scores
    /\ scores[t] = tanks[t].wins
=============================================================================
