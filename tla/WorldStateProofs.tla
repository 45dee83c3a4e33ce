-------------------------- MODULE WorldStateProofs --------------------------
(***************************************************************************)
(* Proofs about WorldState and about Scene, for any players, flags, limits *)
(* and maps.                                                               *)
(*                                                                         *)
(* WorldState: the owner of a flag and the flag of a player agree, nothing *)
(* is kept of a player that left, and the order of a known player never    *)
(* goes back, with flag updates of any length.                             *)
(*                                                                         *)
(* Scene: the scores of PlayerRoster agree, the loop of the renderer runs  *)
(* while it is ready and no longer, and a frame draws the world as it is,  *)
(* whatever the cache holds; what a scene is made of does not matter.      *)
(***************************************************************************)
EXTENDS WorldState, Scene, WellFoundedInduction, TLAPS

PlayerRecords == [flagIndex : Flags \cup {NoFlag}, rabbit : BOOLEAN]
FlagRecords ==
  [status : Statuses, owner : Players \cup {NoPlayer}, stranger : BOOLEAN]

\* What the helpers of the reducer take and return.
Typed(w) ==
  /\ w = [players |-> w.players, flags |-> w.flags, age |-> w.age]
  /\ DOMAIN w.players \subseteq Players
  /\ w.players \in [DOMAIN w.players -> PlayerRecords]
  /\ DOMAIN w.flags \subseteq Flags
  /\ w.flags \in [DOMAIN w.flags -> FlagRecords]

Carries(w, p, f) == p \in DOMAIN w.players /\ w.players[p].flagIndex = f
Owns(w, p, f) == w.flags[f].status = "onTank" /\ w.flags[f].owner = p

\* The two records agree on who has the flag, unless its carrier was a stranger.
AgreeOn(w, p, f) == ~w.flags[f].stranger => (Owns(w, p, f) <=> Carries(w, p, f))

NoneShared(w) ==
  \A p, q \in DOMAIN w.players :
    p # q /\ w.players[p].flagIndex # NoFlag => w.players[p].flagIndex # w.players[q].flagIndex

Agree(w) ==
  Typed(w) /\ NoneShared(w) /\ \A f \in DOMAIN w.flags, p \in Players : AgreeOn(w, p, f)

\* They agree on every flag but one, whose carrier is about to be told.
AgreeBut(w, f) ==
  Typed(w) /\ NoneShared(w) /\ \A g \in DOMAIN w.flags \ {f}, p \in Players : AgreeOn(w, p, g)

\* They agree on every player but one, which is about to go.
AgreeButFor(w, p) ==
  Typed(w) /\ NoneShared(w) /\ \A f \in DOMAIN w.flags, q \in Players \ {p} : AgreeOn(w, q, f)

\* The helpers neither add nor remove a player, and leave the rabbit alone.
SameMarks(v, w) ==
  /\ DOMAIN v.players = DOMAIN w.players
  /\ \A p \in DOMAIN w.players : v.players[p].rabbit = w.players[p].rabbit

Orders == \A p \in DOMAIN playerOrders : playerOrders[p] \in Nat

IInv == Agree(Carriage) /\ ReferencesLive /\ Orders

-----------------------------------------------------------------------------
(* The helpers.                                                            *)

LEMMA ClearPlayerTyped ==
  ASSUME NEW w, NEW p, Typed(w)
  PROVE  Typed(ClearPlayerFlag(w, p)) /\ SameMarks(ClearPlayerFlag(w, p), w)
<1> USE WorldAssumption
<1>1. CASE p \notin DOMAIN w.players \/ w.players[p].flagIndex = NoFlag
  BY <1>1 DEF ClearPlayerFlag, SameMarks
<1>2. CASE ~(p \notin DOMAIN w.players \/ w.players[p].flagIndex = NoFlag)
  <2> DEFINE f == w.players[p].flagIndex
             flag == w.flags[f]
  <2>1. CASE f \in DOMAIN w.flags /\ w.flags[f].owner = p
    <3>1. ClearPlayerFlag(w, p) =
            [players |-> [w.players EXCEPT ![p] = EmptyHanded(w.players[p])],
             flags   |-> With(w.flags, f, Released(flag)), age |-> w.age]
      BY <1>2, <2>1 DEF ClearPlayerFlag, Carried, Typed
    <3>2. Released(flag) \in FlagRecords
      BY <2>1 DEF Released, Flag, FlagRecords, Statuses, Typed
    <3> QED  BY <1>2, <2>1, <3>1, <3>2 DEF Typed, SameMarks, EmptyHanded, With, PlayerRecords
  <2>2. CASE ~(f \in DOMAIN w.flags /\ w.flags[f].owner = p)
    <3>1. ClearPlayerFlag(w, p) =
            [players |-> [w.players EXCEPT ![p] = EmptyHanded(w.players[p])],
             flags   |-> w.flags, age |-> w.age]
      BY <1>2, <2>2 DEF ClearPlayerFlag, Carried, Typed
    <3> QED  BY <1>2, <2>2, <3>1 DEF Typed, SameMarks, EmptyHanded, PlayerRecords
  <2> QED  BY <2>1, <2>2
<1> QED  BY <1>1, <1>2

LEMMA ClearPlayerEmpties ==
  ASSUME NEW w, NEW p \in DOMAIN w.players, Typed(w)
  PROVE  LET v == ClearPlayerFlag(w, p)
         IN /\ DOMAIN v.flags = DOMAIN w.flags /\ v.players[p].flagIndex = NoFlag
            /\ \A q \in DOMAIN w.players \ {p} : v.players[q].flagIndex = w.players[q].flagIndex
            /\ \A g \in DOMAIN w.flags :
                 v.flags[g] = IF w.players[p].flagIndex = g /\ w.flags[g].owner = p
                                THEN Released(w.flags[g]) ELSE w.flags[g]
<1> USE WorldAssumption
<1>1. CASE w.players[p].flagIndex = NoFlag
  BY <1>1 DEF ClearPlayerFlag, Carried, Typed
<1>2. CASE w.players[p].flagIndex # NoFlag
  <2> DEFINE f == w.players[p].flagIndex
             owned == f \in DOMAIN w.flags /\ w.flags[f].owner = p
  <2>1. ClearPlayerFlag(w, p) =
          [players |-> [w.players EXCEPT ![p] = EmptyHanded(w.players[p])],
           flags   |-> IF owned THEN With(w.flags, f, Released(w.flags[f])) ELSE w.flags,
           age     |-> w.age]
    BY <1>2 DEF ClearPlayerFlag, Carried, Typed
  <2>2. EmptyHanded(w.players[p]).flagIndex = NoFlag
    BY DEF EmptyHanded, Typed, PlayerRecords
  <2> QED  BY <2>1, <2>2 DEF With, Typed
<1> QED  BY <1>1, <1>2

\* A flag that is released has no owner, and nobody was a stranger to it.
LEMMA ReleasedFlag ==
  ASSUME NEW flag \in FlagRecords
  PROVE  /\ Released(flag) \in FlagRecords
         /\ Released(flag).owner = NoPlayer /\ Released(flag).status # "onTank"
BY DEF Released, Flag, FlagRecords, Statuses

\* A player that loses its flag leaves the records in agreement.
LEMMA ClearPlayerAgrees ==
  ASSUME NEW w, NEW p \in DOMAIN w.players
  PROVE  /\ Agree(w) => Agree(ClearPlayerFlag(w, p))
         /\ \A f : AgreeBut(w, f) => AgreeBut(ClearPlayerFlag(w, p), f)
<1> USE WorldAssumption
<1> DEFINE v == ClearPlayerFlag(w, p)
<1>1. ASSUME Typed(w), NoneShared(w)
      PROVE  /\ Typed(v) /\ NoneShared(v) /\ DOMAIN v.flags = DOMAIN w.flags
             /\ \A g \in DOMAIN w.flags, q \in Players : AgreeOn(w, p, g) /\ AgreeOn(w, q, g) => AgreeOn(v, q, g)
  <2>1. Typed(v) /\ SameMarks(v, w)
    BY <1>1, ClearPlayerTyped
  <2>2. /\ DOMAIN v.flags = DOMAIN w.flags /\ v.players[p].flagIndex = NoFlag
        /\ \A q \in DOMAIN w.players \ {p} : v.players[q].flagIndex = w.players[q].flagIndex
        /\ \A g \in DOMAIN w.flags :
             v.flags[g] = IF w.players[p].flagIndex = g /\ w.flags[g].owner = p
                            THEN Released(w.flags[g]) ELSE w.flags[g]
    BY <1>1, ClearPlayerEmpties
  <2> HIDE DEF v
  <2>3. NoneShared(v)
    BY <1>1, <2>1, <2>2 DEF NoneShared, SameMarks
  <2>4. ASSUME NEW g \in DOMAIN w.flags, NEW q \in Players, AgreeOn(w, p, g), AgreeOn(w, q, g)
        PROVE  AgreeOn(v, q, g)
    <3>1. w.flags[g] \in FlagRecords /\ g \in Flags /\ p \in Players
      BY <1>1 DEF Typed
    <3>2. CASE w.players[p].flagIndex = g /\ w.flags[g].owner = p
      <4>1. ~Owns(v, q, g)
        BY <2>2, <3>1, <3>2, ReleasedFlag DEF Owns
      <4>2. ~Carries(v, q, g)
        BY <1>1, <2>1, <2>2, <3>1, <3>2 DEF Carries, NoneShared, SameMarks
      <4> QED  BY <4>1, <4>2 DEF AgreeOn
    <3>3. CASE ~(w.players[p].flagIndex = g /\ w.flags[g].owner = p)
      <4>1. v.flags[g] = w.flags[g]
        BY <2>2, <3>3
      <4>2. Carries(v, q, g) <=> Carries(w, q, g) /\ q # p
        BY <2>1, <2>2, <3>1 DEF Carries, SameMarks
      <4> QED  BY <2>4, <3>1, <3>3, <4>1, <4>2 DEF AgreeOn, Owns, Carries
    <3> QED  BY <3>2, <3>3
  <2> QED  BY <2>1, <2>2, <2>3, <2>4
<1> HIDE DEF v
<1>2. Typed(w) => p \in Players
  BY DEF Typed
<1>3. Agree(w) => Agree(v)
  BY <1>1, <1>2 DEF Agree
<1>4. \A f : AgreeBut(w, f) => AgreeBut(v, f)
  BY <1>1, <1>2 DEF AgreeBut
<1> QED  BY <1>3, <1>4 DEF v

LEMMA ClearCarrierIs ==
  ASSUME NEW w, NEW f, Typed(w)
  PROVE  LET v == ClearFlagCarrier(w, f)
         IN /\ Typed(v) /\ SameMarks(v, w) /\ DOMAIN v.flags = DOMAIN w.flags
            /\ \A q \in DOMAIN w.players :
                 v.players[q].flagIndex = IF w.players[q].flagIndex = f
                                            THEN NoFlag ELSE w.players[q].flagIndex
            /\ \A g \in DOMAIN w.flags :
                 v.flags[g] = IF g = f THEN Released(w.flags[g]) ELSE w.flags[g]
<1> USE WorldAssumption
<1> DEFINE v == ClearFlagCarrier(w, f)
<1>1. v = [players |-> [p \in DOMAIN w.players |->
                          IF w.players[p].flagIndex = f
                            THEN EmptyHanded(w.players[p]) ELSE w.players[p]],
           flags |-> IF f \in DOMAIN w.flags
                       THEN With(w.flags, f, Released(w.flags[f])) ELSE w.flags,
           age |-> w.age]
  BY DEF ClearFlagCarrier, Carried
<1>2. \A q \in DOMAIN w.players :
        /\ EmptyHanded(w.players[q]) \in PlayerRecords
        /\ EmptyHanded(w.players[q]).flagIndex = NoFlag
        /\ EmptyHanded(w.players[q]).rabbit = w.players[q].rabbit
  BY DEF EmptyHanded, Typed, PlayerRecords
<1>3. \A g \in DOMAIN w.flags : Released(w.flags[g]) \in FlagRecords
  BY ReleasedFlag DEF Typed
<1> HIDE DEF v
<1>4. /\ DOMAIN v.flags = DOMAIN w.flags
      /\ \A g \in DOMAIN w.flags :
           v.flags[g] = IF g = f THEN Released(w.flags[g]) ELSE w.flags[g]
      /\ v.flags = [g \in DOMAIN w.flags |-> v.flags[g]]
  BY <1>1 DEF With, Typed
<1>5. /\ DOMAIN v.players = DOMAIN w.players
      /\ v.players \in [DOMAIN v.players -> PlayerRecords]
      /\ \A q \in DOMAIN w.players :
           /\ v.players[q].flagIndex = IF w.players[q].flagIndex = f
                                         THEN NoFlag ELSE w.players[q].flagIndex
           /\ v.players[q].rabbit = w.players[q].rabbit
  BY <1>1, <1>2 DEF Typed
<1>6. v = [players |-> v.players, flags |-> v.flags, age |-> v.age]
  BY <1>1
<1>7. Typed(v)
  BY <1>3, <1>4, <1>5, <1>6 DEF Typed
<1> QED  BY <1>4, <1>5, <1>7 DEF SameMarks, v

\* After the carrier of a flag is cleared, nobody has it, and what was told of it
\* before does not matter.
LEMMA ClearCarrierAgrees ==
  ASSUME NEW w, NEW f \in Flags, AgreeBut(w, f)
  PROVE  /\ Agree(ClearFlagCarrier(w, f))
         /\ \A q \in Players : ~Carries(ClearFlagCarrier(w, f), q, f)
<1> USE WorldAssumption
<1> DEFINE v == ClearFlagCarrier(w, f)
<1>1. /\ Typed(v) /\ SameMarks(v, w) /\ DOMAIN v.flags = DOMAIN w.flags
      /\ \A q \in DOMAIN w.players :
           v.players[q].flagIndex = IF w.players[q].flagIndex = f
                                      THEN NoFlag ELSE w.players[q].flagIndex
      /\ \A g \in DOMAIN w.flags :
           v.flags[g] = IF g = f THEN Released(w.flags[g]) ELSE w.flags[g]
  BY ClearCarrierIs DEF AgreeBut
<1> HIDE DEF v
<1>2. NoneShared(v)
  BY <1>1 DEF AgreeBut, NoneShared, SameMarks
<1>3. ASSUME NEW q \in Players PROVE ~Carries(v, q, f)
  BY <1>1 DEF Carries, SameMarks
<1>4. ASSUME NEW g \in DOMAIN w.flags, NEW q \in Players PROVE AgreeOn(v, q, g)
  <2>1. g \in Flags /\ w.flags[g] \in FlagRecords
    BY DEF AgreeBut, Typed
  <2>2. CASE g = f
    BY <1>1, <1>3, <2>1, <2>2, ReleasedFlag DEF AgreeOn, Owns
  <2>3. CASE g # f
    BY <1>1, <2>1, <2>3 DEF AgreeBut, AgreeOn, Owns, Carries, SameMarks
  <2> QED  BY <2>2, <2>3
<1> QED  BY <1>1, <1>2, <1>3, <1>4 DEF Agree, v

\* A flag that is put may push another one out; no player is told.
LEMMA InsertIs ==
  ASSUME NEW w, NEW f \in Flags, NEW flag \in FlagRecords, Typed(w)
  PROVE  LET v == InsertFlag(w, f, flag)
         IN /\ Typed(v) /\ v.players = w.players
            /\ f \in DOMAIN v.flags /\ v.flags[f] = flag
            /\ \A g \in DOMAIN v.flags \ {f} : g \in DOMAIN w.flags /\ v.flags[g] = w.flags[g]
<1> DEFINE v == InsertFlag(w, f, flag)
<1>1. PICK kept, age : /\ v = Carried(w.players, With(kept, f, flag), age)
                       /\ kept = w.flags \/ kept = Without(w.flags, Head(w.age))
  BY DEF InsertFlag
<1> HIDE DEF v
<1>2. /\ DOMAIN kept \subseteq DOMAIN w.flags
      /\ \A g \in DOMAIN kept : kept[g] = w.flags[g]
  BY <1>1 DEF Without
<1>3. v.players = w.players /\ v.flags = With(kept, f, flag) /\ v.age = age
  BY <1>1 DEF Carried
<1>4. /\ DOMAIN v.flags = DOMAIN kept \cup {f} /\ v.flags[f] = flag
      /\ \A g \in DOMAIN v.flags \ {f} : g \in DOMAIN kept /\ v.flags[g] = kept[g]
      /\ v.flags = [g \in DOMAIN v.flags |-> v.flags[g]]
  BY <1>3 DEF With
<1>5. \A g \in DOMAIN v.flags : v.flags[g] \in FlagRecords
  BY <1>2, <1>4 DEF Typed
<1>6. v = [players |-> v.players, flags |-> v.flags, age |-> v.age]
  BY <1>1 DEF Carried
<1>7. Typed(v)
  BY <1>2, <1>3, <1>4, <1>5, <1>6 DEF Typed
<1> QED  BY <1>2, <1>3, <1>4, <1>7 DEF v

LEMMA InsertAgrees ==
  ASSUME NEW w, NEW f \in Flags, NEW flag \in FlagRecords, Agree(w)
  PROVE  LET v == InsertFlag(w, f, flag)
         IN /\ AgreeBut(v, f)
            /\ flag.stranger => Agree(v)
            /\ flag.owner = NoPlayer /\ (\A q \in Players : ~Carries(w, q, f)) => Agree(v)
<1> USE WorldAssumption
<1> DEFINE v == InsertFlag(w, f, flag)
<1>1. /\ Typed(v) /\ v.players = w.players
      /\ f \in DOMAIN v.flags /\ v.flags[f] = flag
      /\ \A g \in DOMAIN v.flags \ {f} : g \in DOMAIN w.flags /\ v.flags[g] = w.flags[g]
  BY InsertIs DEF Agree
<1> HIDE DEF v
<1>2. NoneShared(v)
  BY <1>1 DEF Agree, NoneShared
<1>3. AgreeBut(v, f)
  BY <1>1, <1>2 DEF Agree, AgreeBut, AgreeOn, Owns, Carries
<1>4. (\A q \in Players : AgreeOn(v, q, f)) => Agree(v)
  BY <1>3 DEF Agree, AgreeBut
<1>5. flag.stranger => \A q \in Players : AgreeOn(v, q, f)
  BY <1>1 DEF AgreeOn
<1>6. flag.owner = NoPlayer /\ (\A q \in Players : ~Carries(w, q, f)) =>
        \A q \in Players : AgreeOn(v, q, f)
  BY <1>1 DEF AgreeOn, Owns, Carries
<1> QED  BY <1>3, <1>4, <1>5, <1>6 DEF v

\* A known player that takes a flag, from whomever, is the one that has it.
LEMMA CarryAgrees ==
  ASSUME NEW w, NEW p \in DOMAIN w.players, NEW f \in Flags, Agree(w)
  PROVE  Agree(Carry(w, p, f)) /\ SameMarks(Carry(w, p, f), w)
<1> USE WorldAssumption
<1> DEFINE flag == Flag("onTank", p, FALSE)
           i == InsertFlag(w, f, flag)
           v == IF i.players[p].flagIndex \in {NoFlag, f} THEN i ELSE ClearPlayerFlag(i, p)
           u == ClearFlagCarrier(v, f)
           c == [u EXCEPT !.players[p].flagIndex = f]
           d == [c EXCEPT !.flags[f] = flag]
<1>1. Carry(w, p, f) = d
  BY DEF Carry, SetFlagCarrier
<1>2. p \in Players /\ flag \in FlagRecords /\ flag.owner = p /\ flag.status = "onTank"
  BY DEF Agree, Typed, Flag, FlagRecords, Statuses
<1> HIDE DEF flag
<1>3. AgreeBut(i, f) /\ i.players = w.players /\ f \in DOMAIN i.flags
  BY <1>2, InsertAgrees, InsertIs DEF Agree
<1> HIDE DEF i
<1>4. /\ AgreeBut(v, f) /\ SameMarks(v, w) /\ f \in DOMAIN v.flags
      /\ v.players[p].flagIndex \in {NoFlag, f}
  <2>1. CASE i.players[p].flagIndex \in {NoFlag, f}
    BY <1>3, <2>1 DEF SameMarks
  <2>2. CASE i.players[p].flagIndex \notin {NoFlag, f}
    <3>1. v = ClearPlayerFlag(i, p)
      BY <2>2
    <3>2. p \in DOMAIN i.players /\ Typed(i)
      BY <1>3 DEF AgreeBut
    <3> HIDE DEF v
    <3>3. AgreeBut(v, f)
      BY <1>3, <3>1, <3>2, ClearPlayerAgrees
    <3>4. SameMarks(v, i)
      BY <3>1, <3>2, ClearPlayerTyped
    <3>5. DOMAIN v.flags = DOMAIN i.flags /\ v.players[p].flagIndex = NoFlag
      BY <3>1, <3>2, ClearPlayerEmpties
    <3> QED  BY <1>3, <3>3, <3>4, <3>5 DEF SameMarks
  <2> QED  BY <2>1, <2>2
<1> HIDE DEF v
<1>5. /\ Agree(u) /\ SameMarks(u, w) /\ f \in DOMAIN u.flags
      /\ \A q \in Players : ~Carries(u, q, f)
      /\ u.players[p].flagIndex = NoFlag
  BY <1>4, ClearCarrierAgrees, ClearCarrierIs DEF SameMarks, AgreeBut
<1> HIDE DEF u
<1>6. /\ DOMAIN d.players = DOMAIN u.players
      /\ d.players[p] = [u.players[p] EXCEPT !.flagIndex = f]
      /\ \A q \in DOMAIN u.players \ {p} : d.players[q] = u.players[q]
      /\ d.players = [q \in DOMAIN d.players |-> d.players[q]]
      /\ DOMAIN d.flags = DOMAIN u.flags /\ d.flags[f] = flag
      /\ \A g \in DOMAIN u.flags \ {f} : d.flags[g] = u.flags[g]
      /\ d.flags = [g \in DOMAIN d.flags |-> d.flags[g]]
      /\ d = [players |-> d.players, flags |-> d.flags, age |-> d.age]
  <2>1. u = [players |-> u.players, flags |-> u.flags, age |-> u.age]
    BY <1>5 DEF Agree, Typed
  <2>2. /\ u.players = [q \in DOMAIN u.players |-> u.players[q]]
        /\ u.flags = [g \in DOMAIN u.flags |-> u.flags[g]]
        /\ p \in DOMAIN u.players
    BY <1>5 DEF Agree, Typed, SameMarks
  <2>3. c = [players |-> [u.players EXCEPT ![p] = [@ EXCEPT !.flagIndex = f]],
             flags |-> u.flags, age |-> u.age]
    BY <2>1
  <2>4. d = [players |-> c.players, flags |-> [c.flags EXCEPT ![f] = flag], age |-> c.age]
    <3> HIDE DEF c
    <3> QED  BY <2>3
  <2> QED  BY <1>5, <2>2, <2>3, <2>4
<1> HIDE DEF d
<1>7. /\ d.players[p].flagIndex = f /\ d.players[p].rabbit = u.players[p].rabbit
      /\ d.players[p] \in PlayerRecords
  BY <1>5, <1>6 DEF Agree, Typed, PlayerRecords, SameMarks
<1>8. Typed(d)
  BY <1>2, <1>5, <1>6, <1>7 DEF Agree, Typed
<1>9. SameMarks(d, w)
  BY <1>5, <1>6, <1>7 DEF SameMarks
<1>10. NoneShared(d)
  <2>1. \A q \in DOMAIN u.players : q \in Players /\ u.players[q].flagIndex # f
    BY <1>5 DEF Agree, Typed, Carries
  <2>2. /\ DOMAIN d.players = DOMAIN u.players /\ d.players[p].flagIndex = f
        /\ \A q \in DOMAIN u.players \ {p} : d.players[q].flagIndex = u.players[q].flagIndex
    BY <1>6, <1>7
  <2>3. NoneShared(u)
    BY <1>5 DEF Agree
  <2>4. ASSUME NEW a \in DOMAIN d.players, NEW b \in DOMAIN d.players, a # b,
               d.players[a].flagIndex # NoFlag
        PROVE  d.players[a].flagIndex # d.players[b].flagIndex
    <3>1. CASE a = p
      BY <2>1, <2>2, <2>4, <3>1
    <3>2. CASE b = p
      BY <2>1, <2>2, <2>4, <3>2
    <3>3. CASE a # p /\ b # p
      BY <2>2, <2>3, <2>4, <3>3 DEF NoneShared
    <3> QED  BY <3>1, <3>2, <3>3
  <2> QED  BY <2>4 DEF NoneShared
<1>11. ASSUME NEW g \in DOMAIN d.flags, NEW q \in Players PROVE AgreeOn(d, q, g)
  <2>1. CASE g = f
    BY <1>2, <1>5, <1>6, <1>7, <2>1 DEF AgreeOn, Owns, Carries, SameMarks
  <2>2. CASE g # f
    <3>1. AgreeOn(u, q, g)
      BY <1>5, <1>6 DEF Agree
    <3>2. Carries(d, q, g) <=> Carries(u, q, g)
      <4>1. g # NoFlag
        BY <1>5, <1>6 DEF Agree, Typed
      <4> QED  BY <1>5, <1>6, <1>7, <2>2, <4>1 DEF Carries
    <3> QED  BY <1>6, <2>2, <3>1, <3>2 DEF AgreeOn, Owns
  <2> QED  BY <2>1, <2>2
<1> QED  BY <1>1, <1>8, <1>9, <1>10, <1>11 DEF Agree

\* What refers to a player that goes is released, and it carries nothing.
LEMMA ReleaseAgrees ==
  ASSUME NEW w, NEW p \in Players, AgreeButFor(w, p)
  PROVE  LET v == ReleaseFlagsOf(w, p)
         IN /\ Agree(v) /\ SameMarks(v, w)
            /\ \A f \in DOMAIN v.flags : v.flags[f].owner # p
            /\ \A f \in Flags : ~Carries(v, p, f)
<1> USE WorldAssumption
<1> DEFINE left == [f \in DOMAIN w.flags |->
                     IF w.flags[f].owner = p THEN Released(w.flags[f]) ELSE w.flags[f]]
           Holds(q) == /\ q # p
                       /\ w.players[q].flagIndex \in DOMAIN left
                       /\ left[w.players[q].flagIndex].owner = q
           held == [q \in DOMAIN w.players |->
                      IF Holds(q) THEN w.players[q] ELSE EmptyHanded(w.players[q])]
           v == ReleaseFlagsOf(w, p)
<1>1. v.players = held /\ v.flags = left /\ v = [players |-> held, flags |-> left, age |-> w.age]
  BY DEF ReleaseFlagsOf, Carried
<1>2. \A q \in DOMAIN w.players :
        /\ EmptyHanded(w.players[q]) \in PlayerRecords
        /\ EmptyHanded(w.players[q]).flagIndex = NoFlag
        /\ EmptyHanded(w.players[q]).rabbit = w.players[q].rabbit
  BY DEF EmptyHanded, AgreeButFor, Typed, PlayerRecords
<1>3. \A f \in DOMAIN w.flags :
        /\ Released(w.flags[f]) \in FlagRecords
        /\ Released(w.flags[f]).owner = NoPlayer /\ Released(w.flags[f]).status # "onTank"
  BY ReleasedFlag DEF AgreeButFor, Typed
<1> HIDE DEF v
<1>4. /\ DOMAIN v.flags = DOMAIN w.flags /\ v.flags \in [DOMAIN w.flags -> FlagRecords]
      /\ \A f \in DOMAIN w.flags :
           /\ w.flags[f].owner = p => v.flags[f].owner = NoPlayer /\ v.flags[f].status # "onTank"
           /\ w.flags[f].owner # p => v.flags[f] = w.flags[f]
  BY <1>1, <1>3 DEF AgreeButFor, Typed
<1>5. /\ DOMAIN v.players = DOMAIN w.players
      /\ v.players \in [DOMAIN w.players -> PlayerRecords]
      /\ \A q \in DOMAIN w.players :
           /\ v.players[q].rabbit = w.players[q].rabbit
           /\ v.players[q].flagIndex =
                IF /\ q # p /\ w.players[q].flagIndex \in DOMAIN v.flags
                   /\ v.flags[w.players[q].flagIndex].owner = q
                  THEN w.players[q].flagIndex ELSE NoFlag
  BY <1>1, <1>2 DEF AgreeButFor, Typed
<1>6. Typed(v) /\ SameMarks(v, w)
  BY <1>1, <1>4, <1>5 DEF AgreeButFor, Typed, SameMarks
<1>7. NoneShared(v)
  BY <1>5 DEF AgreeButFor, NoneShared
<1>8. \A f \in Flags : ~Carries(v, p, f)
  BY <1>5 DEF Carries
<1>9. ASSUME NEW f \in DOMAIN w.flags, NEW q \in Players PROVE AgreeOn(v, q, f)
  <2>1. f \in Flags
    BY DEF AgreeButFor, Typed
  <2>2. CASE q = p
    BY <1>4, <1>8, <2>1, <2>2 DEF AgreeOn, Owns
  <2>3. CASE q # p /\ w.flags[f].owner = p
    BY <1>4, <1>5, <2>1, <2>3 DEF AgreeOn, Owns, Carries
  <2>4. CASE q # p /\ w.flags[f].owner # p
    <3>1. AgreeOn(w, q, f)
      BY <2>4 DEF AgreeButFor
    <3>2. Carries(v, q, f) <=> Carries(w, q, f) /\ w.flags[f].owner = q
      BY <1>4, <1>5, <2>1, <2>4 DEF Carries
    <3> QED  BY <1>4, <2>4, <3>1, <3>2 DEF AgreeOn, Owns
  <2> QED  BY <2>2, <2>3, <2>4
<1>10. \A f \in DOMAIN v.flags : v.flags[f].owner # p
  BY <1>4
<1> QED  BY <1>4, <1>6, <1>7, <1>8, <1>9, <1>10 DEF Agree, v

-----------------------------------------------------------------------------
(* Flag updates of any length.                                             *)

LEMMA UpdateAgrees ==
  ASSUME NEW w, NEW record \in Records, Agree(w)
  PROVE  Agree(UpdateFlag(record, w)) /\ SameMarks(UpdateFlag(record, w), w)
<1> DEFINE f == record.index
           known == record.owner \in DOMAIN w.players
           quiet == Flag(record.status, record.owner, FALSE)
           strange == Flag(record.status, record.owner, ~known)
<1>1. /\ f \in Flags /\ quiet \in FlagRecords /\ strange \in FlagRecords
      /\ ~known => strange.stranger
  BY DEF Records, Flag, FlagRecords, Statuses
<1>2. Typed(w)
  BY DEF Agree
<1> HIDE DEF quiet, strange
<1>3. CASE record.status # "onTank"
  <2> DEFINE v == InsertFlag(w, f, quiet)
  <2>1. UpdateFlag(record, w) = ClearFlagCarrier(v, f)
    BY <1>3 DEF UpdateFlag, quiet
  <2>2. AgreeBut(v, f) /\ v.players = w.players
    BY <1>1, <1>2, InsertAgrees, InsertIs
  <2> HIDE DEF v
  <2> QED  BY <1>1, <2>1, <2>2, ClearCarrierAgrees, ClearCarrierIs DEF AgreeBut, SameMarks
<1>4. CASE record.status = "onTank" /\ known
  <2>1. UpdateFlag(record, w) = Carry(w, record.owner, f)
    BY <1>4 DEF UpdateFlag
  <2> QED  BY <1>1, <1>4, <2>1, CarryAgrees
<1>5. CASE record.status = "onTank" /\ ~known
  <2>1. UpdateFlag(record, w) = InsertFlag(w, f, strange)
    BY <1>5 DEF UpdateFlag, strange
  <2> QED  BY <1>1, <1>2, <1>5, <2>1, InsertAgrees, InsertIs DEF SameMarks
<1> QED  BY <1>3, <1>4, <1>5

LEMMA LeastOf ==
  ASSUME NEW T, T \subseteq Nat, T # {}
  PROVE  \E n \in T : \A m \in T : n <= m
<1>1. PICK n \in T : \A m \in T : <<m, n>> \notin OpToRel(<, Nat)
  BY NatLessThanWellFounded, WFMin
<1>2. ASSUME NEW m \in T PROVE n <= m
  <2>1. <<m, n>> \in Nat \X Nat
    OBVIOUS
  <2>2. ~ (m < n)
    BY <1>1, <2>1 DEF OpToRel
  <2> QED  BY <2>2
<1> QED  BY <1>2

\* The world after each record: there is such a sequence, by the least length for
\* which there would be none, and the records agree in each world of it, by the
\* least place at which they would not.
LEMMA UpdatesAgree ==
  ASSUME NEW w, Agree(w), NEW batch, Len(batch) \in Nat,
         \A i \in 1 .. Len(batch) : batch[i] \in Records
  PROVE  Agree(UpdateFlags(w, batch)) /\ SameMarks(UpdateFlags(w, batch), w)
<1> DEFINE Worlds(g, n) ==
             g = [i \in 0 .. n |-> IF i = 0 THEN w ELSE UpdateFlag(batch[i], g[i - 1])]
<1>1. ASSUME NEW n \in Nat PROVE \E g : Worlds(g, n)
  <2> DEFINE T == {k \in Nat : ~ \E g : Worlds(g, k)}
  <2>1. SUFFICES ASSUME T # {} PROVE FALSE
    OBVIOUS
  <2>2. PICK k \in T : \A m \in T : k <= m
    BY <2>1, LeastOf
  <2>3. k # 0
    <3>1. Worlds([i \in 0 .. 0 |-> w], 0)
      OBVIOUS
    <3> QED  BY <3>1
  <2>4. PICK g : Worlds(g, k - 1)
    <3>1. k - 1 \in Nat /\ ~ (k <= k - 1)
      BY <2>3
    <3> HIDE DEF Worlds
    <3> QED  BY <2>2, <3>1
  <2> DEFINE h == [i \in 0 .. k |-> IF i = k THEN UpdateFlag(batch[k], g[k - 1]) ELSE g[i]]
  <2>5. Worlds(h, k)
    <3>1. \A i \in 0 .. k : h[i] = IF i = 0 THEN w ELSE UpdateFlag(batch[i], h[i - 1])
      BY <2>3, <2>4
    <3> QED  BY <3>1
  <2> QED  BY <2>5
<1> DEFINE after == CHOOSE g : Worlds(g, Len(batch))
<1>2. Worlds(after, Len(batch))
  BY <1>1
<1>3. UpdateFlags(w, batch) = after[Len(batch)]
  BY DEF UpdateFlags
<1> HIDE DEF after
<1> DEFINE Holds(n) == Agree(after[n]) /\ SameMarks(after[n], w)
           T == {n \in 0 .. Len(batch) : ~Holds(n)}
<1>4. T = {}
  <2>1. SUFFICES ASSUME T # {} PROVE FALSE
    OBVIOUS
  <2>2. PICK k \in T : \A m \in T : k <= m
    <3>1. T \subseteq Nat
      OBVIOUS
    <3> HIDE DEF T
    <3> QED  BY <2>1, <3>1, LeastOf
  <2>3. k # 0
    BY <1>2 DEF SameMarks
  <2>4. Holds(k - 1)
    BY <2>2, <2>3
  <2>5. after[k] = UpdateFlag(batch[k], after[k - 1]) /\ batch[k] \in Records
    BY <1>2, <2>3
  <2>6. Holds(k)
    BY <2>4, <2>5, UpdateAgrees DEF SameMarks
  <2> QED  BY <2>6
<1> QED  BY <1>3, <1>4

-----------------------------------------------------------------------------
(* The packets.                                                            *)

LEMMA BecomesIs ==
  ASSUME NEW w, Typed(w), Becomes(w)
  PROVE  Carriage' = w
BY DEF Typed, Becomes, Carriage, Carried

LEMMA CarriageFields ==
  /\ Carriage.players = players /\ Carriage.flags = flags
  /\ (Carriage.players)' = players' /\ (Carriage.flags)' = flags'
BY DEF Carriage, Carried

\* A packet that moves flags about, and nothing else.
LEMMA FlagsMove ==
  ASSUME IInv, NEW w, Agree(w), SameMarks(w, Carriage), Becomes(w),
         UNCHANGED <<playerOrders, localPlayerId, rabbitPlayerId>>
  PROVE  IInv'
<1>1. Carriage' = w
  BY BecomesIs DEF Agree
<1>2. Agree(Carriage)'
  BY <1>1 DEF Agree, Typed, NoneShared, AgreeOn, Owns, Carries
<1>3. SameMarks(w, Carriage) /\ players' = w.players
  BY DEF Becomes
<1>4. /\ DOMAIN players' = DOMAIN players
      /\ \A p \in DOMAIN players : players'[p].rabbit = players[p].rabbit
  BY <1>3, CarriageFields DEF SameMarks
<1>5. ReferencesLive'
  BY <1>4 DEF IInv, ReferencesLive, Known
<1> QED  BY <1>2, <1>5 DEF IInv, Orders

\* A player that carries nothing may join.
LEMMA JoinAgrees ==
  ASSUME NEW w, Agree(w), NEW p \in Players, \A f \in Flags : ~Carries(w, p, f)
  PROVE  Agree([w EXCEPT !.players = With(w.players, p, NewPlayer)])
<1> USE WorldAssumption
<1> DEFINE v == [w EXCEPT !.players = With(w.players, p, NewPlayer)]
<1>1. v = [players |-> With(w.players, p, NewPlayer), flags |-> w.flags, age |-> w.age]
  BY DEF Agree, Typed
<1> HIDE DEF v
<1>2. v.flags = w.flags /\ v = [players |-> v.players, flags |-> v.flags, age |-> v.age]
  BY <1>1
<1>3. /\ DOMAIN v.players = DOMAIN w.players \cup {p}
      /\ v.players[p] = NewPlayer
      /\ \A q \in DOMAIN w.players \ {p} : v.players[q] = w.players[q]
      /\ v.players = [q \in DOMAIN v.players |-> v.players[q]]
  BY <1>1 DEF With
<1>4. NewPlayer \in PlayerRecords /\ NewPlayer.flagIndex = NoFlag
  BY DEF NewPlayer, PlayerRecords
<1>5. Typed(v)
  BY <1>2, <1>3, <1>4 DEF Agree, Typed
<1>6. NoneShared(v)
  BY <1>3, <1>4 DEF Agree, NoneShared
<1>7. ASSUME NEW f \in DOMAIN w.flags, NEW q \in Players PROVE AgreeOn(v, q, f)
  <2>1. f \in Flags
    BY DEF Agree, Typed
  <2>2. Carries(v, q, f) <=> Carries(w, q, f)
    BY <1>3, <1>4, <2>1 DEF Carries
  <2> QED  BY <1>2, <2>2 DEF Agree, AgreeOn, Owns
<1> QED  BY <1>2, <1>5, <1>6, <1>7 DEF Agree, v

LEMMA EnsureAgrees ==
  ASSUME IInv, NEW p \in Players
  PROVE  LET w == EnsurePlayer(p)
         IN /\ Agree(w) /\ DOMAIN w.players = DOMAIN players \cup {p}
            /\ \A q \in DOMAIN w.players : w.players[q].rabbit <=> rabbitPlayerId = q
<1>1. CASE Known(p)
  BY <1>1, CarriageFields DEF EnsurePlayer, IInv, Known, ReferencesLive
<1>2. CASE ~Known(p)
  <2>1. EnsurePlayer(p) = [Carriage EXCEPT !.players = With(Carriage.players, p, NewPlayer)]
    BY <1>2, CarriageFields DEF EnsurePlayer
  <2>2. Agree(EnsurePlayer(p))
    BY <1>2, <2>1, CarriageFields, JoinAgrees DEF IInv, Carries, Known
  <2>3. EnsurePlayer(p).players = With(players, p, NewPlayer)
    BY <1>2 DEF EnsurePlayer, Carriage, Carried
  <2>4. rabbitPlayerId # p
    BY <1>2, WorldAssumption DEF IInv, ReferencesLive
  <2>5. \A q \in DOMAIN players : players[q].rabbit <=> rabbitPlayerId = q
    BY DEF IInv, ReferencesLive
  <2> QED  BY <1>2, <2>2, <2>3, <2>4, <2>5 DEF With, NewPlayer, Known
<1> QED  BY <1>1, <1>2

LEMMA AddPlayerKeeps == ASSUME IInv, NEW p \in Players, NEW local \in BOOLEAN, AddPlayer(p, local)
                        PROVE  IInv'
<1> USE WorldAssumption
<1> DEFINE w == IF Known(p) THEN ReleaseFlagsOf(Carriage, p) ELSE Carriage
           v == [w EXCEPT !.players = With(w.players, p, NewPlayer)]
<1>1. Agree(w) /\ SameMarks(w, Carriage) /\ \A f \in Flags : ~Carries(w, p, f)
  <2>1. CASE Known(p)
    <3>1. AgreeButFor(Carriage, p)
      BY DEF IInv, Agree, AgreeButFor
    <3> QED  BY <2>1, <3>1, ReleaseAgrees
  <2>2. CASE ~Known(p)
    BY <2>2, CarriageFields DEF IInv, SameMarks, Carries, Known
  <2> QED  BY <2>1, <2>2
<1>2. Becomes(v)
  BY DEF AddPlayer
<1> HIDE DEF w
<1>3. Agree(v)
  BY <1>1, JoinAgrees
<1>4. v.players = With(w.players, p, NewPlayer)
  BY <1>1 DEF Agree, Typed
<1> HIDE DEF v
<1>5. Carriage' = v /\ players' = v.players
  BY <1>2, <1>3, BecomesIs DEF Agree, Becomes
<1>6. Agree(Carriage)'
  BY <1>3, <1>5 DEF Agree, Typed, NoneShared, AgreeOn, Owns, Carries
<1>7. /\ DOMAIN players' = DOMAIN players \cup {p} /\ players'[p].rabbit = FALSE
      /\ \A q \in DOMAIN players \ {p} : players'[q].rabbit = players[q].rabbit
  BY <1>1, <1>4, <1>5, CarriageFields DEF SameMarks, With, NewPlayer
<1>8. /\ playerOrders' = Without(playerOrders, p)
      /\ rabbitPlayerId' = IF rabbitPlayerId = p THEN NoPlayer ELSE rabbitPlayerId
      /\ localPlayerId' = IF local THEN p ELSE localPlayerId
  BY DEF AddPlayer
<1>9. ReferencesLive'
  <2>1. NoPlayer \notin DOMAIN players
    BY CarriageFields DEF IInv, Agree, Typed
  <2>2. (\A q \in DOMAIN players : players[q].rabbit <=> rabbitPlayerId = q)'
    BY <1>7, <1>8, <2>1 DEF IInv, ReferencesLive
  <2>3. (localPlayerId # NoPlayer => Known(localPlayerId))'
    BY <1>7, <1>8 DEF IInv, ReferencesLive, Known
  <2>4. (rabbitPlayerId # NoPlayer => Known(rabbitPlayerId))'
    BY <1>7, <1>8 DEF IInv, ReferencesLive, Known
  <2>5. DOMAIN playerOrders' \subseteq DOMAIN players'
    BY <1>7, <1>8 DEF IInv, ReferencesLive, Without
  <2> QED  BY <2>2, <2>3, <2>4, <2>5 DEF ReferencesLive
<1>10. Orders'
  BY <1>8 DEF IInv, Orders, Without
<1> QED  BY <1>6, <1>9, <1>10 DEF IInv

LEMMA RemovePlayerKeeps == ASSUME IInv, NEW p \in Players, RemovePlayer(p) PROVE IInv'
<1> USE WorldAssumption
<1> DEFINE w == [Carriage EXCEPT !.players = Without(players, p)]
           v == ReleaseFlagsOf(w, p)
<1>1. w = [players |-> Without(players, p), flags |-> flags, age |-> flagAge]
  BY DEF Carriage, Carried
<1>2. AgreeButFor(w, p)
  <2> HIDE DEF w
  <2>1. w.players = Without(players, p) /\ w.flags = flags /\ w.age = flagAge
    BY <1>1
  <2>2. /\ DOMAIN w.players = DOMAIN players \ {p}
        /\ \A q \in DOMAIN w.players : w.players[q] = players[q]
        /\ w.players = [q \in DOMAIN w.players |-> w.players[q]]
    BY <2>1 DEF Without
  <2>3. Agree(Carriage)
    BY DEF IInv
  <2>4. Typed(w)
    BY <1>1, <2>1, <2>2, <2>3, CarriageFields DEF Agree, Typed
  <2>5. NoneShared(w)
    BY <2>2, <2>3, CarriageFields DEF Agree, NoneShared
  <2>6. ASSUME NEW f \in DOMAIN w.flags, NEW q \in Players \ {p} PROVE AgreeOn(w, q, f)
    BY <2>1, <2>2, <2>3, CarriageFields DEF Agree, AgreeOn, Owns, Carries
  <2> QED  BY <2>4, <2>5, <2>6 DEF AgreeButFor
<1>3. Agree(v) /\ SameMarks(v, w)
  BY <1>2, ReleaseAgrees
<1>4. Becomes(v)
  BY DEF RemovePlayer
<1> HIDE DEF v
<1>5. Carriage' = v /\ players' = v.players
  BY <1>3, <1>4, BecomesIs DEF Agree, Becomes
<1>6. Agree(Carriage)'
  BY <1>3, <1>5 DEF Agree, Typed, NoneShared, AgreeOn, Owns, Carries
<1>7. /\ DOMAIN players' = DOMAIN players \ {p}
      /\ \A q \in DOMAIN players \ {p} : players'[q].rabbit = players[q].rabbit
  BY <1>1, <1>3, <1>5 DEF SameMarks, Without
<1>8. /\ playerOrders' = Without(playerOrders, p)
      /\ rabbitPlayerId' = IF rabbitPlayerId = p THEN NoPlayer ELSE rabbitPlayerId
      /\ localPlayerId' = IF localPlayerId = p THEN NoPlayer ELSE localPlayerId
  BY DEF RemovePlayer
<1>9. ReferencesLive'
  <2>1. NoPlayer \notin DOMAIN players
    BY CarriageFields DEF IInv, Agree, Typed
  <2>2. (\A q \in DOMAIN players : players[q].rabbit <=> rabbitPlayerId = q)'
    BY <1>7, <1>8, <2>1 DEF IInv, ReferencesLive
  <2>3. (localPlayerId # NoPlayer => Known(localPlayerId))'
    BY <1>7, <1>8 DEF IInv, ReferencesLive, Known
  <2>4. (rabbitPlayerId # NoPlayer => Known(rabbitPlayerId))'
    BY <1>7, <1>8 DEF IInv, ReferencesLive, Known
  <2>5. DOMAIN playerOrders' \subseteq DOMAIN players'
    BY <1>7, <1>8 DEF IInv, ReferencesLive, Without
  <2> QED  BY <2>2, <2>3, <2>4, <2>5 DEF ReferencesLive
<1>10. Orders'
  BY <1>8 DEF IInv, Orders, Without
<1> QED  BY <1>6, <1>9, <1>10 DEF IInv

LEMMA PlayerUpdateKeeps ==
  ASSUME IInv, NEW p \in Players, NEW order \in 0 .. MaxOrder, PlayerUpdate(p, order)
  PROVE  IInv'
<1> DEFINE w == EnsurePlayer(p)
<1>1. /\ Agree(w) /\ DOMAIN w.players = DOMAIN players \cup {p}
      /\ \A q \in DOMAIN w.players : w.players[q].rabbit <=> rabbitPlayerId = q
  BY EnsureAgrees
<1>2. /\ Becomes(w) /\ playerOrders' = With(playerOrders, p, order)
      /\ UNCHANGED <<localPlayerId, rabbitPlayerId>>
  BY DEF PlayerUpdate
<1> HIDE DEF w
<1>3. Carriage' = w /\ players' = w.players
  BY <1>1, <1>2, BecomesIs DEF Agree, Becomes
<1>4. Agree(Carriage)'
  BY <1>1, <1>3 DEF Agree, Typed, NoneShared, AgreeOn, Owns, Carries
<1>5. ReferencesLive'
  BY <1>1, <1>2, <1>3 DEF IInv, ReferencesLive, Known, With
<1>6. Orders'
  BY <1>2 DEF IInv, Orders, With
<1> QED  BY <1>4, <1>5, <1>6 DEF IInv

LEMMA AliveKeeps == ASSUME IInv, NEW p \in Players, Alive(p) PROVE IInv'
<1> DEFINE w == EnsurePlayer(p)
           v == ClearPlayerFlag(w, p)
<1>1. /\ Agree(w) /\ DOMAIN w.players = DOMAIN players \cup {p}
      /\ \A q \in DOMAIN w.players : w.players[q].rabbit <=> rabbitPlayerId = q
  BY EnsureAgrees
<1>2. Becomes(v) /\ UNCHANGED <<playerOrders, localPlayerId, rabbitPlayerId>>
  BY DEF Alive
<1> HIDE DEF w
<1>3. Agree(v) /\ SameMarks(v, w)
  BY <1>1, ClearPlayerAgrees, ClearPlayerTyped DEF Agree
<1> HIDE DEF v
<1>4. Carriage' = v /\ players' = v.players
  BY <1>2, <1>3, BecomesIs DEF Agree, Becomes
<1>5. Agree(Carriage)'
  BY <1>3, <1>4 DEF Agree, Typed, NoneShared, AgreeOn, Owns, Carries
<1>6. ReferencesLive'
  BY <1>1, <1>2, <1>3, <1>4 DEF IInv, ReferencesLive, Known, SameMarks
<1> QED  BY <1>2, <1>5, <1>6 DEF IInv, Orders

LEMMA NewRabbitKeeps == ASSUME IInv, NEW p \in Players, NewRabbit(p) PROVE IInv'
<1> USE WorldAssumption
<1>1. /\ DOMAIN players' = DOMAIN players
      /\ \A q \in DOMAIN players :
           /\ players'[q] \in PlayerRecords
           /\ players'[q].flagIndex = players[q].flagIndex
           /\ players'[q].rabbit <=> q = p
      /\ players' = [q \in DOMAIN players' |-> players'[q]]
  <2>1. \A q \in DOMAIN players : players[q] \in PlayerRecords
    BY CarriageFields DEF IInv, Agree, Typed
  <2> QED  BY <2>1 DEF NewRabbit, PlayerRecords
<1>2. UNCHANGED <<flags, flagAge, playerOrders, localPlayerId>> /\ rabbitPlayerId' = p /\ Known(p)
  BY DEF NewRabbit
<1>3. Agree(Carriage)
  BY DEF IInv
<1>4. Typed(Carriage)'
  BY <1>1, <1>2, <1>3, CarriageFields DEF Agree, Typed, Carriage, Carried
<1>5. NoneShared(Carriage)'
  BY <1>1, <1>3, CarriageFields DEF Agree, NoneShared
<1>6. (\A f \in DOMAIN Carriage.flags, q \in Players : AgreeOn(Carriage, q, f))'
  BY <1>1, <1>2, <1>3, CarriageFields DEF Agree, AgreeOn, Owns, Carries
<1>7. ReferencesLive'
  BY <1>1, <1>2 DEF IInv, ReferencesLive, Known
<1> QED  BY <1>2, <1>4, <1>5, <1>6, <1>7 DEF IInv, Agree, Orders

LEMMA KilledKeeps == ASSUME IInv, NEW p \in Players, Killed(p) PROVE IInv'
<1>1. p \in DOMAIN Carriage.players
  BY CarriageFields DEF Killed, Known
<1>2. Agree(ClearPlayerFlag(Carriage, p)) /\ SameMarks(ClearPlayerFlag(Carriage, p), Carriage)
  BY <1>1, ClearPlayerAgrees, ClearPlayerTyped DEF IInv, Agree
<1> QED  BY <1>2, FlagsMove DEF Killed

LEMMA GrabFlagKeeps == ASSUME IInv, NEW p \in Players, NEW f \in Flags, GrabFlag(p, f) PROVE IInv'
<1>1. p \in DOMAIN Carriage.players
  BY CarriageFields DEF GrabFlag, Known
<1>2. Agree(Carry(Carriage, p, f)) /\ SameMarks(Carry(Carriage, p, f), Carriage)
  BY <1>1, CarryAgrees DEF IInv
<1> QED  BY <1>2, FlagsMove DEF GrabFlag

\* A flag that nobody carries any more and that is put somewhere, as after a drop
\* and a capture.
LEMMA LaidAgrees ==
  ASSUME NEW w, Agree(w), NEW f \in Flags, NEW status \in Statuses
  PROVE  LET v == InsertFlag(ClearFlagCarrier(w, f), f, Flag(status, NoPlayer, FALSE))
         IN Agree(v) /\ SameMarks(v, w)
<1> DEFINE u == ClearFlagCarrier(w, f)
           flag == Flag(status, NoPlayer, FALSE)
<1>1. AgreeBut(w, f) /\ Typed(w)
  BY DEF Agree, AgreeBut
<1>2. Agree(u) /\ SameMarks(u, w) /\ \A q \in Players : ~Carries(u, q, f)
  BY <1>1, ClearCarrierAgrees, ClearCarrierIs
<1>3. flag \in FlagRecords /\ flag.owner = NoPlayer
  BY DEF Flag, FlagRecords
<1> HIDE DEF u, flag
<1>4. Agree(InsertFlag(u, f, flag)) /\ InsertFlag(u, f, flag).players = u.players
  BY <1>2, <1>3, InsertAgrees, InsertIs DEF Agree
<1> QED  BY <1>2, <1>4 DEF SameMarks, u, flag

LEMMA DropFlagKeeps ==
  ASSUME IInv, NEW p \in Players, NEW f \in Flags, NEW status \in Statuses, DropFlag(p, f, status)
  PROVE  IInv'
<1> DEFINE w == IF players[p].flagIndex = f THEN ClearPlayerFlag(Carriage, p) ELSE Carriage
           v == InsertFlag(ClearFlagCarrier(w, f), f, Flag(status, NoPlayer, FALSE))
<1>1. p \in DOMAIN Carriage.players
  BY CarriageFields DEF DropFlag, Known
<1>2. Agree(w) /\ SameMarks(w, Carriage)
  BY <1>1, ClearPlayerAgrees, ClearPlayerTyped DEF IInv, Agree, SameMarks
<1>3. Becomes(v) /\ UNCHANGED <<playerOrders, localPlayerId, rabbitPlayerId>>
  BY DEF DropFlag
<1> HIDE DEF w
<1>4. Agree(v) /\ SameMarks(v, w)
  BY <1>2, LaidAgrees
<1> HIDE DEF v
<1>5. SameMarks(v, Carriage)
  BY <1>2, <1>4 DEF SameMarks
<1> QED  BY <1>3, <1>4, <1>5, FlagsMove

LEMMA CaptureFlagKeeps ==
  ASSUME IInv, NEW p \in Players, NEW f \in Flags, CaptureFlag(p, f)
  PROVE  IInv'
<1> DEFINE w == ClearPlayerFlag(Carriage, p)
           v == InsertFlag(ClearFlagCarrier(w, f), f, Flag("onGround", NoPlayer, FALSE))
<1>1. p \in DOMAIN Carriage.players
  BY CarriageFields DEF CaptureFlag, Known
<1>2. Agree(w) /\ SameMarks(w, Carriage)
  BY <1>1, ClearPlayerAgrees, ClearPlayerTyped DEF IInv, Agree
<1>3. Becomes(v) /\ UNCHANGED <<playerOrders, localPlayerId, rabbitPlayerId>>
  BY DEF CaptureFlag
<1> HIDE DEF w
<1>4. Agree(v) /\ SameMarks(v, w)
  BY <1>2, LaidAgrees DEF Statuses
<1> HIDE DEF v
<1>5. SameMarks(v, Carriage)
  BY <1>2, <1>4 DEF SameMarks
<1> QED  BY <1>3, <1>4, <1>5, FlagsMove

LEMMA FlagUpdateKeeps ==
  ASSUME IInv, NEW batch \in BoundedSeq(Records, MaxBatch), FlagUpdate(batch)
  PROVE  IInv'
<1>1. Len(batch) \in Nat /\ \A i \in 1 .. Len(batch) : batch[i] \in Records
  BY WorldAssumption DEF BoundedSeq, SeqOf
<1>2. Agree(UpdateFlags(Carriage, batch)) /\ SameMarks(UpdateFlags(Carriage, batch), Carriage)
  BY <1>1, UpdatesAgree DEF IInv
<1> QED  BY <1>2, FlagsMove DEF FlagUpdate

LEMMA QuietKeeps ==
  ASSUME IInv, UNCHANGED <<players, flags, flagAge, playerOrders, localPlayerId, rabbitPlayerId>>
  PROVE  IInv'
<1>1. Agree(Carriage)'
  BY DEF IInv, Carriage
<1> QED  BY <1>1 DEF IInv, Orders, ReferencesLive, Known

-----------------------------------------------------------------------------
(* The theorems.                                                           *)

LEMMA InitIInv == Init => IInv
<1> SUFFICES ASSUME Init PROVE IInv
  OBVIOUS
<1>1. DOMAIN players = {} /\ DOMAIN flags = {} /\ DOMAIN playerOrders = {}
  BY DEF Init
<1>2. players \in [DOMAIN players -> PlayerRecords] /\ flags \in [DOMAIN flags -> FlagRecords]
  BY DEF Init
<1>3. Agree(Carriage)
  BY <1>1, <1>2 DEF Agree, Typed, NoneShared, Carriage, Carried
<1> QED  BY <1>1, <1>3 DEF Init, IInv, ReferencesLive, Orders

LEMMA NextIInv == IInv /\ [Next]_vars => IInv'
<1> SUFFICES ASSUME IInv, [Next]_vars PROVE IInv'
  OBVIOUS
<1>1. ASSUME NEW p \in Players, NEW local \in BOOLEAN, AddPlayer(p, local) PROVE IInv'
  BY <1>1, AddPlayerKeeps
<1>2. ASSUME NEW p \in Players, RemovePlayer(p) PROVE IInv'
  BY <1>2, RemovePlayerKeeps
<1>3. ASSUME NEW p \in Players, Alive(p) PROVE IInv'
  BY <1>3, AliveKeeps
<1>4. ASSUME NEW p \in Players, Killed(p) PROVE IInv'
  BY <1>4, KilledKeeps
<1>5. ASSUME NEW p \in Players, NewRabbit(p) PROVE IInv'
  BY <1>5, NewRabbitKeeps
<1>6. ASSUME NEW p \in Players, NEW order \in 0 .. MaxOrder, PlayerUpdate(p, order) PROVE IInv'
  BY <1>6, PlayerUpdateKeeps
<1>7. ASSUME NEW p \in Players, NEW id \in ShotIds, ShotBegin(p, id) \/ ShotEnd(p, id) PROVE IInv'
  BY <1>7, QuietKeeps DEF ShotBegin, ShotEnd
<1>8. ASSUME NEW p \in Players, NEW f \in Flags, GrabFlag(p, f) PROVE IInv'
  BY <1>8, GrabFlagKeeps
<1>9. ASSUME NEW p \in Players, NEW f \in Flags, CaptureFlag(p, f) PROVE IInv'
  BY <1>9, CaptureFlagKeeps
<1>10. ASSUME NEW p \in Players, NEW f \in Flags, NEW status \in Statuses, DropFlag(p, f, status)
       PROVE  IInv'
  BY <1>10, DropFlagKeeps
<1>11. ASSUME NEW from \in Players, NEW to \in Players, TransferFlag(from, to) PROVE IInv'
  BY <1>11, QuietKeeps DEF TransferFlag
<1>12. ASSUME NEW batch \in BoundedSeq(Records, MaxBatch), FlagUpdate(batch) PROVE IInv'
  BY <1>12, FlagUpdateKeeps
<1>13. CASE UNCHANGED vars
  BY <1>13, QuietKeeps DEF vars
<1> QED
  BY <1>1, <1>2, <1>3, <1>4, <1>5, <1>6, <1>7, <1>8, <1>9, <1>10, <1>11, <1>12, <1>13 DEF Next

\* In every reachable state the records of who carries what agree, for any number
\* of players and flags, and for any limits and flag updates (state.ts, apply).
THEOREM WorldInvariant == Spec => []IInv
BY InitIInv, NextIInv, PTL DEF Spec

\* The owner of a flag and the flag of a player agree, and no two players carry
\* the same flag (state.ts, setFlagCarrier and its callers).
THEOREM CarriersAgree == Spec => []CarrierAgrees
<1>1. IInv => CarrierAgrees
  BY CarriageFields DEF IInv, Agree, NoneShared, AgreeOn, Owns, Carries, CarrierAgrees, Known
<1> QED  BY <1>1, WorldInvariant, PTL

\* The local player, the rabbit and the orders are those of known players
\* (state.ts, removePlayerReferences).
THEOREM ReferencesHold == Spec => []ReferencesLive
<1>1. IInv => ReferencesLive
  BY DEF IInv
<1> QED  BY <1>1, WorldInvariant, PTL

\* The order of the last update of a player that stays known never goes back
\* (state.ts, the stale-player-order).
THEOREM OrdersGoOn == Spec => OrdersAdvance
<1> DEFINE Advance == \A p \in DOMAIN playerOrders \cap DOMAIN playerOrders' :
                        playerOrders'[p] >= playerOrders[p]
<1>1. ASSUME IInv, [Next]_vars PROVE Advance
  <2>1. \A p \in DOMAIN playerOrders : playerOrders[p] \in Nat
    BY <1>1 DEF IInv, Orders
  <2>2. CASE UNCHANGED playerOrders
    BY <2>1, <2>2
  <2>3. ASSUME NEW q, playerOrders' = Without(playerOrders, q) PROVE Advance
    BY <2>1, <2>3 DEF Without
  <2>4. ASSUME NEW q \in Players, NEW order \in 0 .. MaxOrder, PlayerUpdate(q, order) PROVE Advance
    BY <2>1, <2>4, WorldAssumption DEF PlayerUpdate, Fresh, With
  <2>5. ASSUME Next
        PROVE  \/ UNCHANGED playerOrders
               \/ \E q : playerOrders' = Without(playerOrders, q)
               \/ \E q \in Players, order \in 0 .. MaxOrder : PlayerUpdate(q, order)
    BY <2>5 DEF Next, AddPlayer, RemovePlayer, Alive, Killed, NewRabbit, ShotBegin, ShotEnd,
                GrabFlag, CaptureFlag, DropFlag, TransferFlag, FlagUpdate
  <2> QED  BY <1>1, <2>2, <2>3, <2>4, <2>5 DEF vars
<1>2. IInv /\ [Next]_vars => [Advance]_vars
  BY <1>1
<1> QED  BY <1>2, WorldInvariant, PTL DEF Spec, OrdersAdvance

-----------------------------------------------------------------------------
(* Scene.                                                                  *)

\* What the renderer's variables say of each other.
LoopInv ==
  /\ mode \in {"none", "fallback"} => lifecycle = "ready" /\ ~stopped /\ frames = 0
  /\ Running => /\ lifecycle \in {"ready", "error", "stopped"}
                /\ frames = IF lifecycle = "ready" THEN 1 ELSE 0
                /\ stopped <=> lifecycle # "ready"
  /\ lifecycle = "stopped" => ~listening /\ Running

\* The renderer holds the snapshot of the world as it is, and the cache holds the
\* scene of that one or of an earlier one, which its revision tells.
PictureInv ==
  /\ revision \in Nat /\ mode \in {"none", "fallback", "webgpu", "webgl2", "unavailable"}
  /\ mode # "unavailable" => pushed = RosterSnapshot
  /\ cached.revision \in Int /\ cached.revision <= revision
  /\ cached.revision > 0 /\ cached.revision = pushed.revision =>
       cached.objects = SceneObjects(pushed)
  /\ fresh => picture = SceneObjects(pushed) /\ Running

-----------------------------------------------------------------------------
LEMMA SnapshotFields ==
  /\ RosterSnapshot.revision = revision
  /\ DefaultSnapshot.revision = 0
BY DEF RosterSnapshot, DefaultSnapshot

LEMMA InitialSnapshot == RosterInit => RosterSnapshot = DefaultSnapshot
<1> SUFFICES ASSUME RosterInit PROVE RosterSnapshot = DefaultSnapshot
  OBVIOUS
<1>1. [i \in DOMAIN tankAge |-> <<tankAge[i], tanks[tankAge[i]]>>] = << >>
  BY DEF RosterInit
<1> QED  BY <1>1 DEF RosterInit, RosterSnapshot, DefaultSnapshot, NoGeometry

\* Every packet that is applied, and every map, is a new revision.
LEMMA EveryPacketTouches == RosterNext => revision' = revision + 1
BY DEF RosterNext, ApplyPacket, AddTank, Score, RemoveTank, SpawnTank, KillTank,
       TeleportTank, UpdateTank, PauseTank, ChangeEntities, Answer, Unseen,
       SetWorldGeometry, Touch

\* Either a packet comes and the renderer is given the snapshot, or a step of its own.
LEMMA Steps ==
  ASSUME [SceneNext]_sceneVars
  PROVE  \/ Receive
         \/ UNCHANGED rosterVars /\ (RendererNext \/ UNCHANGED rendererVars)
BY DEF SceneNext, sceneVars
-----------------------------------------------------------------------------
(* Scores.                                                                 *)

LEMMA PacketsAgree == ScoresAgree /\ RosterNext => ScoresAgree'
<1> SUFFICES ASSUME ScoresAgree, RosterNext PROVE ScoresAgree'
  OBVIOUS
<1>1. ASSUME NEW t \in Tanks, NEW wins \in Wins, AddTank(t, wins) PROVE ScoresAgree'
  BY <1>1 DEF AddTank, Put, CopyPlayer, ScoresAgree
<1>2. ASSUME NEW t \in Tanks, NEW wins \in Wins, Score(t, wins) PROVE ScoresAgree'
  BY <1>2 DEF Score, Put, Joined, ScoresAgree
<1>3. ASSUME NEW t \in Tanks, RemoveTank(t) PROVE ScoresAgree'
  BY <1>3 DEF RemoveTank, But, ScoresAgree
<1>4. ASSUME NEW t \in Tanks, SpawnTank(t) PROVE ScoresAgree'
  <2> DEFINE tank == [Ensured(t) EXCEPT !.alive = TRUE,
                                        !.status = (@ \cup {"alive"}) \ {"teleporting"}]
  <2>1. tanks' = Put(tanks, t, tank) /\ UNCHANGED <<scores, announced>>
    BY <1>4 DEF SpawnTank
  <2>2. Joined(t) => tank.wins = tanks[t].wins
    BY DEF Ensured
  <2> HIDE DEF tank
  <2> QED  BY <2>1, <2>2 DEF Put, Joined, ScoresAgree
<1>5. ASSUME NEW t \in Tanks, KillTank(t) \/ TeleportTank(t) PROVE ScoresAgree'
  <2>1. CASE KillTank(t)
    <3>1. DOMAIN tanks' = DOMAIN tanks /\ UNCHANGED <<scores, announced>>
      BY <2>1 DEF KillTank
    <3>2. \A q \in DOMAIN tanks : tanks'[q].wins = tanks[q].wins
      BY <2>1 DEF KillTank
    <3> QED  BY <3>1, <3>2 DEF ScoresAgree
  <2>2. CASE TeleportTank(t)
    BY <2>2 DEF TeleportTank, ScoresAgree
  <2> QED  BY <1>5, <2>1, <2>2
<1>6. ASSUME NEW t \in Tanks, NEW status \in Reported, UpdateTank(t, status) PROVE ScoresAgree'
  BY <1>6 DEF UpdateTank, Put, Ensured, Joined, ScoresAgree
<1>7. ASSUME NEW t \in Tanks, NEW paused \in BOOLEAN, PauseTank(t, paused) PROVE ScoresAgree'
  BY <1>7 DEF PauseTank, ScoresAgree
<1>8. CASE \/ \E known \in SUBSET {"shot", "flag"} : ChangeEntities(known)
           \/ \E accepted \in BOOLEAN : Answer(accepted)
           \/ Unseen
           \/ \E objects \in Geometries : SetWorldGeometry(objects)
  BY <1>8 DEF ChangeEntities, Answer, Unseen, SetWorldGeometry, ScoresAgree
<1> QED
  BY <1>1, <1>2, <1>3, <1>4, <1>5, <1>6, <1>7, <1>8 DEF RosterNext, ApplyPacket

\* The two records of the score of every player the server announced agree.
THEOREM ScoresAreOne == SceneSpec => []ScoresAgree
<1>1. SceneInit => ScoresAgree
  BY DEF SceneInit, RosterInit, ScoresAgree
<1>2. ScoresAgree /\ [SceneNext]_sceneVars => ScoresAgree'
  <2>1. ASSUME ScoresAgree, UNCHANGED rosterVars PROVE ScoresAgree'
    BY <2>1 DEF rosterVars, ScoresAgree
  <2> QED  BY <2>1, Steps, PacketsAgree DEF Receive
<1> QED  BY <1>1, <1>2, PTL DEF SceneSpec

-----------------------------------------------------------------------------
(* The loop of frames.                                                     *)

LEMMA RendererKeepsLoop ==
  ASSUME LoopInv, RendererNext
  PROVE  LoopInv' /\ (lifecycle = "stopped" => lifecycle' = "stopped")
<1> USE DEF LoopInv, Running
<1>1. CASE MakeWebGPU \/ MakeWebGL
  BY <1>1 DEF MakeWebGPU, MakeWebGL, Unused
<1>2. CASE Unavailable \/ \E late \in BOOLEAN : WebGPUFails(late)
  BY <1>2 DEF Unavailable, WebGPUFails, Unused
<1>3. CASE Draw \/ DrawFails
  BY <1>3 DEF Draw, DrawFails, Fail
<1>4. CASE DeviceLost \/ LossReported
  BY <1>4 DEF DeviceLost, LossReported, Heard, Fail
<1>5. CASE Stop
  BY <1>5 DEF Stop
<1> QED  BY <1>1, <1>2, <1>3, <1>4, <1>5 DEF RendererNext

\* One frame is to come exactly while the renderer is ready, and a device that is
\* lost to stop, or after it, is not made an error.
THEOREM LoopRunsOn == SceneSpec => LoopRuns
<1>1. SceneInit => LoopInv
  BY DEF SceneInit, RendererInit, LoopInv, Running
<1>2. LoopInv /\ [SceneNext]_sceneVars =>
        LoopInv' /\ [lifecycle = "stopped" => lifecycle' = "stopped"]_rendererVars
  <2> SUFFICES ASSUME LoopInv, [SceneNext]_sceneVars
               PROVE  LoopInv' /\ (lifecycle = "stopped" => lifecycle' = "stopped")
    OBVIOUS
  <2>1. CASE Receive
    BY <2>1 DEF Receive, SetWorldState, rendererVars, LoopInv, Running
  <2>2. CASE UNCHANGED rendererVars
    BY <2>2 DEF rendererVars, LoopInv, Running
  <2> QED  BY <2>1, <2>2, Steps, RendererKeepsLoop
<1>3. LoopInv => (Running => frames = IF lifecycle = "ready" THEN 1 ELSE 0)
  BY DEF LoopInv
<1> QED  BY <1>1, <1>2, <1>3, PTL DEF SceneSpec, LoopRuns

-----------------------------------------------------------------------------
(* The picture.                                                            *)

LEMMA ReceiveKeepsPicture == PictureInv /\ Receive => PictureInv'
<1> SUFFICES ASSUME PictureInv, Receive PROVE PictureInv'
  OBVIOUS
<1>1. revision' = revision + 1 /\ revision' \in Nat
  BY EveryPacketTouches DEF Receive, PictureInv
<1>2. CASE Running
  <2>1. /\ pushed' = RosterSnapshot' /\ ~fresh' /\ mode' = mode
        /\ cached' = cached /\ picture' = picture
    BY <1>2 DEF Receive, SetWorldState
  <2>2. pushed'.revision = revision'
    BY <2>1 DEF RosterSnapshot
  <2>3. cached'.revision # pushed'.revision /\ cached'.revision <= revision'
    BY <1>1, <2>1, <2>2 DEF PictureInv
  <2> QED  BY <1>1, <2>1, <2>3 DEF PictureInv
<1>3. CASE ~Running
  <2>1. mode = "unavailable"
    BY <1>3 DEF Receive, PictureInv, Running
  <2> QED  BY <1>1, <1>3, <2>1 DEF Receive, SetWorldState, rendererVars, PictureInv, Running
<1> QED  BY <1>2, <1>3

LEMMA RendererKeepsPicture ==
  ASSUME PictureInv, UNCHANGED rosterVars, RendererNext
  PROVE  PictureInv'
<1>1. RosterSnapshot' = RosterSnapshot /\ revision' = revision
  BY DEF rosterVars, RosterSnapshot
<1>2. CASE Draw
  <2>1. pushed' = pushed /\ mode' = mode /\ Running
    BY <1>2 DEF Draw
  <2>2. CASE stopped
    BY <1>1, <1>2, <2>1, <2>2 DEF Draw, PictureInv, Running
  <2>3. CASE ~stopped
    <3>1. /\ cached' = CachedScene /\ picture' = CachedScene.objects /\ fresh'
      BY <1>2, <2>3 DEF Draw
    <3>2. pushed = RosterSnapshot /\ pushed.revision = revision
      BY <2>1, SnapshotFields DEF PictureInv, Running
    <3>3. CachedScene.revision = pushed.revision /\ CachedScene.objects = SceneObjects(pushed)
      BY <3>2 DEF CachedScene, PictureInv
    <3> QED  BY <1>1, <2>1, <3>1, <3>2, <3>3 DEF PictureInv, Running
  <2> QED  BY <2>2, <2>3
<1>3. CASE MakeWebGPU \/ MakeWebGL \/ Unavailable \/ \E late \in BOOLEAN : WebGPUFails(late)
  BY <1>1, <1>3 DEF MakeWebGPU, MakeWebGL, Unavailable, WebGPUFails, Unused, PictureInv, Running
<1>4. CASE DrawFails \/ DeviceLost \/ LossReported \/ Stop
  BY <1>1, <1>4 DEF DrawFails, DeviceLost, LossReported, Stop, PictureInv, Running
<1> QED  BY <1>2, <1>3, <1>4 DEF RendererNext

\* A frame drawn since the last packet shows the world as it is, for worlds of any
\* size, maps of any number and frames and packets in any order.
THEOREM PictureIsCurrent == SceneSpec => []PictureCurrent
<1>1. SceneInit => PictureInv
  <2> SUFFICES ASSUME SceneInit PROVE PictureInv
    OBVIOUS
  <2>1. pushed = RosterSnapshot
    BY InitialSnapshot DEF SceneInit, RendererInit
  <2> QED  BY <2>1 DEF SceneInit, RosterInit, RendererInit, NoRevision, PictureInv
<1>2. PictureInv /\ [SceneNext]_sceneVars => PictureInv'
  <2> SUFFICES ASSUME PictureInv, [SceneNext]_sceneVars PROVE PictureInv'
    OBVIOUS
  <2>1. CASE UNCHANGED rosterVars /\ UNCHANGED rendererVars
    BY <2>1 DEF rosterVars, rendererVars, RosterSnapshot, PictureInv, Running
  <2> QED  BY <2>1, Steps, ReceiveKeepsPicture, RendererKeepsPicture
<1>3. PictureInv => PictureCurrent
  BY DEF PictureInv, PictureCurrent, Running
<1> QED  BY <1>1, <1>2, <1>3, PTL DEF SceneSpec

=============================================================================
