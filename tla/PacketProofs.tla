---------------------------- MODULE PacketProofs ----------------------------
(***************************************************************************)
(* Proofs about PacketStream and PacketCodec.  For every script of packets *)
(* and every way to cut it, after every message exactly the packets that   *)
(* have come whole were returned.  For every payload, its flags and its    *)
(* counts, no encoder writes and no decoder reads a byte that is not there;*)
(* and what one browser sends another one decodes field for field.         *)
(***************************************************************************)
EXTENDS PacketStream, PacketCodec, WellFoundedInduction, FiniteSetTheorems, TLAPS

\* A set of numbers has a least one.
LEMMA LeastOf ==
  ASSUME NEW T, T \subseteq Nat, T # {}
  PROVE  \E n \in T : \A m \in T : n <= m
  <1>1. PICK n \in T : \A m \in T : <<m, n>> \notin OpToRel(<, Nat)
    BY NatLessThanWellFounded, WFMin
  <1>2. ASSUME NEW m \in T PROVE n <= m
    <2>1. <<m, n>> \in Nat \X Nat
      OBVIOUS
    <2>2. ~ (m < n)
      BY <1>1, <2>1 DEF OpToRel
    <2> QED
      BY <2>2
  <1> QED
    BY <1>2

-----------------------------------------------------------------------------
(* Where the packets begin.                                                *)

\* Where the packets of a script begin.
Places(g, n) ==
  g = [k \in 1..n |-> IF k = 1 THEN GreetingBytes ELSE g[k - 1] + PacketBytes(k - 1)]

\* The places can be given, one packet after the other.
LEMMA PlacesExist ==
  ASSUME NEW n \in Nat
  PROVE  \E g : Places(g, n)
  <1> DEFINE T == {k \in Nat : ~ \E g : Places(g, k)}
  <1>1. SUFFICES ASSUME T # {} PROVE FALSE
    OBVIOUS
  <1>2. PICK k \in T : \A m \in T : k <= m
    BY <1>1, LeastOf
  <1>3. k # 0
    <2>1. Places([i \in 1..0 |-> 0], 0)
      BY DEF Places
    <2> QED
      BY <2>1
  <1>4. PICK g : Places(g, k - 1)
    <2>1. k - 1 \in Nat /\ ~ (k <= k - 1)
      BY <1>3
    <2> QED
      BY <1>2, <2>1
  <1> DEFINE h == [i \in 1..k |-> IF i = 1 THEN GreetingBytes
                                  ELSE IF i = k THEN g[k - 1]
                                    + PacketBytes(k - 1) ELSE g[i]]
  <1>5. \A i \in 1..k : h[i] = IF i = 1 THEN GreetingBytes ELSE h[i - 1]
          + PacketBytes(i - 1)
    BY <1>3, <1>4 DEF Places
  <1>6. Places(h, k)
    <2> HIDE DEF T
    <2> QED
      BY <1>5 DEF Places
  <1> QED
    BY <1>6

\* A packet begins where the one before it ends.
LEMMA StartsAre ==
  ASSUME script \in Seq(Nat)
  PROVE  /\ DOMAIN Starts = 1..(Len(script) + 1) /\ Starts[1] = GreetingBytes
         /\ \A k \in 1..Len(script) : Starts[k + 1] = Starts[k] + PacketBytes(k)
  <1> DEFINE n == Len(script) + 1
             start == CHOOSE g : Places(g, n)
  <1>1. n \in Nat /\ 1 \in 1..n
    OBVIOUS
  <1>2. Starts = start
    BY DEF Starts, Places
  <1>3. Places(start, n)
    <2> HIDE DEF n
    <2> QED
      BY <1>1, PlacesExist
  <1>4. \A k \in 1..Len(script) : k + 1 \in 1..n /\ k + 1 # 1 /\ (k + 1) - 1 = k
    BY <1>1
  <1> HIDE DEF start
  <1>5. DOMAIN start = 1..n /\ start[1] = GreetingBytes
    BY <1>1, <1>3 DEF Places
  <1>6. ASSUME NEW k \in 1..Len(script) PROVE start[k + 1] = start[k] + PacketBytes(k)
    <2>1. k + 1 \in 1..n /\ k + 1 # 1 /\ (k + 1) - 1 = k
      BY <1>4
    <2> HIDE DEF n
    <2>2. start[k + 1] = start[(k + 1) - 1] + PacketBytes((k + 1) - 1)
      BY <1>3, <2>1 DEF Places
    <2> QED
      BY <2>1, <2>2
  <1> QED
    BY <1>2, <1>5, <1>6

\* Each packet takes bytes, so the places only grow.
LEMMA StartsGrow ==
  ASSUME script \in Seq(Nat), NEW j \in 1..(Len(script) + 1)
  PROVE  /\ Starts[j] \in Nat
         /\ \A i \in 1..(Len(script) + 1) : i < j => Starts[i] < Starts[j]
  <1> DEFINE L == Len(script) + 1
             Fine(k) == Starts[k] \in Nat /\ \A i \in 1..L : i < k => Starts[i] < Starts[k]
             T == {k \in 1..L : ~Fine(k)}
  <1>1. T = {}
    <2> SUFFICES ASSUME T # {} PROVE FALSE
      OBVIOUS
    <2>1. T \subseteq Nat
      OBVIOUS
    <2>2. PICK k \in T : \A m \in T : k <= m
      <3> HIDE DEF T
      <3> QED
        BY <2>1, LeastOf
    <2>3. k \in 1..L /\ ~Fine(k)
      BY <2>2
    <2>4. k # 1
      BY <2>3, StartsAre, StreamAssumption DEF GreetingBytes
    <2>5. k - 1 \in 1..L /\ k - 1 \in 1..Len(script) /\ ~(k <= k - 1)
      BY <2>3, <2>4
    <2>6. Fine(k - 1)
      BY <2>2, <2>5
    <2>7. Starts[k] = Starts[k - 1] + PacketBytes(k - 1)
      BY <2>3, <2>5, StartsAre
    <2>8. PacketBytes(k - 1) \in Nat \ {0}
      BY <2>5, StreamAssumption DEF PacketBytes
    <2>9. Starts[k - 1] \in Nat /\ Starts[k] \in Nat /\ Starts[k - 1] < Starts[k]
      BY <2>6, <2>7, <2>8
    <2>10. ASSUME NEW i \in 1..L, i < k PROVE Starts[i] < Starts[k]
      <3>1. i = k - 1 \/ i < k - 1
        BY <2>3, <2>10
      <3>2. i < k - 1 => Starts[i] < Starts[k - 1] /\ Starts[i] \in Nat
        <4> SUFFICES ASSUME i < k - 1 PROVE Starts[i] < Starts[k - 1] /\ Starts[i] \in Nat
          OBVIOUS
        <4>1. Fine(i)
          <5>1. ~(k <= i)
            BY <2>3, <2>10
          <5> QED
            BY <2>2, <5>1
        <4> QED
          BY <2>6, <4>1
      <3>3. CASE i = k - 1
        BY ONLY <2>9, <3>3
      <3>4. CASE i < k - 1
        BY ONLY <2>9, <3>2, <3>4
      <3> QED
        BY ONLY <3>1, <3>3, <3>4
    <2>11. Fine(k)
      BY <2>9, <2>10
    <2> QED
      BY <2>3, <2>11
  <1> QED
    BY <1>1

\* The packets within the first n bytes are the first ones, up to the one that
\* ends behind them.
LEMMA CompleteIs ==
  ASSUME script \in Seq(Nat), NEW n \in Nat
  PROVE  /\ Complete(n) \in 0..Len(script)
         /\ Complete(n) > 0 => Starts[Complete(n) + 1] <= n
         /\ Complete(n) < Len(script) => n < Starts[Complete(n) + 2]
  <1> DEFINE L == Len(script)
             C == {k \in DOMAIN script : Visible(k, n) /\ Starts[k + 1] <= n}
             Past == {k \in 1..(L + 1) : k = L + 1 \/ Starts[k + 1] > n}
  <1>1. L \in Nat /\ DOMAIN script = 1..L
    OBVIOUS
  <1> HIDE DEF L
  <1>2. PICK m \in Past : \A k \in Past : m <= k
    <2>1. Past \subseteq Nat /\ L + 1 \in Past
      BY <1>1
    <2> HIDE DEF Past
    <2> QED
      BY <2>1, LeastOf
  <1>3. m \in 1..(L + 1) /\ (m # L + 1 => Starts[m + 1] > n)
    BY <1>2
  <1>4. \A k \in 1..(L + 1) : k < m => k \in 1..L /\ Starts[k + 1] <= n
    <2> SUFFICES ASSUME NEW k \in 1..(L + 1), k < m PROVE k \in 1..L /\ Starts[k + 1] <= n
      OBVIOUS
    <2>1. k \in 1..L /\ k + 1 \in 1..(L + 1)
      BY <1>1, <1>3
    <2>2. k \notin Past
      BY <1>1, <1>2, <1>3
    <2>3. Starts[k + 1] \in Nat
      BY <2>1, StartsGrow DEF L
    <2> QED
      BY <2>1, <2>2, <2>3
  <1>5. \A k \in 1..L : k >= m => ~(Starts[k + 1] <= n)
    <2> SUFFICES ASSUME NEW k \in 1..L, k >= m PROVE ~(Starts[k + 1] <= n)
      OBVIOUS
    <2>1. m + 1 \in 1..(L + 1) /\ k + 1 \in 1..(L + 1) /\ m # L + 1
            /\ (k = m \/ m + 1 < k + 1)
      BY <1>1, <1>3
    <2>2. Starts[m + 1] \in Nat /\ Starts[k + 1] \in Nat
      BY <2>1, StartsGrow DEF L
    <2>3. k = m \/ Starts[m + 1] < Starts[k + 1]
      BY <2>1, StartsGrow DEF L
    <2> QED
      BY <1>3, <2>1, <2>2, <2>3
  <1>6. C = 1..(m - 1)
    <2>1. \A k \in 1..L : Starts[k + 1] <= n => Visible(k, n)
      <3> SUFFICES ASSUME NEW k \in 1..L, Starts[k + 1] <= n PROVE Visible(k, n)
        OBVIOUS
      <3>1. k \in 1..(L + 1) /\ script[k] \in Nat
        BY <1>1
      <3>2. Starts[k] \in Nat
        BY <3>1, StartsGrow DEF L
      <3>3. Starts[k + 1] = Starts[k] + (HeaderBytes + script[k])
        BY StartsAre DEF PacketBytes, L
      <3> QED
        BY <3>1, <3>2, <3>3, StreamAssumption DEF Visible
    <2>2. \A k \in 1..L : k \in C <=> k < m
      BY <1>1, <1>3, <1>4, <1>5, <2>1
    <2>3. C \subseteq 1..L /\ 1..(m - 1) \subseteq 1..L
      BY <1>1, <1>3
    <2>4. \A k \in 1..L : k < m <=> k \in 1..(m - 1)
      BY <1>1, <1>3
    <2> HIDE DEF C
    <2> QED
      BY <2>2, <2>3, <2>4
  <1>7. Complete(n) = m - 1
    <2>1. m - 1 \in Nat /\ 1 \in Int
      BY <1>3
    <2>2. Cardinality(1..(m - 1)) = m - 1
      BY <2>1, FS_Interval
    <2> QED
      BY <1>6, <2>2 DEF Complete
  <1>8. m - 1 > 0 => Starts[(m - 1) + 1] <= n
    <2> SUFFICES ASSUME m - 1 > 0 PROVE Starts[(m - 1) + 1] <= n
      OBVIOUS
    <2>1. m - 1 \in 1..(L + 1) /\ m - 1 < m
      BY <1>1, <1>3
    <2> QED
      BY <1>4, <2>1
  <1>9. m - 1 < L => n < Starts[(m - 1) + 2]
    <2> SUFFICES ASSUME m - 1 < L PROVE n < Starts[(m - 1) + 2]
      OBVIOUS
    <2>1. m # L + 1 /\ (m - 1) + 2 = m + 1 /\ m + 1 \in 1..(L + 1)
      BY <1>1, <1>3
    <2>2. Starts[m + 1] \in Nat
      BY <2>1, StartsGrow DEF L
    <2> QED
      BY <1>3, <2>1, <2>2
  <1>10. m - 1 \in 0..L
    BY <1>1, <1>3
  <1> QED
    BY <1>7, <1>8, <1>9, <1>10 DEF L

-----------------------------------------------------------------------------
(* The stream.                                                             *)

\* Nothing leaves the stream before the greeting is whole, and what left it
\* had come.
StreamInv ==
  /\ script \in Seq(Nat) /\ arrived \in Nat
  /\ delivered \in 0 .. Len(script)
  /\ stream = "open" /\ handshake # "ready" => delivered = 0
  /\ stream = "open" /\ handshake = "ready" => taken <= arrived
  /\ FramesExact

\* The invariant of the stream at the beginning,
LEMMA StreamStarts == StreamInit => StreamInv
  <1> SUFFICES ASSUME StreamInit PROVE StreamInv
    OBVIOUS
  <1>1. script \in Seq(Nat)
    BY StreamAssumption DEF StreamInit
  <1>2. handshake # "ready" /\ delivered = 0 /\ arrived = 0
    BY DEF StreamInit
  <1>3. 0 \in 0 .. Len(script)
    BY <1>1
  <1> QED
    BY <1>1, <1>2, <1>3 DEF StreamInv, FramesExact

\* One push that does not throw leaves the beginning of the next packet, from
\* the start of any packet that has come.
LEMMA PushFrames ==
  ASSUME script \in Seq(Nat), NEW n \in Nat, NEW from, delivered \in 0 .. Len(script),
         from <= n, \E k \in 1 .. Len(script) + 1 : from = Starts[k],
         from = n => from = Starts[1],
         arrived' = n, script' = script, StreamPush(from, n)
  PROVE  /\ delivered' \in 0 .. Len(script)
         /\ stream' = "open" =>
              /\ taken' <= arrived'
              /\ taken' = Starts[delivered' + 1]
              /\ delivered' < Len(script) => arrived' < Starts[delivered' + 2]
  <1>1. CASE from < n /\ Throws(from, n)
    <2>1. delivered' = delivered /\ stream' = "lost"
      BY <1>1 DEF StreamPush
    <2> QED
      BY <2>1
  <1>2. CASE ~(from < n /\ Throws(from, n))
    <2> DEFINE c == Complete(n)
    <2>1. /\ delivered' = c
          /\ taken' = IF from < n THEN Starts[c + 1] ELSE from
      BY <1>2 DEF StreamPush
    <2>2. /\ c \in 0 .. Len(script)
          /\ c > 0 => Starts[c + 1] <= n
          /\ c < Len(script) => n < Starts[c + 2]
      BY CompleteIs
    <2> HIDE DEF c
    <2>3. PICK k \in 1 .. Len(script) + 1 : from = Starts[k]
      OBVIOUS
    <2>4. Len(script) \in Nat /\ 1 \in 1 .. Len(script) + 1
            /\ c + 1 \in 1 .. Len(script) + 1
      BY <2>2
    <2>5. Starts[k] \in Nat /\ Starts[1] \in Nat /\ Starts[c + 1] \in Nat
      BY <2>4, StartsGrow
    <2>6. Starts[1] <= Starts[k]
      <3>1. k = 1 \/ 1 < k
        BY <2>4
      <3>2. 1 < k => Starts[1] < Starts[k]
        BY <2>4, StartsGrow
      <3> QED
        BY <2>5, <3>1, <3>2
    <2>7. 1 < c + 1 => Starts[1] < Starts[c + 1]
      BY <2>4, StartsGrow
    <2>8. taken' = Starts[c + 1] /\ taken' <= n
      <3>1. CASE from < n
        <4>1. taken' = Starts[c + 1]
          BY <2>1, <3>1
        <4>2. c > 0 \/ c + 1 = 1
          BY <2>2
        <4> QED
          BY <2>2, <2>3, <2>5, <2>6, <3>1, <4>1, <4>2
      <3>2. CASE ~(from < n)
        <4>1. taken' = from /\ from = n /\ from = Starts[1]
          BY <2>1, <2>3, <2>5, <3>2
        <4>2. ~(c > 0)
          <5>1. c > 0 => 1 < c + 1
            BY <2>2
          <5> QED
            BY <2>2, <2>5, <2>7, <4>1, <5>1
        <4>3. c + 1 = 1
          BY <2>2, <4>2
        <4> QED
          BY <2>3, <2>5, <4>1, <4>3
      <3> QED
        BY <3>1, <3>2
    <2>9. delivered' \in 0 .. Len(script)
      BY <2>1, <2>2
    <2> QED
      BY <2>1, <2>2, <2>8, <2>9
  <1> QED
    BY <1>1, <1>2

\* and over every step.
LEMMA StreamSteps == StreamInv /\ [StreamNext]_streamVars => StreamInv'
  <1> SUFFICES ASSUME StreamInv, [StreamNext]_streamVars PROVE StreamInv'
    OBVIOUS
  <1>1. /\ script \in Seq(Nat) /\ arrived \in Nat /\ Len(script) \in Nat
        /\ delivered \in 0 .. Len(script)
    BY DEF StreamInv
  <1>2. CASE UNCHANGED streamVars
    <2>1. Starts' = Starts
      BY <1>2 DEF Starts, PacketBytes, streamVars
    <2> QED
      BY <1>2, <2>1 DEF StreamInv, FramesExact, streamVars
  <1>3. CASE StreamReceive
    <2>1. PICK n \in arrived + 1 .. End :
            LET phase == IF handshake = "ready" THEN handshake ELSE Judged(n)
            IN /\ arrived' = n /\ chunk' = n - arrived
               /\ handshake' = phase
               /\ \/ phase = "awaiting-greeting" /\ UNCHANGED <<taken, delivered, stream>>
                  \/ /\ phase \in {"failed", "rejected"} /\ stream' = "lost"
                     /\ UNCHANGED <<taken, delivered>>
                  \/ /\ phase = "ready"
                     /\ StreamPush(IF handshake = "ready" THEN taken ELSE Remainder, n)
      BY <1>3 DEF StreamReceive
    <2>2. stream = "open" /\ script' = script /\ greeting' = greeting
      BY <1>3 DEF StreamReceive
    <2> DEFINE phase == IF handshake = "ready" THEN handshake ELSE Judged(n)
               from == IF handshake = "ready" THEN taken ELSE Remainder
    <2>3. arrived' = n /\ handshake' = phase
      BY <2>1
    <2>4. n \in Nat /\ arrived < n
      <3>1. Len(script) + 1 \in 1 .. (Len(script) + 1)
        BY <1>1
      <3>2. End \in Nat
        BY <1>1, <3>1, StartsGrow DEF End
      <3> QED
        BY <1>1, <3>2
    <2>5. Starts' = Starts
      BY <2>2 DEF Starts, PacketBytes
    <2>6. Starts[1] = GreetingBytes /\ GreetingBytes \in Nat
      BY <1>1, StartsAre, StreamAssumption DEF GreetingBytes
    <2>7. CASE phase = "awaiting-greeting" /\ UNCHANGED <<taken, delivered, stream>>
      <3>1. handshake # "ready" /\ handshake' # "ready" /\ delivered = 0 /\ delivered' = 0
        BY <2>2, <2>3, <2>7 DEF StreamInv
      <3> QED
        BY <1>1, <2>2, <2>3, <2>4, <3>1 DEF StreamInv, FramesExact
    <2>8. CASE phase \in {"failed", "rejected"} /\ stream' = "lost"
            /\ UNCHANGED <<taken, delivered>>
      <3>1. stream' # "open" /\ delivered' = delivered
        BY <2>8
      <3> QED
        BY <1>1, <2>2, <2>3, <2>4, <3>1 DEF StreamInv, FramesExact
    <2>9. CASE phase = "ready" /\ StreamPush(from, n)
      <3>1. from <= n /\ (\E k \in 1 .. Len(script) + 1 : from = Starts[k])
              /\ (from = n => from = Starts[1])
        <4>1. CASE handshake = "ready"
          <5>1. from = taken /\ taken = Starts[delivered + 1] /\ taken <= arrived
            BY <2>2, <4>1 DEF StreamInv, FramesExact
          <5>2. delivered + 1 \in 1 .. Len(script) + 1
            BY <1>1
          <5>3. Starts[delivered + 1] \in Nat
            BY <1>1, <5>2, StartsGrow
          <5>4. from <= n /\ from # n
            BY <1>1, <2>4, <5>1, <5>3
          <5> HIDE DEF from
          <5> QED
            BY <5>1, <5>2, <5>4
        <4>2. CASE handshake # "ready"
          <5>1. from = GreetingBytes /\ Judged(n) = "ready"
            BY <2>9, <4>2 DEF Remainder
          <5>2. ~(n < GreetingBytes)
            BY <5>1 DEF Judged
          <5>3. 1 \in 1 .. Len(script) + 1
            BY <1>1
          <5> HIDE DEF from
          <5> QED
            BY <2>4, <2>6, <5>1, <5>2, <5>3
        <4> QED
          BY <4>1, <4>2
      <3>2. StreamPush(from, n)
        BY <2>9
      <3>3. handshake' = "ready"
        BY <2>3, <2>9
      <3> HIDE DEF from, phase
      <3>4. /\ delivered' \in 0 .. Len(script)
            /\ stream' = "open" =>
                 /\ taken' <= arrived'
                 /\ taken' = Starts[delivered' + 1]
                 /\ delivered' < Len(script) => arrived' < Starts[delivered' + 2]
        BY <1>1, <2>2, <2>3, <2>4, <3>1, <3>2, PushFrames
      <3> QED
        BY <1>1, <2>2, <2>3, <2>4, <2>5, <3>3, <3>4 DEF StreamInv, FramesExact
    <2> QED
      BY <2>1, <2>7, <2>8, <2>9
  <1>4. CASE StreamGarbled
    <2>1. PICK n \in arrived + 1 .. End : arrived' = n
      BY <1>4 DEF StreamGarbled
    <2>2. stream' # "open" /\ UNCHANGED <<greeting, script, handshake, delivered>>
      BY <1>4 DEF StreamGarbled
    <2>3. n \in Nat
      <3>1. Len(script) + 1 \in 1 .. (Len(script) + 1)
        BY <1>1
      <3>2. End \in Nat
        BY <1>1, <3>1, StartsGrow DEF End
      <3> QED
        BY <1>1, <3>2
    <2> QED
      BY <1>1, <2>1, <2>2, <2>3 DEF StreamInv, FramesExact
  <1> QED
    BY <1>2, <1>3, <1>4 DEF StreamNext

\* However the gateway cuts the stream, and whatever packets are in it, push
\* returns exactly the packets that have come whole, and keeps the beginning
\* of the next one (ServerHandshake.push, PacketStream.push).
THEOREM ExactFrames == StreamSpec => []FramesExact
  <1>1. StreamInv => FramesExact
    BY DEF StreamInv
  <1> QED
    BY StreamStarts, StreamSteps, <1>1, PTL DEF StreamSpec

-----------------------------------------------------------------------------
(* The bytes of fields.                                                    *)

\* The names of fields that PacketLayout uses.
FieldNames ==
  {"angularAcceleration", "angularVelocity", "azimuth", "bytesLeft", "count",
   "destination", "dt", "endurance", "flag", "flagIndex", "flagType", "flightEnd",
   "flightTime", "from", "gameOptions", "gameType", "initialVelocity", "jumpJetsScale",
   "killer", "landingPosition", "launchPosition", "lifetime", "linearAcceleration",
   "losses", "maxFlags", "maxPlayerScore", "maxPlayers", "maxShots", "maxTeamScore",
   "maxTime", "message", "motto", "nickname", "offset", "order", "owner", "physicsDriver",
   "playerId", "playerSlot", "position", "reason", "reasonCode", "shakeTimeout",
   "shakeWins", "shotId", "size", "sounds", "source", "state", "status", "syncTime",
   "team", "teams", "temporary", "timeElapsed", "timeLeft", "timeSent", "timestamp", "tks",
   "to", "token", "type", "userAngularVelocity", "userSpeed", "velocity", "version",
   "victim", "wins", "worldSize"}
FieldRecords == [name : FieldNames, as : DOMAIN Width, checked : BOOLEAN]
Items == [field : FieldRecords, need : Nat]

\* Every kind of field has some bytes.
LEMMA WidthIs == \A a \in DOMAIN Width : Width[a] \in Nat \ {0}
  BY DEF Width

\* The sums of a row of fields, written out.
Sums(g, s, n) == g = [i \in 0..n |-> IF i = 0 THEN 0 ELSE g[i - 1] + Width[s[i].as]]

\* The sums of a row of fields can be formed.
LEMMA SumsExist ==
  ASSUME NEW s, NEW n \in Nat
  PROVE  \E g : Sums(g, s, n)
  <1> DEFINE T == {k \in Nat : ~ \E g : Sums(g, s, k)}
  <1>1. SUFFICES ASSUME T # {} PROVE FALSE
    OBVIOUS
  <1>2. PICK k \in T : \A m \in T : k <= m
    BY <1>1, LeastOf
  <1>3. k # 0
    <2>1. Sums([i \in 0..0 |-> 0], s, 0)
      BY DEF Sums
    <2> QED
      BY <2>1
  <1>4. PICK g : Sums(g, s, k - 1)
    <2>1. k - 1 \in Nat /\ ~ (k <= k - 1)
      BY <1>3
    <2> QED
      BY <1>2, <2>1
  <1> DEFINE h == [i \in 0..k |-> IF i = k THEN g[k - 1] + Width[s[k].as] ELSE g[i]]
  <1>5. \A i \in 0..k : h[i] = IF i = 0 THEN 0 ELSE h[i - 1] + Width[s[i].as]
    BY <1>3, <1>4 DEF Sums
  <1>6. Sums(h, s, k)
    <2> HIDE DEF T
    <2> QED
      BY <1>5 DEF Sums
  <1> QED
    BY <1>6

\* What SumOf adds up, one field after the other.
LEMMA SumOfIs ==
  ASSUME NEW s \in Seq(FieldRecords)
  PROVE  \E g \in [0..Len(s) -> Nat] :
           /\ g[0] = 0 /\ SumOf(s) = g[Len(s)]
           /\ \A i \in 1..Len(s) : g[i] = g[i - 1] + Width[s[i].as]
  <1> DEFINE n == Len(s)
             g == CHOOSE h : Sums(h, s, n)
  <1>1. SumOf(s) = g[n]
    BY DEF SumOf, Sums
  <1>2. n \in Nat
    OBVIOUS
  <1>3. Sums(g, s, n)
    <2> HIDE DEF n
    <2> QED
      BY <1>2, SumsExist
  <1> HIDE DEF g
  <1>4. g[0] = 0 /\ DOMAIN g = 0..n
    BY <1>2, <1>3 DEF Sums
  <1>5. \A i \in 1..n : g[i] = g[i - 1] + Width[s[i].as]
    <2> SUFFICES ASSUME NEW i \in 1..n PROVE g[i] = g[i - 1] + Width[s[i].as]
      OBVIOUS
    <2>1. i \in 0..n /\ i # 0
      BY <1>2
    <2> HIDE DEF n
    <2> QED
      BY <1>3, <2>1 DEF Sums
  <1>6. \A i \in 1..n : Width[s[i].as] \in Nat
    <2>1. \A i \in 1..n : s[i] \in FieldRecords
      OBVIOUS
    <2>2. \A r \in FieldRecords : r.as \in DOMAIN Width
      BY DEF FieldRecords
    <2> QED
      BY <2>1, <2>2, WidthIs
  <1> DEFINE T == {k \in 0..n : g[k] \notin Nat}
  <1>7. T = {}
    <2> SUFFICES ASSUME T # {} PROVE FALSE
      OBVIOUS
    <2>1. PICK k \in T : \A m \in T : k <= m
      <3>1. T \subseteq Nat
        BY <1>2
      <3> HIDE DEF T
      <3> QED
        BY <3>1, LeastOf
    <2>2. k \in 1..n /\ k - 1 \in 0..n /\ ~ (k <= k - 1)
      BY <1>2, <1>4
    <2>3. g[k - 1] \in Nat
      BY <2>1, <2>2
    <2>4. g[k] = g[k - 1] + Width[s[k].as]
      BY ONLY <1>5, <2>2
    <2>5. Width[s[k].as] \in Nat
      BY ONLY <1>6, <2>2
    <2>6. g[k] \in Nat
      BY ONLY <2>3, <2>4, <2>5
    <2> QED
      BY <2>6
  <1>8. g = [i \in 0..n |-> g[i]]
    <2> HIDE DEF n
    <2> QED
      BY <1>3, <1>4 DEF Sums
  <1>9. g \in [0..n -> Nat]
    BY <1>7, <1>8
  <1> QED
    BY <1>1, <1>4, <1>5, <1>9

\* Items and the bytes they take.
Run(g, s) ==
  /\ g \in [0..Len(s) -> Nat] /\ g[0] = 0
  /\ \A i \in 1..Len(s) : g[i] = g[i - 1] + Width[s[i].field.as]
Takes(s, n) == \E g : Run(g, s) /\ g[Len(s)] = n

\* Each of them lies within this many bytes, or within those that one before it, or
\* it itself, makes sure of.
Within(s, room) ==
  \E g : /\ Run(g, s)
         /\ \A i \in 1..Len(s) : g[i] <= room
              \/ \E j \in 1..i : g[i] - g[j - 1] <= s[j].need

\* An item has some bytes.
LEMMA ItemWidth ==
  ASSUME NEW s \in Seq(Items), NEW i \in 1..Len(s)
  PROVE  Width[s[i].field.as] \in Nat \ {0} /\ s[i].need \in Nat
  <1>1. s[i] \in Items
    OBVIOUS
  <1> QED
    BY <1>1, WidthIs DEF Items, FieldRecords

\* The sums only grow.
LEMMA RunGrows ==
  ASSUME NEW s \in Seq(Items), NEW g, Run(g, s), NEW j \in 0..Len(s)
  PROVE  \A i \in 0..Len(s) : i <= j => g[i] <= g[j]
  <1> DEFINE T == {k \in 0..Len(s) : \E i \in 0..Len(s) : i <= k /\ ~(g[i] <= g[k])}
  <1>1. T = {}
    <2> SUFFICES ASSUME T # {} PROVE FALSE
      OBVIOUS
    <2>1. PICK k \in T : \A m \in T : k <= m
      <3>1. T \subseteq Nat
        OBVIOUS
      <3> HIDE DEF T
      <3> QED
        BY <3>1, LeastOf
    <2>2. PICK i \in 0..Len(s) : i <= k /\ ~(g[i] <= g[k])
      BY <2>1
    <2>3. g[i] \in Nat /\ g[k] \in Nat
      BY DEF Run
    <2>4. i # k
      BY <2>2, <2>3
    <2>5. k \in 1..Len(s) /\ k - 1 \in 0..Len(s) /\ i <= k - 1 /\ ~(k <= k - 1)
      BY <2>2, <2>4
    <2>6. g[i] <= g[k - 1]
      BY <2>1, <2>5
    <2>7. g[k] = g[k - 1] + Width[s[k].field.as] /\ g[k - 1] \in Nat
      BY <2>5 DEF Run
    <2>8. Width[s[k].field.as] \in Nat
      BY <2>5, ItemWidth
    <2> QED
      BY <2>2, <2>3, <2>6, <2>7, <2>8
  <1> QED
    BY <1>1

\* A row without items needs no bytes.
LEMMA NothingTakes == Takes(<< >>, 0) /\ Within(<< >>, -1) /\ SumOf(<< >>) = 0
  <1> DEFINE g == [i \in 0..0 |-> 0]
  <1>1. Run(g, << >>) /\ g[Len(<< >>)] = 0
    BY DEF Run
  <1>2. Within(<< >>, -1)
    BY <1>1 DEF Within
  <1>3. SumOf(<< >>) = 0
    <2>1. << >> \in Seq(FieldRecords) /\ Len(<< >>) = 0
      OBVIOUS
    <2> QED
      BY <2>1, SumOfIs
  <1> QED
    BY <1>1, <1>2, <1>3 DEF Takes

\* Two rows of numbers behind each other.
LEMMA SumsJoin ==
  ASSUME NEW m \in Nat, NEW n \in Nat,
         NEW g \in [0..m -> Nat], NEW h \in [0..n -> Nat], h[0] = 0
  PROVE  \E f \in [0..(m + n) -> Nat] :
           /\ \A i \in 0..m : f[i] = g[i]
           /\ \A k \in 0..n : f[m + k] = g[m] + h[k]
  <1> DEFINE f == [i \in 0..(m + n) |-> IF i <= m THEN g[i] ELSE g[m] + h[i - m]]
  <1>1. g[m] \in Nat /\ \A i \in 0..m : g[i] \in Nat
    OBVIOUS
  <1>2. \A k \in 0..n : h[k] \in Nat
    OBVIOUS
  <1>3. ASSUME NEW i \in 0..(m + n) PROVE f[i] \in Nat
    <2>1. CASE i <= m
      <3>1. i \in 0..m
        BY <2>1
      <3> QED
        BY <1>1, <2>1, <3>1
    <2>2. CASE ~(i <= m)
      <3>1. i - m \in 0..n
        BY <2>2
      <3>2. h[i - m] \in Nat
        BY <1>2, <3>1
      <3> QED
        BY <1>1, <2>2, <3>2
    <2> QED
      BY <2>1, <2>2
  <1>4. f \in [0..(m + n) -> Nat]
    <2>1. f = [i \in 0..(m + n) |-> f[i]]
      OBVIOUS
    <2> HIDE DEF f
    <2> QED
      BY <1>3, <2>1
  <1>5. ASSUME NEW i \in 0..m PROVE f[i] = g[i]
    <2>1. i \in 0..(m + n) /\ i <= m
      OBVIOUS
    <2> QED
      BY <2>1
  <1>6. ASSUME NEW k \in 0..n PROVE f[m + k] = g[m] + h[k]
    <2>1. CASE k = 0
      <3>1. m + k = m /\ m \in 0..(m + n) /\ m <= m
        BY <2>1
      <3>2. f[m] = g[m]
        BY <3>1
      <3> QED
        BY <1>1, <2>1, <3>1, <3>2
    <2>2. CASE k # 0
      <3>1. m + k \in 0..(m + n) /\ ~(m + k <= m) /\ (m + k) - m = k
        BY <2>2
      <3>2. f[m + k] = g[m] + h[(m + k) - m]
        BY <3>1
      <3> QED
        BY <3>1, <3>2
    <2> QED
      BY <2>1, <2>2
  <1> HIDE DEF f
  <1> QED
    BY <1>4, <1>5, <1>6

\* What two rows of items behind each other take, and where the second begins.
LEMMA RunsJoin ==
  ASSUME NEW s \in Seq(Items), NEW t \in Seq(Items), NEW g, Run(g, s), NEW h, Run(h, t)
  PROVE  \E f : /\ Run(f, s \o t)
                /\ \A i \in 0..Len(s) : f[i] = g[i]
                /\ \A k \in 0..Len(t) : f[Len(s) + k] = g[Len(s)] + h[k]
  <1> DEFINE m == Len(s)
             n == Len(t)
             w == s \o t
  <1>1. m \in Nat /\ n \in Nat /\ Len(w) = m + n
    OBVIOUS
  <1>2. \A i \in 1..m : w[i] = s[i]
    OBVIOUS
  <1>3. \A k \in 1..n : w[m + k] = t[k]
    OBVIOUS
  <1>4. /\ g \in [0..m -> Nat] /\ g[0] = 0 /\ h \in [0..n -> Nat] /\ h[0] = 0
        /\ \A i \in 1..m : g[i] = g[i - 1] + Width[s[i].field.as]
        /\ \A i \in 1..n : h[i] = h[i - 1] + Width[t[i].field.as]
    BY DEF Run
  <1>5. \A k \in 1..n : Width[t[k].field.as] \in Nat
    BY ItemWidth
  <1> HIDE DEF m, n, w
  <1>6. PICK f \in [0..(m + n) -> Nat] :
          /\ \A i \in 0..m : f[i] = g[i]
          /\ \A k \in 0..n : f[m + k] = g[m] + h[k]
    BY <1>1, <1>4, SumsJoin
  <1>7. f[0] = 0
    BY <1>1, <1>4, <1>6
  <1>8. ASSUME NEW i \in 1..(m + n) PROVE f[i] = f[i - 1] + Width[w[i].field.as]
    <2>1. CASE i <= m
      <3>1. i \in 1..m /\ i \in 0..m /\ i - 1 \in 0..m
        BY <1>1, <2>1
      <3>2. f[i] = g[i] /\ f[i - 1] = g[i - 1] /\ w[i] = s[i]
        BY <1>2, <1>6, <3>1
      <3> QED
        BY <1>4, <3>1, <3>2
    <2>2. CASE ~(i <= m)
      <3>1. PICK k \in 1..n : i = m + k
        <4>1. i - m \in 1..n /\ i = m + (i - m)
          BY <1>1, <2>2
        <4> QED
          BY <4>1
      <3>2. k \in 0..n /\ k - 1 \in 0..n /\ i - 1 = m + (k - 1) /\ m \in 0..m
        BY <1>1, <3>1
      <3>3. f[i] = g[m] + h[k] /\ f[i - 1] = g[m] + h[k - 1] /\ w[i] = t[k]
        BY <1>3, <1>6, <3>1, <3>2
      <3>4. h[k] = h[k - 1] + Width[t[k].field.as]
        BY <1>4
      <3>5. h[k - 1] \in Nat /\ g[m] \in Nat
        BY <1>4, <3>2
      <3>6. Width[t[k].field.as] \in Nat
        BY <1>5
      <3> QED
        BY ONLY <3>3, <3>4, <3>5, <3>6
    <2> QED
      BY <2>1, <2>2
  <1>9. Run(f, w)
    BY <1>1, <1>6, <1>7, <1>8 DEF Run
  <1>10. /\ \A i \in 0..m : f[i] = g[i]
         /\ \A k \in 0..n : f[m + k] = g[m] + h[k]
    BY <1>6
  <1> QED
    BY <1>9, <1>10 DEF m, n, w

\* What two rows of items take is added up.
LEMMA TakesJoin ==
  ASSUME NEW s \in Seq(Items), NEW t \in Seq(Items), NEW m, NEW n, Takes(s, m), Takes(t, n)
  PROVE  Takes(s \o t, m + n) /\ m \in Nat /\ n \in Nat
  <1>1. PICK g : Run(g, s) /\ g[Len(s)] = m
    BY DEF Takes
  <1>2. PICK h : Run(h, t) /\ h[Len(t)] = n
    BY DEF Takes
  <1>3. PICK f : /\ Run(f, s \o t)
                 /\ \A k \in 0..Len(t) : f[Len(s) + k] = g[Len(s)] + h[k]
    BY <1>1, <1>2, RunsJoin
  <1>4. Len(t) \in 0..Len(t) /\ Len(s) \in 0..Len(s) /\ Len(s \o t) = Len(s) + Len(t)
    OBVIOUS
  <1>5. f[Len(s \o t)] = m + n
    BY <1>1, <1>2, <1>3, <1>4
  <1>6. m \in Nat /\ n \in Nat
    BY <1>1, <1>2, <1>4 DEF Run
  <1> QED
    BY <1>3, <1>5, <1>6 DEF Takes

\* A row that makes sure of its own bytes may follow any other.
LEMMA WithinJoin ==
  ASSUME NEW s \in Seq(Items), NEW t \in Seq(Items), NEW room \in Int,
         Within(s, room), Within(t, -1)
  PROVE  Within(s \o t, room)
  <1> DEFINE m == Len(s)
             n == Len(t)
             w == s \o t
  <1>1. PICK g : /\ Run(g, s)
                 /\ \A i \in 1..m : g[i] <= room
                      \/ \E j \in 1..i : g[i] - g[j - 1] <= s[j].need
    BY DEF Within
  <1>2. PICK h : /\ Run(h, t)
                 /\ \A i \in 1..n : h[i] <= -1
                      \/ \E j \in 1..i : h[i] - h[j - 1] <= t[j].need
    BY DEF Within
  <1>3. PICK f : /\ Run(f, w)
                 /\ \A i \in 0..m : f[i] = g[i]
                 /\ \A k \in 0..n : f[m + k] = g[m] + h[k]
    BY <1>1, <1>2, RunsJoin
  <1>4. m \in Nat /\ n \in Nat /\ Len(w) = m + n
    OBVIOUS
  <1>5. \A i \in 1..m : w[i] = s[i]
    OBVIOUS
  <1>6. \A k \in 1..n : w[m + k] = t[k]
    OBVIOUS
  <1>7. g \in [0..m -> Nat] /\ h \in [0..n -> Nat]
    BY <1>1, <1>2 DEF Run
  <1> HIDE DEF m, n, w
  <1>8. ASSUME NEW i \in 1..(m + n)
        PROVE  f[i] <= room \/ \E j \in 1..i : f[i] - f[j - 1] <= w[j].need
    <2>1. CASE i <= m
      <3>1. i \in 1..m /\ i \in 0..m
        BY <1>4, <2>1
      <3>2. \A j \in 1..i : j - 1 \in 0..m /\ j \in 1..m
        BY <1>4, <2>1
      <3>3. CASE g[i] <= room
        BY <1>3, <3>1, <3>3
      <3>4. CASE \E j \in 1..i : g[i] - g[j - 1] <= s[j].need
        <4>1. PICK j \in 1..i : g[i] - g[j - 1] <= s[j].need
          BY <3>4
        <4>2. f[i] = g[i] /\ f[j - 1] = g[j - 1] /\ w[j] = s[j]
          BY <1>3, <1>5, <3>1, <3>2
        <4> QED
          BY <4>1, <4>2
      <3> QED
        BY <1>1, <3>1, <3>3, <3>4
    <2>2. CASE ~(i <= m)
      <3>1. PICK k \in 1..n : i = m + k
        <4>1. i - m \in 1..n /\ i = m + (i - m)
          BY <1>4, <2>2
        <4> QED
          BY <4>1
      <3>2. k \in 0..n
        BY <1>4
      <3>3. ~(h[k] <= -1)
        <4>1. h[k] \in Nat
          BY <1>7, <3>2
        <4> QED
          BY <4>1
      <3>4. PICK l \in 1..k : h[k] - h[l - 1] <= t[l].need
        BY <1>2, <3>1, <3>3
      <3>5. /\ l \in 1..n /\ l - 1 \in 0..n /\ m + l \in 1..i /\ (m + l) - 1 = m + (l - 1)
            /\ m \in 0..m
        BY <1>4, <3>1
      <3>6. f[i] = g[m] + h[k] /\ f[(m + l) - 1] = g[m] + h[l - 1] /\ w[m + l] = t[l]
        BY <1>3, <1>6, <3>1, <3>2, <3>5
      <3>7. h[k] \in Nat /\ h[l - 1] \in Nat /\ g[m] \in Nat
        BY <1>7, <3>2, <3>5
      <3>8. f[i] - f[(m + l) - 1] = h[k] - h[l - 1]
        BY ONLY <3>6, <3>7
      <3>9. f[i] - f[(m + l) - 1] <= w[m + l].need
        BY ONLY <3>4, <3>6, <3>8
      <3> QED
        BY <3>5, <3>9
    <2> QED
      BY <2>1, <2>2
  <1>9. Within(w, room)
    BY <1>3, <1>4, <1>8 DEF Within
  <1> QED
    BY <1>9 DEF w

\* What fits as a whole fits piece by piece.
LEMMA TakesWithin ==
  ASSUME NEW s \in Seq(Items), NEW n, Takes(s, n), NEW room \in Int, n <= room
  PROVE  Within(s, room)
  <1>1. PICK g : Run(g, s) /\ g[Len(s)] = n
    BY DEF Takes
  <1>2. g \in [0..Len(s) -> Nat] /\ Len(s) \in 0..Len(s)
    BY <1>1 DEF Run
  <1>3. ASSUME NEW i \in 1..Len(s) PROVE g[i] <= room
    <2>1. i \in 0..Len(s) /\ i <= Len(s)
      OBVIOUS
    <2>2. g[i] <= g[Len(s)]
      BY <1>1, <1>2, <2>1, RunGrows
    <2>3. g[i] \in Nat /\ g[Len(s)] \in Nat
      BY <1>2, <2>1
    <2> QED
      BY <1>1, <2>2, <2>3
  <1> QED
    BY <1>1, <1>3 DEF Within

-----------------------------------------------------------------------------
(* Rows of items out of fields, and rows of rows.                          *)

\* Fields without a test take their sum.
LEMMA UnaskedIs ==
  ASSUME NEW s \in Seq(FieldRecords)
  PROVE  /\ Unasked(s) \in Seq(Items) /\ Len(Unasked(s)) = Len(s)
         /\ \A i \in 1..Len(s) : Unasked(s)[i].field = s[i]
         /\ Takes(Unasked(s), SumOf(s))
  <1> DEFINE u == Unasked(s)
  <1>1. \A i \in 1..Len(s) : Item(s[i], 0) \in Items /\ Item(s[i], 0).field = s[i]
    BY DEF Item, Items
  <1>2. u = [i \in 1..Len(s) |-> Item(s[i], 0)] /\ Len(s) \in Nat
    BY DEF Unasked
  <1> HIDE DEF u
  <1>3. u \in Seq(Items) /\ Len(u) = Len(s) /\ \A i \in 1..Len(s) : u[i].field = s[i]
    BY <1>1, <1>2
  <1>4. PICK g \in [0..Len(s) -> Nat] :
           /\ g[0] = 0 /\ SumOf(s) = g[Len(s)]
           /\ \A i \in 1..Len(s) : g[i] = g[i - 1] + Width[s[i].as]
    BY SumOfIs
  <1>5. Takes(u, SumOf(s))
    BY <1>3, <1>4 DEF Takes, Run
  <1> QED
    BY <1>3, <1>5 DEF u

\* The first of them makes sure of all.
LEMMA AskedIs ==
  ASSUME NEW s \in Seq(FieldRecords)
  PROVE  Asked(s) \in Seq(Items) /\ Takes(Asked(s), SumOf(s)) /\ Within(Asked(s), -1)
  <1> DEFINE u == Asked(s)
             need(i) == IF i = 1 THEN SumOf(s) ELSE 0
  <1>1. PICK g \in [0..Len(s) -> Nat] :
           /\ g[0] = 0 /\ SumOf(s) = g[Len(s)]
           /\ \A i \in 1..Len(s) : g[i] = g[i - 1] + Width[s[i].as]
    BY SumOfIs
  <1>2. SumOf(s) \in Nat
    BY <1>1
  <1>3. \A i \in 1..Len(s) : need(i) \in Nat
    BY <1>2
  <1>4. u = [i \in 1..Len(s) |-> Item(s[i], need(i))] /\ Len(s) \in Nat
    BY DEF Asked
  <1> HIDE DEF need
  <1>5. \A i \in 1..Len(s) : /\ Item(s[i], need(i)) \in Items
                             /\ Item(s[i], need(i)).field = s[i]
                             /\ Item(s[i], need(i)).need = need(i)
    BY <1>3 DEF Item, Items
  <1> HIDE DEF u
  <1>6. /\ u \in Seq(Items) /\ Len(u) = Len(s)
        /\ \A i \in 1..Len(s) : u[i].field = s[i] /\ u[i].need = need(i)
    BY <1>4, <1>5
  <1>7. Run(g, u)
    BY <1>1, <1>6 DEF Run
  <1>8. Takes(u, SumOf(s))
    BY <1>1, <1>6, <1>7 DEF Takes
  <1>9. ASSUME NEW i \in 1..Len(u) PROVE \E j \in 1..i : g[i] - g[j - 1] <= u[j].need
    <2>1. i \in 0..Len(u) /\ Len(u) \in 0..Len(u) /\ i <= Len(u) /\ 1 \in 1..i
            /\ 1 \in 1..Len(s) /\ 1 - 1 = 0
      BY <1>4, <1>6
    <2>2. g[i] <= g[Len(u)]
      BY <1>6, <1>7, <2>1, RunGrows
    <2>3. u[1].need = SumOf(s)
      BY <1>6, <2>1 DEF need
    <2>4. g[i] \in Nat
      BY <1>1, <1>6, <2>1
    <2>5. g[1 - 1] = 0 /\ g[Len(u)] = SumOf(s)
      BY <1>1, <1>6, <2>1
    <2>6. g[i] - g[1 - 1] <= u[1].need
      BY ONLY <1>2, <2>2, <2>3, <2>4, <2>5
    <2> QED
      BY ONLY <2>1, <2>6
  <1>10. Within(u, -1)
    BY <1>7, <1>9 DEF Within
  <1> QED
    BY <1>6, <1>8, <1>10 DEF u

\* What a row of items takes is one number.
LEMMA TakesOnce ==
  ASSUME NEW s \in Seq(Items), NEW m, NEW n, Takes(s, m), Takes(s, n)
  PROVE  m = n
  <1>1. PICK g : Run(g, s) /\ g[Len(s)] = m
    BY DEF Takes
  <1>2. PICK h : Run(h, s) /\ h[Len(s)] = n
    BY DEF Takes
  <1> DEFINE T == {k \in 0..Len(s) : g[k] # h[k]}
  <1>3. T = {}
    <2> SUFFICES ASSUME T # {} PROVE FALSE
      OBVIOUS
    <2>1. PICK k \in T : \A i \in T : k <= i
      <3>1. T \subseteq Nat
        OBVIOUS
      <3> HIDE DEF T
      <3> QED
        BY <3>1, LeastOf
    <2>2. k \in 1..Len(s) /\ k - 1 \in 0..Len(s) /\ ~(k <= k - 1)
      BY <1>1, <1>2, <2>1 DEF Run
    <2>3. g[k - 1] = h[k - 1]
      BY <2>1, <2>2
    <2> QED
      BY <1>1, <1>2, <2>1, <2>2, <2>3 DEF Run
  <1>4. Len(s) \in 0..Len(s)
    OBVIOUS
  <1> QED
    BY <1>1, <1>2, <1>3, <1>4

\* The bytes of two rows behind each other.
LEMMA SumOfJoin ==
  ASSUME NEW s \in Seq(FieldRecords), NEW t \in Seq(FieldRecords)
  PROVE  SumOf(s \o t) = SumOf(s) + SumOf(t)
  <1>1. s \o t \in Seq(FieldRecords)
    OBVIOUS
  <1>2. Unasked(s \o t) = Unasked(s) \o Unasked(t)
    <2> DEFINE w == s \o t
               I(f) == Item(f, 0)
    <2>1. [i \in 1..Len(w) |-> I(w[i])]
            = [i \in 1..Len(s) |-> I(s[i])] \o [i \in 1..Len(t) |-> I(t[i])]
      <3> HIDE DEF I
      <3> QED
        OBVIOUS
    <2> QED
      BY <2>1 DEF Unasked
  <1>3. Takes(Unasked(s) \o Unasked(t), SumOf(s) + SumOf(t))
    BY UnaskedIs, TakesJoin
  <1>4. Takes(Unasked(s \o t), SumOf(s \o t)) /\ Unasked(s \o t) \in Seq(Items)
    BY <1>1, UnaskedIs
  <1> QED
    BY <1>2, <1>3, <1>4, TakesOnce

\* What Joined goes through.
Joins(g, p, n) == g = [i \in 0..n |-> IF i = 0 THEN << >> ELSE g[i - 1] \o p[i]]

\* Rows joined one after the other: the next one,
LEMMA JoinsStep ==
  ASSUME NEW g, NEW p, NEW n \in Nat, NEW i \in 1..n, Joins(g, p, n)
  PROVE  g[i] = g[i - 1] \o p[i]
  <1> DEFINE Step(w, j) == IF j = 0 THEN << >> ELSE w \o p[j]
  <1>1. g = [j \in 0..n |-> Step(g[j - 1], j)]
    BY DEF Joins
  <1>2. g[i] = Step(g[i - 1], i)
    <2>1. i \in 0..n
      OBVIOUS
    <2> HIDE DEF Step
    <2> QED
      BY <1>1, <2>1
  <1>3. Step(g[i - 1], i) = g[i - 1] \o p[i]
    <2>1. i # 0
      OBVIOUS
    <2> QED
      BY ONLY <2>1
  <1> HIDE DEF Step
  <1> QED
    BY <1>2, <1>3

\* that they can be,
LEMMA JoinsExist ==
  ASSUME NEW p, NEW n \in Nat
  PROVE  \E g : Joins(g, p, n)
  <1> DEFINE T == {k \in Nat : ~ \E g : Joins(g, p, k)}
  <1>1. SUFFICES ASSUME T # {} PROVE FALSE
    OBVIOUS
  <1>2. PICK k \in T : \A m \in T : k <= m
    BY <1>1, LeastOf
  <1>3. k # 0
    <2>1. Joins([i \in 0..0 |-> << >>], p, 0)
      BY DEF Joins
    <2> QED
      BY <2>1
  <1>4. PICK g : Joins(g, p, k - 1)
    <2>1. k - 1 \in Nat /\ ~ (k <= k - 1)
      BY <1>3
    <2> QED
      BY <1>2, <2>1
  <1> DEFINE h == [i \in 0..k |-> IF i = k THEN g[k - 1] \o p[k] ELSE g[i]]
  <1>5. \A i \in 0..k : h[i] = IF i = 0 THEN << >> ELSE h[i - 1] \o p[i]
    <2> SUFFICES ASSUME NEW i \in 0..k
                 PROVE  h[i] = IF i = 0 THEN << >> ELSE h[i - 1] \o p[i]
      OBVIOUS
    <2>1. CASE i = k
      <3>1. k - 1 \in 0..k /\ k - 1 # k /\ h[k - 1] = g[k - 1]
        BY <1>3
      <3> QED
        BY <1>3, <2>1, <3>1
    <2>2. CASE i = 0
      <3>1. g[0] = << >>
        <4>1. 0 \in 0..(k - 1)
          BY <1>3
        <4> QED
          BY <1>4, <4>1 DEF Joins
      <3> QED
        BY <1>3, <2>2, <3>1
    <2>3. CASE i # k /\ i # 0
      <3>1. i \in 1..(k - 1) /\ k - 1 \in Nat /\ i - 1 \in 0..k /\ i - 1 # k
        BY <1>3, <2>3
      <3>2. g[i] = g[i - 1] \o p[i]
        BY <1>4, <3>1, JoinsStep
      <3> QED
        BY <2>3, <3>1, <3>2
    <2> QED
      BY <2>1, <2>2, <2>3
  <1>6. Joins(h, p, k)
    <2> HIDE DEF T
    <2> QED
      BY <1>5 DEF Joins
  <1> QED
    BY <1>6

\* and that this is what Joined does.
LEMMA JoinedIs ==
  ASSUME NEW p, Len(p) \in Nat
  PROVE  \E g : /\ g[0] = << >> /\ Joined(p) = g[Len(p)]
                /\ \A i \in 1..Len(p) : g[i] = g[i - 1] \o p[i]
  <1> DEFINE n == Len(p)
             g == CHOOSE h : Joins(h, p, n)
  <1>1. Joined(p) = g[n]
    BY DEF Joined, Joins
  <1>2. Joins(g, p, n)
    <2> HIDE DEF n
    <2> QED
      BY JoinsExist DEF n
  <1> HIDE DEF g
  <1>3. g[0] = << >>
    <2>1. 0 \in 0..n
      OBVIOUS
    <2> QED
      BY <1>2, <2>1 DEF Joins
  <1>4. \A i \in 1..n : g[i] = g[i - 1] \o p[i]
    <2> SUFFICES ASSUME NEW i \in 1..n PROVE g[i] = g[i - 1] \o p[i]
      OBVIOUS
    <2>1. n \in Nat
      OBVIOUS
    <2> HIDE DEF n
    <2> QED
      BY <1>2, <2>1, JoinsStep
  <1> QED
    BY <1>1, <1>3, <1>4

\* Rows of at most n bytes each take that many bytes together.
LEMMA JoinedTakes ==
  ASSUME NEW p, Len(p) \in Nat, NEW n \in Nat,
         \A i \in 1..Len(p) : p[i] \in Seq(Items) /\ \E k : Takes(p[i], k) /\ k <= n
  PROVE  Joined(p) \in Seq(Items) /\ \E k : Takes(Joined(p), k) /\ k <= Len(p) * n
  <1>1. PICK g : /\ g[0] = << >> /\ Joined(p) = g[Len(p)]
                 /\ \A i \in 1..Len(p) : g[i] = g[i - 1] \o p[i]
    BY JoinedIs
  <1> DEFINE Fine(i) == g[i] \in Seq(Items) /\ \E k : Takes(g[i], k) /\ k <= i * n
             T == {i \in 0..Len(p) : ~Fine(i)}
  <1>2. Fine(0)
    <2>1. Takes(<< >>, 0) /\ 0 <= 0 * n /\ << >> \in Seq(Items)
      BY NothingTakes
    <2> QED
      BY <1>1, <2>1
  <1>3. T = {}
    <2> SUFFICES ASSUME T # {} PROVE FALSE
      OBVIOUS
    <2>1. PICK i \in T : \A j \in T : i <= j
      <3>1. T \subseteq Nat
        OBVIOUS
      <3> HIDE DEF T
      <3> QED
        BY <3>1, LeastOf
    <2>2. i \in 1..Len(p) /\ i - 1 \in 0..Len(p) /\ ~(i <= i - 1)
      BY <1>2, <2>1
    <2>3. Fine(i - 1)
      BY <2>1, <2>2
    <2>4. PICK k : Takes(g[i - 1], k) /\ k <= (i - 1) * n
      BY <2>3
    <2>5. PICK l : Takes(p[i], l) /\ l <= n
      BY <2>2
    <2>6. g[i] = g[i - 1] \o p[i] /\ g[i - 1] \in Seq(Items) /\ p[i] \in Seq(Items)
      BY <1>1, <2>2, <2>3
    <2>7. Takes(g[i], k + l) /\ k \in Nat /\ l \in Nat
      BY <2>4, <2>5, <2>6, TakesJoin
    <2>8. g[i] \in Seq(Items)
      BY <2>6
    <2>9. i * n = (i - 1) * n + n /\ (i - 1) * n \in Nat
      <3>1. i \in Nat /\ i - 1 \in Nat
        BY <2>2
      <3> QED
        BY <3>1
    <2>10. k + l <= i * n
      BY <2>4, <2>5, <2>7, <2>9
    <2>11. Fine(i)
      BY <2>7, <2>8, <2>10
    <2> QED
      BY <2>1, <2>11
  <1>4. Fine(Len(p))
    <2>1. Len(p) \in 0..Len(p)
      OBVIOUS
    <2> QED
      BY <1>3, <2>1
  <1> QED
    BY <1>1, <1>4

\* Rows that make sure of their own bytes do so behind each other.
LEMMA JoinedWithin ==
  ASSUME NEW p, Len(p) \in Nat, \A i \in 1..Len(p) : p[i] \in Seq(Items) /\ Within(p[i], -1)
  PROVE  Joined(p) \in Seq(Items) /\ Within(Joined(p), -1)
  <1>1. PICK g : /\ g[0] = << >> /\ Joined(p) = g[Len(p)]
                 /\ \A i \in 1..Len(p) : g[i] = g[i - 1] \o p[i]
    BY JoinedIs
  <1> DEFINE Fine(i) == g[i] \in Seq(Items) /\ Within(g[i], -1)
             T == {i \in 0..Len(p) : ~Fine(i)}
  <1>2. Fine(0)
    BY <1>1, NothingTakes
  <1>3. T = {}
    <2> SUFFICES ASSUME T # {} PROVE FALSE
      OBVIOUS
    <2>1. PICK i \in T : \A j \in T : i <= j
      <3>1. T \subseteq Nat
        OBVIOUS
      <3> HIDE DEF T
      <3> QED
        BY <3>1, LeastOf
    <2>2. i \in 1..Len(p) /\ i - 1 \in 0..Len(p) /\ ~(i <= i - 1)
      BY <1>2, <2>1
    <2>3. Fine(i - 1)
      BY <2>1, <2>2
    <2>4. /\ g[i] = g[i - 1] \o p[i] /\ g[i - 1] \in Seq(Items) /\ p[i] \in Seq(Items)
          /\ Within(g[i - 1], -1) /\ Within(p[i], -1)
      BY <1>1, <2>2, <2>3
    <2>5. Fine(i)
      <3>1. g[i] \in Seq(Items)
        BY <2>4
      <3>2. -1 \in Int
        OBVIOUS
      <3>3. Within(g[i], -1)
        BY <2>4, <3>2, WithinJoin
      <3> QED
        BY <3>1, <3>3
    <2> QED
      BY <2>1, <2>5
  <1>4. Len(p) \in 0..Len(p)
    OBVIOUS
  <1> QED
    BY <1>1, <1>3, <1>4

\* Optional fields take as an encoder writes them what it allocates for them.
LEMMA JoinedAsked ==
  ASSUME NEW p, NEW q, Len(p) \in Nat, Len(q) = Len(p),
         \A i \in 1..Len(p) : p[i] \in Seq(FieldRecords) /\ q[i] = Asked(p[i])
  PROVE  /\ Joined(p) \in Seq(FieldRecords) /\ Joined(q) \in Seq(Items)
         /\ Takes(Joined(q), SumOf(Joined(p)))
  <1>1. PICK g : /\ g[0] = << >> /\ Joined(p) = g[Len(p)]
                 /\ \A i \in 1..Len(p) : g[i] = g[i - 1] \o p[i]
    BY JoinedIs
  <1>2. PICK h : /\ h[0] = << >> /\ Joined(q) = h[Len(p)]
                 /\ \A i \in 1..Len(p) : h[i] = h[i - 1] \o q[i]
    BY JoinedIs
  <1> DEFINE Fine(i) == /\ g[i] \in Seq(FieldRecords) /\ h[i] \in Seq(Items)
                        /\ Takes(h[i], SumOf(g[i]))
             T == {i \in 0..Len(p) : ~Fine(i)}
  <1>3. Fine(0)
    <2>1. << >> \in Seq(FieldRecords) /\ << >> \in Seq(Items)
      OBVIOUS
    <2> QED
      BY <1>1, <1>2, <2>1, NothingTakes
  <1>4. T = {}
    <2> SUFFICES ASSUME T # {} PROVE FALSE
      OBVIOUS
    <2>1. PICK i \in T : \A j \in T : i <= j
      <3>1. T \subseteq Nat
        OBVIOUS
      <3> HIDE DEF T
      <3> QED
        BY <3>1, LeastOf
    <2>2. i \in 1..Len(p) /\ i - 1 \in 0..Len(p) /\ ~(i <= i - 1)
      BY <1>3, <2>1
    <2>3. Fine(i - 1)
      BY <2>1, <2>2
    <2>4. /\ g[i] = g[i - 1] \o p[i] /\ h[i] = h[i - 1] \o q[i]
          /\ p[i] \in Seq(FieldRecords) /\ q[i] = Asked(p[i])
      BY <1>1, <1>2, <2>2
    <2>5. q[i] \in Seq(Items) /\ Takes(q[i], SumOf(p[i]))
      BY <2>4, AskedIs
    <2>6. g[i] \in Seq(FieldRecords) /\ h[i] \in Seq(Items)
      BY <2>3, <2>4, <2>5
    <2>7. SumOf(g[i]) = SumOf(g[i - 1]) + SumOf(p[i])
      BY <2>3, <2>4, SumOfJoin
    <2>8. Takes(h[i], SumOf(g[i - 1]) + SumOf(p[i]))
      BY <2>3, <2>4, <2>5, TakesJoin
    <2> QED
      BY <2>1, <2>6, <2>7, <2>8
  <1>5. Len(p) \in 0..Len(p)
    OBVIOUS
  <1> QED
    BY <1>1, <1>2, <1>4, <1>5

-----------------------------------------------------------------------------
(* The plan of a layout.                                                   *)

\* The sizes of a layout hold its fields; no optional part has more than four
\* bytes.
Fine(l) ==
  /\ l.n \in Nat /\ l.bytes \in Nat /\ l.most \in Nat
  /\ l.fields \in Seq(FieldRecords) /\ SumOf(l.fields) <= l.n
  /\ l.record \in Seq(FieldRecords) /\ SumOf(l.record) <= l.bytes
  /\ Len(l.tail) \in Nat
  /\ \A i \in 1..Len(l.tail) :
       l.tail[i].fields \in Seq(FieldRecords) /\ SumOf(l.tail[i].fields) <= 4

\* All but one of the sizes are the sum of the fields.
Full(l) == Fine(l) /\ SumOf(l.fields) = l.n

\* What it has at most is no more than the largest payload of all.
Small(l) == l.n + l.bytes * l.most + 4 * Len(l.tail) <= Size.enter

\* The optional part of a plan makes sure of its own bytes.
LEMMA TailIs ==
  ASSUME NEW l, Fine(l), NEW bits
  PROVE  LET tail == Joined([i \in 1 .. Len(l.tail) |-> Asked(Taken(l, bits)[i])])
         IN  /\ tail \in Seq(Items) /\ Within(tail, -1) /\ Takes(tail, TailBytes(l, bits))
             /\ TailBytes(l, bits) \in Nat /\ TailBytes(l, bits) <= 4 * Len(l.tail)
  <1> DEFINE n == Len(l.tail)
             p == Taken(l, bits)
             q == [i \in 1 .. n |-> Asked(p[i])]
  <1>1. n \in Nat /\ \A i \in 1..n : l.tail[i].fields \in Seq(FieldRecords)
          /\ SumOf(l.tail[i].fields) <= 4
    BY DEF Fine
  <1>2. DOMAIN p = 1..n /\ \A i \in 1..n : p[i] \in {l.tail[i].fields, << >>}
    BY DEF Taken
  <1> HIDE DEF n, p
  <1>3. Len(p) = n
    <2>1. p = [i \in 1..n |-> p[i]]
      BY <1>2 DEF p, Taken, n
    <2> QED
      BY <1>1, <2>1
  <1>4. ASSUME NEW i \in 1..n PROVE p[i] \in Seq(FieldRecords) /\ SumOf(p[i]) <= 4
    <2>1. SumOf(<< >>) <= 4 /\ << >> \in Seq(FieldRecords)
      BY NothingTakes
    <2>2. l.tail[i].fields \in Seq(FieldRecords) /\ SumOf(l.tail[i].fields) <= 4
      BY <1>1
    <2>3. p[i] = l.tail[i].fields \/ p[i] = << >>
      BY <1>2
    <2> QED
      BY <2>1, <2>2, <2>3
  <1>5. Len(q) = n /\ \A i \in 1..n : q[i] = Asked(p[i])
    BY <1>1
  <1> HIDE DEF q
  <1>6. \A i \in 1..n : q[i] \in Seq(Items) /\ Takes(q[i], SumOf(p[i])) /\ Within(q[i], -1)
    BY <1>4, <1>5, AskedIs
  <1>7. Joined(q) \in Seq(Items) /\ Within(Joined(q), -1)
    BY <1>1, <1>5, <1>6, JoinedWithin
  <1>8. Takes(Joined(q), SumOf(Joined(p)))
    <2>1. \A i \in 1..Len(p) : p[i] \in Seq(FieldRecords) /\ q[i] = Asked(p[i])
      BY <1>3, <1>4, <1>5
    <2>2. Len(p) \in Nat /\ Len(q) = Len(p)
      BY <1>1, <1>3, <1>5
    <2> QED
      BY ONLY <2>1, <2>2, JoinedAsked
  <1>9. PICK k : Takes(Joined(q), k) /\ k <= n * 4
    <2>1. \A i \in 1..Len(q) : q[i] \in Seq(Items) /\ \E k : Takes(q[i], k) /\ k <= 4
      BY <1>4, <1>5, <1>6
    <2>2. Len(q) \in Nat /\ 4 \in Nat /\ Len(q) = n
      BY <1>1, <1>5
    <2>3. \E k : Takes(Joined(q), k) /\ k <= Len(q) * 4
      BY ONLY <2>1, <2>2, JoinedTakes
    <2> QED
      BY <2>2, <2>3
  <1>10. SumOf(Joined(p)) = k
    BY <1>7, <1>8, <1>9, TakesOnce
  <1>11. k \in Nat
    <2>1. PICK g : Run(g, Joined(q)) /\ g[Len(Joined(q))] = k
      BY <1>9 DEF Takes
    <2>2. Len(Joined(q)) \in 0..Len(Joined(q))
      BY <1>7
    <2> QED
      BY <2>1, <2>2 DEF Run
  <1>12. TailBytes(l, bits) = SumOf(Joined(p))
    BY DEF TailBytes, p
  <1>13. k <= 4 * n
    BY <1>1, <1>9, <1>11
  <1>14. /\ Joined(q) \in Seq(Items) /\ Within(Joined(q), -1)
              /\ Takes(Joined(q), TailBytes(l, bits))
         /\ TailBytes(l, bits) \in Nat /\ TailBytes(l, bits) <= 4 * n
    BY <1>7, <1>8, <1>10, <1>11, <1>12, <1>13
  <1> QED
    BY <1>14 DEF q, p, n

\* What a plan takes, and how much of the payload it relies on.
LEMMA PlanIs ==
  ASSUME NEW l, Fine(l), NEW bits, NEW count \in Nat
  PROVE  /\ Plan(l, bits, count) \in Seq(Items)
         /\ \A room \in Int : l.n
              + l.bytes * count <= room => Within(Plan(l, bits, count), room)
         /\ \E k \in Nat : /\ Takes(Plan(l, bits, count), k)
                           /\ k <= l.n + l.bytes * count + TailBytes(l, bits)
         /\ TailBytes(l, bits) \in Nat /\ TailBytes(l, bits) <= 4 * Len(l.tail)
  <1> DEFINE front == Unasked(l.fields)
             row == Unasked(l.record)
             rows == [i \in 1 .. count |-> row]
             tail == Joined([i \in 1 .. Len(l.tail) |-> Asked(Taken(l, bits)[i])])
             most == l.bytes * count
             more == TailBytes(l, bits)
  <1>1. Plan(l, bits, count) = (front \o Joined(rows)) \o tail
    BY DEF Plan
  <1>2. /\ l.n \in Nat /\ l.bytes \in Nat
        /\ l.fields \in Seq(FieldRecords) /\ SumOf(l.fields) <= l.n
        /\ l.record \in Seq(FieldRecords) /\ SumOf(l.record) <= l.bytes
    BY DEF Fine
  <1>3. /\ tail \in Seq(Items) /\ Within(tail, -1) /\ Takes(tail, more)
        /\ more \in Nat /\ more <= 4 * Len(l.tail)
    BY TailIs
  <1>4. front \in Seq(Items) /\ Takes(front, SumOf(l.fields))
    BY <1>2, UnaskedIs
  <1>5. row \in Seq(Items) /\ Takes(row, SumOf(l.record))
    BY <1>2, UnaskedIs
  <1> HIDE DEF tail, front, row, more
  <1>6. Len(rows) = count /\ \A i \in 1..count : rows[i] = row
    OBVIOUS
  <1> HIDE DEF rows
  <1>7. Joined(rows) \in Seq(Items) /\ \E k : Takes(Joined(rows), k) /\ k <= count * l.bytes
    <2>1. \A i \in 1..Len(rows) : rows[i] \in Seq(Items) /\ \E k : Takes(rows[i], k)
            /\ k <= l.bytes
      BY <1>2, <1>5, <1>6
    <2>2. Joined(rows) \in Seq(Items) /\ \E k : Takes(Joined(rows), k)
            /\ k <= Len(rows) * l.bytes
      BY <1>2, <1>6, <2>1, JoinedTakes
    <2> QED
      BY <1>6, <2>2
  <1>8. PICK k : Takes(Joined(rows), k) /\ k <= count * l.bytes
    BY <1>7
  <1>9. count * l.bytes = most /\ most \in Nat
    BY <1>2
  <1> HIDE DEF most
  <1> DEFINE first == front \o Joined(rows)
             bytes == SumOf(l.fields) + k
  <1>10. first \in Seq(Items) /\ Takes(first, bytes) /\ bytes <= l.n + most /\ bytes \in Nat
    <2>1. Takes(first, bytes) /\ SumOf(l.fields) \in Nat /\ k \in Nat
      BY <1>4, <1>7, <1>8, TakesJoin
    <2>2. first \in Seq(Items)
      BY <1>4, <1>7
    <2>3. bytes <= l.n + most /\ bytes \in Nat
      <3>1. k <= most
        BY <1>8, <1>9
      <3>2. SumOf(l.fields) <= l.n /\ l.n \in Nat /\ most \in Nat
        BY <1>2, <1>9
      <3>3. SumOf(l.fields) \in Nat /\ k \in Nat
        BY <2>1
      <3> QED
        BY ONLY <3>1, <3>2, <3>3
    <2> QED
      BY <2>1, <2>2, <2>3
  <1> HIDE DEF first, bytes
  <1>11. ASSUME NEW room \in Int, l.n + most <= room PROVE Within(first \o tail, room)
    <2>1. bytes <= room
      BY <1>2, <1>9, <1>10, <1>11
    <2>2. Within(first, room)
      BY <1>10, <2>1, TakesWithin
    <2> QED
      BY <1>3, <1>10, <2>2, WithinJoin
  <1>12. Takes(first \o tail, bytes + more) /\ bytes + more \in Nat
           /\ bytes + more <= l.n + most + more
    <2>1. Takes(first \o tail, bytes + more)
      BY <1>3, <1>10, TakesJoin
    <2> QED
      BY <1>2, <1>3, <1>9, <1>10, <2>1
  <1>13. first \o tail \in Seq(Items)
    BY <1>3, <1>10
  <1>14. Plan(l, bits, count) = first \o tail
    BY <1>1 DEF first
  <1>15. \A room \in Int : l.n + most <= room => Within(Plan(l, bits, count), room)
    BY <1>11, <1>14
  <1>16. \E j \in Nat : Takes(Plan(l, bits, count), j) /\ j <= l.n + most + more
    BY <1>12, <1>14
  <1>17. Plan(l, bits, count) \in Seq(Items)
    BY <1>13, <1>14
  <1> QED
    BY <1>3, <1>15, <1>16, <1>17 DEF most, more

-----------------------------------------------------------------------------
(* The codec at work.                                                      *)

\* What an encoder still writes fits in its payload; what a decoder still reads
\* lies in the payload, or behind a test that makes sure of it.
CodecInv ==
  /\ outcome # "throws"
  /\ at \in Nat /\ length \in Nat
  /\ codec = "idle" => at = 0
  /\ codec = "writing" => /\ todo \in Seq(Items) /\ length <= MaxPayload
                          /\ \E n \in Nat : Takes(todo, n) /\ at + n <= length
  /\ codec = "sent" => length <= MaxPayload
  /\ codec = "reading" => todo \in Seq(Items) /\ Within(todo, length - at)

\* What is left of a row without its first item.
LEMMA TailOfRow ==
  ASSUME NEW s \in Seq(Items), s # << >>
  PROVE  /\ Tail(s) \in Seq(Items) /\ Len(s) \in Nat /\ Len(s) >= 1
              /\ Len(Tail(s)) = Len(s) - 1
         /\ \A i \in 1..(Len(s) - 1) : Tail(s)[i] = s[i + 1]
         /\ Width[s[1].field.as] \in Nat /\ s[1].need \in Nat
  <1>1. Len(s) \in Nat /\ Len(s) >= 1 /\ 1 \in 1..Len(s)
    OBVIOUS
  <1>2. Width[s[1].field.as] \in Nat /\ s[1].need \in Nat
    BY <1>1, ItemWidth
  <1>3. Tail(s) \in Seq(Items) /\ Len(Tail(s)) = Len(s) - 1
    OBVIOUS
  <1>4. \A i \in 1..(Len(s) - 1) : Tail(s)[i] = s[i + 1]
    OBVIOUS
  <1> QED
    BY <1>1, <1>2, <1>3, <1>4

\* One item less.
LEMMA RunOfTail ==
  ASSUME NEW s \in Seq(Items), s # << >>, NEW g, Run(g, s)
  PROVE  \E h : /\ Run(h, Tail(s))
                /\ \A i \in 0..(Len(s) - 1) : h[i] = g[i + 1] - Width[s[1].field.as]
                /\ g[1] = Width[s[1].field.as]
  <1> DEFINE n == Len(s)
             w == Width[s[1].field.as]
             t == Tail(s)
             h == [i \in 0..(n - 1) |-> g[i + 1] - w]
  <1>1. /\ t \in Seq(Items) /\ n \in Nat /\ n >= 1 /\ Len(t) = n - 1 /\ w \in Nat
        /\ \A i \in 1..(n - 1) : t[i] = s[i + 1]
    BY TailOfRow
  <1>2. /\ g \in [0..n -> Nat] /\ g[0] = 0
        /\ \A i \in 1..n : g[i] = g[i - 1] + Width[s[i].field.as]
    BY DEF Run
  <1>3. g[1] = w
    <2>1. 1 \in 1..n /\ 1 - 1 = 0
      BY <1>1
    <2>2. g[1] = g[1 - 1] + Width[s[1].field.as]
      BY <1>2, <2>1
    <2> QED
      BY <1>1, <1>2, <2>1, <2>2
  <1>4. \A i \in 0..(n - 1) : g[i + 1] \in Nat /\ g[i + 1] >= w
    <2> SUFFICES ASSUME NEW i \in 0..(n - 1) PROVE g[i + 1] \in Nat /\ g[i + 1] >= w
      OBVIOUS
    <2>1. i + 1 \in 0..n /\ 1 \in 0..n /\ 1 <= i + 1
      BY <1>1
    <2>2. g[1] <= g[i + 1]
      BY <2>1, RunGrows DEF n
    <2>3. g[i + 1] \in Nat
      BY <1>2, <2>1
    <2> QED
      BY <1>1, <1>3, <2>2, <2>3
  <1>5. \A i \in 1..(n - 1) : g[i + 1] = g[i] + Width[t[i].field.as]
    <2> SUFFICES ASSUME NEW i \in 1..(n - 1) PROVE g[i + 1] = g[i] + Width[t[i].field.as]
      OBVIOUS
    <2>1. i + 1 \in 1..n /\ (i + 1) - 1 = i
      BY <1>1
    <2>2. g[i + 1] = g[(i + 1) - 1] + Width[s[i + 1].field.as]
      BY <1>2, <2>1
    <2> QED
      BY <1>1, <2>1, <2>2
  <1>6. \A i \in 1..(n - 1) : Width[t[i].field.as] \in Nat
    BY <1>1, ItemWidth
  <1> HIDE DEF n, w, t
  <1>7. h \in [0..(n - 1) -> Nat] /\ h[0] = 0
    <2>1. \A i \in 0..(n - 1) : g[i + 1] - w \in Nat
      <3> SUFFICES ASSUME NEW i \in 0..(n - 1) PROVE g[i + 1] - w \in Nat
        OBVIOUS
      <3>1. g[i + 1] \in Nat /\ g[i + 1] >= w
        BY <1>4
      <3> QED
        BY <1>1, <3>1
    <2>2. h[0] = g[1] - w
      BY <1>1
    <2>3. h \in [0..(n - 1) -> Nat]
      BY <2>1
    <2> QED
      BY <1>1, <1>3, <2>2, <2>3
  <1>8. \A i \in 0..(n - 1) : h[i] = g[i + 1] - w
    OBVIOUS
  <1> HIDE DEF h
  <1>9. ASSUME NEW i \in 1..(n - 1) PROVE h[i] = h[i - 1] + Width[t[i].field.as]
    <2>1. i \in 0..(n - 1) /\ i - 1 \in 0..(n - 1) /\ (i - 1) + 1 = i
      BY <1>1
    <2>2. h[i] = g[i + 1] - w /\ h[i - 1] = g[i] - w
      BY <1>8, <2>1
    <2>3. g[i + 1] = g[i] + Width[t[i].field.as] /\ Width[t[i].field.as] \in Nat
      BY <1>5, <1>6
    <2>4. g[(i - 1) + 1] \in Nat
      BY <1>4, <2>1
    <2>5. g[i] \in Nat
      BY <2>1, <2>4
    <2> QED
      BY ONLY <1>1, <2>2, <2>3, <2>5
  <1>10. Run(h, t)
    BY <1>1, <1>7, <1>9 DEF Run
  <1> QED
    BY <1>3, <1>8, <1>10 DEF n, w, t

\* A field that is due fits, and so does what comes after it.
LEMMA WriteFits ==
  ASSUME NEW s \in Seq(Items), s # << >>, NEW n \in Nat, Takes(s, n)
  PROVE  /\ Width[s[1].field.as] <= n /\ Width[s[1].field.as] \in Nat
         /\ Takes(Tail(s), n - Width[s[1].field.as]) /\ Tail(s) \in Seq(Items)
  <1> DEFINE w == Width[s[1].field.as]
  <1>1. PICK g : Run(g, s) /\ g[Len(s)] = n
    BY DEF Takes
  <1>2. PICK h : /\ Run(h, Tail(s)) /\ g[1] = w
                 /\ \A i \in 0..(Len(s) - 1) : h[i] = g[i + 1] - w
    BY <1>1, RunOfTail
  <1>3. /\ Tail(s) \in Seq(Items) /\ Len(s) \in Nat /\ Len(s) >= 1
             /\ Len(Tail(s)) = Len(s) - 1
        /\ w \in Nat
    BY TailOfRow
  <1>4. Len(s) - 1 \in 0..(Len(s) - 1) /\ (Len(s) - 1) + 1 = Len(s)
    BY <1>3
  <1>5. h[Len(Tail(s))] = n - w
    BY <1>1, <1>2, <1>3, <1>4
  <1>6. w <= n
    <2>1. Len(s) \in 0..Len(s) /\ 1 \in 0..Len(s) /\ 1 <= Len(s)
      BY <1>3
    <2>2. g[1] <= g[Len(s)]
      BY <1>1, <2>1, RunGrows
    <2> QED
      BY <1>1, <1>2, <2>2
  <1> QED
    BY <1>2, <1>3, <1>5, <1>6 DEF Takes

\* A field whose test was passed is there, and what comes after it stays within.
LEMMA ReadFits ==
  ASSUME NEW s \in Seq(Items), s # << >>, NEW room \in Int, Within(s, room),
    s[1].need <= room
  PROVE  /\ Width[s[1].field.as] <= room /\ Width[s[1].field.as] \in Nat
         /\ Within(Tail(s), room - Width[s[1].field.as]) /\ Tail(s) \in Seq(Items)
  <1> DEFINE w == Width[s[1].field.as]
             t == Tail(s)
             n == Len(s)
  <1>1. PICK g : /\ Run(g, s)
                 /\ \A i \in 1..n : g[i] <= room
                      \/ \E j \in 1..i : g[i] - g[j - 1] <= s[j].need
    BY DEF Within
  <1>2. PICK h : /\ Run(h, t) /\ g[1] = w
                 /\ \A i \in 0..(n - 1) : h[i] = g[i + 1] - w
    BY <1>1, RunOfTail
  <1>3. /\ t \in Seq(Items) /\ n \in Nat /\ n >= 1 /\ Len(t) = n - 1
        /\ w \in Nat /\ s[1].need \in Nat
        /\ \A i \in 1..(n - 1) : t[i] = s[i + 1]
    BY TailOfRow
  <1>4. g[0] = 0 /\ g \in [0..n -> Nat]
    BY <1>1 DEF Run
  <1> HIDE DEF w, t, n
  \* What the first item makes sure of is there.
  <1>5. ASSUME NEW i \in 1..n
        PROVE  g[i] <= room \/ \E j \in 2..i : g[i] - g[j - 1] <= s[j].need
    <2>1. CASE g[i] <= room
      BY <2>1
    <2>2. CASE \E j \in 1..i : g[i] - g[j - 1] <= s[j].need
      <3>1. PICK j \in 1..i : g[i] - g[j - 1] <= s[j].need
        BY <2>2
      <3>2. CASE j = 1
        <4>1. g[i] \in Nat /\ 1 - 1 = 0
          BY <1>3, <1>4
        <4>2. g[i] - 0 <= s[1].need
          BY <1>4, <3>1, <3>2, <4>1
        <4> QED
          BY <1>3, <4>1, <4>2
      <3>3. CASE j # 1
        <4>1. j \in 2..i
          BY <1>3, <3>3
        <4> QED
          BY <3>1, <4>1
      <3> QED
        BY <3>2, <3>3
    <2> QED
      BY <1>1, <2>1, <2>2
  <1>6. w <= room
    <2>1. 1 \in 1..n /\ 2..1 = {}
      BY <1>3
    <2>2. g[1] <= room
      BY <1>5, <2>1
    <2> QED
      BY <1>2, <2>2
  <1>7. ASSUME NEW i \in 1..(n - 1)
        PROVE  h[i] <= room - w \/ \E j \in 1..i : h[i] - h[j - 1] <= t[j].need
    <2>1. i + 1 \in 1..n /\ i \in 0..(n - 1) /\ i + 1 \in 0..n
      BY <1>3
    <2>2. h[i] = g[i + 1] - w /\ g[i + 1] \in Nat
      BY <1>2, <1>4, <2>1
    <2>3. CASE g[i + 1] <= room
      BY <1>3, <2>2, <2>3
    <2>4. CASE \E j \in 2..(i + 1) : g[i + 1] - g[j - 1] <= s[j].need
      <3>1. PICK j \in 2..(i + 1) : g[i + 1] - g[j - 1] <= s[j].need
        BY <2>4
      <3> DEFINE k == j - 1
      <3>2. k \in 1..i /\ k \in 1..(n - 1) /\ k - 1 \in 0..(n - 1) /\ (k - 1) + 1 = k
              /\ k + 1 = j
            /\ k \in 0..n
        BY <1>3
      <3> HIDE DEF k
      <3>3. t[k] = s[k + 1] /\ h[k - 1] = g[(k - 1) + 1] - w
        BY <1>2, <1>3, <3>2
      <3>4. t[k] = s[j] /\ h[k - 1] = g[k] - w /\ g[k] \in Nat
        BY <1>4, <3>2, <3>3
      <3>5. h[i] - h[k - 1] = g[i + 1] - g[k]
        BY ONLY <1>3, <2>2, <3>4
      <3>6. h[i] - h[k - 1] <= t[k].need
        BY <3>1, <3>4, <3>5 DEF k
      <3> QED
        BY <3>2, <3>6
    <2> QED
      BY <1>5, <2>1, <2>3, <2>4
  <1>8. Within(t, room - w)
    BY <1>2, <1>3, <1>7 DEF Within
  <1> QED
    BY <1>3, <1>6, <1>8 DEF w, t

\* The bytes of a field, and that a row fits in so many.
Bytes(field) == Width[field.as]

\* A field has the bytes of its kind.
LEMMA FieldIs ==
  ASSUME NEW name \in FieldNames, NEW as \in DOMAIN Width
  PROVE  /\ Field(name, as) \in FieldRecords /\ Bytes(Field(name, as)) = Width[as]
         /\ Valid(name, as) \in FieldRecords /\ Bytes(Valid(name, as)) = Width[as]
  BY DEF Field, Valid, FieldRecords, Bytes

\* The bytes of the kinds.
LEMMA Widths ==
  /\ "u8" \in DOMAIN Width /\ Width["u8"] = 1
  /\ "u16" \in DOMAIN Width /\ Width["u16"] = 2
  /\ "i16" \in DOMAIN Width /\ Width["i16"] = 2
  /\ "i32" \in DOMAIN Width /\ Width["i32"] = 4
  /\ "u32" \in DOMAIN Width /\ Width["u32"] = 4
  /\ "f32" \in DOMAIN Width /\ Width["f32"] = 4
  /\ "letters" \in DOMAIN Width /\ Width["letters"] = 2
  /\ "vector" \in DOMAIN Width /\ Width["vector"] = 12
  /\ "smallVector" \in DOMAIN Width /\ Width["smallVector"] = 6
  /\ "callsign" \in DOMAIN Width /\ Width["callsign"] = 32
  /\ "motto" \in DOMAIN Width /\ Width["motto"] = 128
  /\ "token" \in DOMAIN Width /\ Width["token"] = 22
  /\ "version" \in DOMAIN Width /\ Width["version"] = 60
  /\ "text" \in DOMAIN Width /\ Width["text"] = 128
  /\ "sizes" \in DOMAIN Width /\ Width["sizes"] = 24
  BY DEF Width

\* The names of the fields, one by one.
LEMMA Named ==
  /\ "angularAcceleration" \in FieldNames /\ "angularVelocity" \in FieldNames
  /\ "azimuth" \in FieldNames /\ "bytesLeft" \in FieldNames /\ "count" \in FieldNames
  /\ "destination" \in FieldNames /\ "dt" \in FieldNames /\ "endurance" \in FieldNames
  /\ "flag" \in FieldNames /\ "flagIndex" \in FieldNames /\ "flagType" \in FieldNames
  /\ "flightEnd" \in FieldNames /\ "flightTime" \in FieldNames /\ "from" \in FieldNames
  /\ "gameOptions" \in FieldNames /\ "gameType" \in FieldNames
  /\ "initialVelocity" \in FieldNames /\ "jumpJetsScale" \in FieldNames
  /\ "killer" \in FieldNames /\ "landingPosition" \in FieldNames
  /\ "launchPosition" \in FieldNames /\ "lifetime" \in FieldNames
  /\ "linearAcceleration" \in FieldNames /\ "losses" \in FieldNames
  /\ "maxFlags" \in FieldNames /\ "maxPlayerScore" \in FieldNames
  /\ "maxPlayers" \in FieldNames /\ "maxShots" \in FieldNames
  /\ "maxTeamScore" \in FieldNames /\ "maxTime" \in FieldNames /\ "message" \in FieldNames
  /\ "motto" \in FieldNames /\ "nickname" \in FieldNames /\ "offset" \in FieldNames
  /\ "order" \in FieldNames /\ "owner" \in FieldNames /\ "physicsDriver" \in FieldNames
  /\ "playerId" \in FieldNames /\ "playerSlot" \in FieldNames /\ "position" \in FieldNames
  /\ "reason" \in FieldNames /\ "reasonCode" \in FieldNames /\ "shakeTimeout" \in FieldNames
  /\ "shakeWins" \in FieldNames /\ "shotId" \in FieldNames /\ "size" \in FieldNames
  /\ "sounds" \in FieldNames /\ "source" \in FieldNames /\ "state" \in FieldNames
  /\ "status" \in FieldNames /\ "syncTime" \in FieldNames /\ "team" \in FieldNames
  /\ "teams" \in FieldNames /\ "temporary" \in FieldNames /\ "timeElapsed" \in FieldNames
  /\ "timeLeft" \in FieldNames /\ "timeSent" \in FieldNames /\ "timestamp" \in FieldNames
  /\ "tks" \in FieldNames /\ "to" \in FieldNames /\ "token" \in FieldNames
  /\ "type" \in FieldNames /\ "userAngularVelocity" \in FieldNames
  /\ "userSpeed" \in FieldNames /\ "velocity" \in FieldNames /\ "version" \in FieldNames
  /\ "victim" \in FieldNames /\ "wins" \in FieldNames /\ "worldSize" \in FieldNames
  BY DEF FieldNames

\* Short rows of fields.
LEMMA Row1 ==
  ASSUME NEW a \in FieldRecords
  PROVE  <<a>> \in Seq(FieldRecords) /\ SumOf(<<a>>) = Bytes(a) /\ Bytes(a) \in Nat
  <1> DEFINE s == <<a>>
  <1>1. s \in Seq(FieldRecords) /\ Len(s) = 1 /\ s[1] = a
    OBVIOUS
  <1>2. Bytes(a) \in Nat
    BY WidthIs DEF FieldRecords, Bytes
  <1> HIDE DEF s
  <1>3. PICK g \in [0..Len(s) -> Nat] :
           /\ g[0] = 0 /\ SumOf(s) = g[Len(s)]
           /\ \A i \in 1..Len(s) : g[i] = g[i - 1] + Width[s[i].as]
    BY <1>1, SumOfIs
  <1>4. g[1] = g[0] + Bytes(a)
    BY <1>1, <1>3 DEF Bytes
  <1> QED
    BY <1>1, <1>2, <1>3, <1>4 DEF s

\* A row has a number of bytes.
LEMMA SumIsNat ==
  ASSUME NEW s \in Seq(FieldRecords)
  PROVE  SumOf(s) \in Nat
  <1>1. PICK g \in [0..Len(s) -> Nat] : SumOf(s) = g[Len(s)]
    BY SumOfIs
  <1>2. Len(s) \in 0..Len(s)
    OBVIOUS
  <1> QED
    BY <1>1, <1>2

\* One field more.
LEMMA RowMore ==
  ASSUME NEW s \in Seq(FieldRecords), NEW a \in FieldRecords
  PROVE  Append(s, a) \in Seq(FieldRecords) /\ SumOf(Append(s, a)) = SumOf(s) + Bytes(a)
  <1> DEFINE t == <<a>>
  <1>1. Append(s, a) = s \o t /\ Append(s, a) \in Seq(FieldRecords)
    OBVIOUS
  <1>2. t \in Seq(FieldRecords) /\ SumOf(t) = Bytes(a)
    BY Row1
  <1> HIDE DEF t
  <1> QED
    BY <1>1, <1>2, SumOfJoin

LEMMA Row2 ==
  ASSUME NEW a \in FieldRecords, NEW b \in FieldRecords
  PROVE  /\ <<a, b>> \in Seq(FieldRecords)
         /\ SumOf(<<a, b>>) = Bytes(a) + Bytes(b)
  <1> DEFINE s == <<a>>
             t == <<a, b>>
  <1>1. t = Append(s, b)
    OBVIOUS
  <1>2. s \in Seq(FieldRecords) /\ SumOf(s) = Bytes(a)
    BY Row1
  <1> HIDE DEF s, t
  <1>3. SumOf(t) = SumOf(s) + Bytes(b) /\ t \in Seq(FieldRecords)
    BY <1>1, <1>2, RowMore
  <1> QED
    BY <1>2, <1>3 DEF t

LEMMA Row3 ==
  ASSUME NEW a \in FieldRecords, NEW b \in FieldRecords, NEW c \in FieldRecords
  PROVE  /\ <<a, b, c>> \in Seq(FieldRecords)
         /\ SumOf(<<a, b, c>>) = Bytes(a) + Bytes(b) + Bytes(c)
  <1> DEFINE s == <<a, b>>
             t == <<a, b, c>>
  <1>1. t = Append(s, c)
    OBVIOUS
  <1>2. s \in Seq(FieldRecords) /\ SumOf(s) = Bytes(a) + Bytes(b)
    BY Row2
  <1> HIDE DEF s, t
  <1>3. SumOf(t) = SumOf(s) + Bytes(c) /\ t \in Seq(FieldRecords)
    BY <1>1, <1>2, RowMore
  <1> QED
    BY <1>2, <1>3 DEF t

\* Longer rows, added up one field after the other.
LEMMA SumSteps ==
  ASSUME NEW s \in Seq(FieldRecords)
  PROVE  \E g : /\ g[0] = 0 /\ SumOf(s) = g[Len(s)]
                /\ \A i \in 1..Len(s) : g[i] = g[i - 1] + Bytes(s[i]) /\ Bytes(s[i]) \in Nat
  <1>1. PICK g \in [0..Len(s) -> Nat] :
           /\ g[0] = 0 /\ SumOf(s) = g[Len(s)]
           /\ \A i \in 1..Len(s) : g[i] = g[i - 1] + Width[s[i].as]
    BY SumOfIs
  <1>2. \A i \in 1..Len(s) : s[i] \in FieldRecords
    OBVIOUS
  <1>3. \A r \in FieldRecords : Bytes(r) = Width[r.as] /\ Bytes(r) \in Nat
    BY WidthIs DEF FieldRecords, Bytes
  <1> QED
    BY <1>1, <1>2, <1>3

\* The sums of four and more.
LEMMA SumOf4 ==
  ASSUME NEW s \in Seq(FieldRecords), Len(s) = 4
  PROVE  SumOf(s) = Bytes(s[1]) + Bytes(s[2]) + Bytes(s[3]) + Bytes(s[4])
  <1>1. PICK g : /\ g[0] = 0 /\ SumOf(s) = g[4]
                 /\ \A i \in 1..4 : g[i] = g[i - 1] + Bytes(s[i]) /\ Bytes(s[i]) \in Nat
    BY SumSteps
  <1>2. SumOf(s) = g[4] /\ g[0] = 0
    BY <1>1
  <1>3. Bytes(s[1]) \in Nat /\ Bytes(s[2]) \in Nat /\ Bytes(s[3]) \in Nat
          /\ Bytes(s[4]) \in Nat
    BY <1>1
  <1>4. g[1] = g[0] + Bytes(s[1]) /\ g[2] = g[1] + Bytes(s[2]) /\ g[3] = g[2] + Bytes(s[3])
          /\ g[4] = g[3] + Bytes(s[4])
    BY <1>1
  <1> QED
    BY ONLY <1>2, <1>3, <1>4

LEMMA SumOf5 ==
  ASSUME NEW s \in Seq(FieldRecords), Len(s) = 5
  PROVE  SumOf(s) = Bytes(s[1]) + Bytes(s[2]) + Bytes(s[3]) + Bytes(s[4]) + Bytes(s[5])
  <1>1. PICK g : /\ g[0] = 0 /\ SumOf(s) = g[5]
                 /\ \A i \in 1..5 : g[i] = g[i - 1] + Bytes(s[i]) /\ Bytes(s[i]) \in Nat
    BY SumSteps
  <1>2. SumOf(s) = g[5] /\ g[0] = 0
    BY <1>1
  <1>3. Bytes(s[1]) \in Nat /\ Bytes(s[2]) \in Nat /\ Bytes(s[3]) \in Nat
          /\ Bytes(s[4]) \in Nat /\ Bytes(s[5]) \in Nat
    BY <1>1
  <1>4. g[1] = g[0] + Bytes(s[1]) /\ g[2] = g[1] + Bytes(s[2]) /\ g[3] = g[2] + Bytes(s[3])
          /\ g[4] = g[3] + Bytes(s[4]) /\ g[5] = g[4] + Bytes(s[5])
    BY <1>1
  <1> QED
    BY ONLY <1>2, <1>3, <1>4

LEMMA SumOf6 ==
  ASSUME NEW s \in Seq(FieldRecords), Len(s) = 6
  PROVE  SumOf(s) = Bytes(s[1]) + Bytes(s[2]) + Bytes(s[3]) + Bytes(s[4]) + Bytes(s[5])
           + Bytes(s[6])
  <1>1. PICK g : /\ g[0] = 0 /\ SumOf(s) = g[6]
                 /\ \A i \in 1..6 : g[i] = g[i - 1] + Bytes(s[i]) /\ Bytes(s[i]) \in Nat
    BY SumSteps
  <1>2. SumOf(s) = g[6] /\ g[0] = 0
    BY <1>1
  <1>3. Bytes(s[1]) \in Nat /\ Bytes(s[2]) \in Nat /\ Bytes(s[3]) \in Nat
          /\ Bytes(s[4]) \in Nat /\ Bytes(s[5]) \in Nat /\ Bytes(s[6]) \in Nat
    BY <1>1
  <1>4. g[1] = g[0] + Bytes(s[1]) /\ g[2] = g[1] + Bytes(s[2]) /\ g[3] = g[2] + Bytes(s[3])
          /\ g[4] = g[3] + Bytes(s[4]) /\ g[5] = g[4] + Bytes(s[5])
          /\ g[6] = g[5] + Bytes(s[6])
    BY <1>1
  <1> QED
    BY ONLY <1>2, <1>3, <1>4

LEMMA SumOf8 ==
  ASSUME NEW s \in Seq(FieldRecords), Len(s) = 8
  PROVE  SumOf(s) = Bytes(s[1]) + Bytes(s[2]) + Bytes(s[3]) + Bytes(s[4]) + Bytes(s[5])
           + Bytes(s[6]) + Bytes(s[7]) + Bytes(s[8])
  <1>1. PICK g : /\ g[0] = 0 /\ SumOf(s) = g[8]
                 /\ \A i \in 1..8 : g[i] = g[i - 1] + Bytes(s[i]) /\ Bytes(s[i]) \in Nat
    BY SumSteps
  <1>2. SumOf(s) = g[8] /\ g[0] = 0
    BY <1>1
  <1>3. Bytes(s[1]) \in Nat /\ Bytes(s[2]) \in Nat /\ Bytes(s[3]) \in Nat
          /\ Bytes(s[4]) \in Nat /\ Bytes(s[5]) \in Nat /\ Bytes(s[6]) \in Nat
          /\ Bytes(s[7]) \in Nat /\ Bytes(s[8]) \in Nat
    BY <1>1
  <1>4. g[1] = g[0] + Bytes(s[1]) /\ g[2] = g[1] + Bytes(s[2]) /\ g[3] = g[2] + Bytes(s[3])
          /\ g[4] = g[3] + Bytes(s[4]) /\ g[5] = g[4] + Bytes(s[5])
          /\ g[6] = g[5] + Bytes(s[6]) /\ g[7] = g[6] + Bytes(s[7])
          /\ g[8] = g[7] + Bytes(s[8])
    BY <1>1
  <1> QED
    BY ONLY <1>2, <1>3, <1>4

LEMMA SumOf9 ==
  ASSUME NEW s \in Seq(FieldRecords), Len(s) = 9
  PROVE  SumOf(s) = Bytes(s[1]) + Bytes(s[2]) + Bytes(s[3]) + Bytes(s[4]) + Bytes(s[5])
           + Bytes(s[6]) + Bytes(s[7]) + Bytes(s[8]) + Bytes(s[9])
  <1>1. PICK g : /\ g[0] = 0 /\ SumOf(s) = g[9]
                 /\ \A i \in 1..9 : g[i] = g[i - 1] + Bytes(s[i]) /\ Bytes(s[i]) \in Nat
    BY SumSteps
  <1>2. SumOf(s) = g[9] /\ g[0] = 0
    BY <1>1
  <1>3. \A i \in 1..9 : g[i] = g[i - 1] + Bytes(s[i])
    BY ONLY <1>1
  <1>4. Bytes(s[1]) \in Nat /\ Bytes(s[2]) \in Nat /\ Bytes(s[3]) \in Nat
          /\ Bytes(s[4]) \in Nat /\ Bytes(s[5]) \in Nat /\ Bytes(s[6]) \in Nat
          /\ Bytes(s[7]) \in Nat /\ Bytes(s[8]) \in Nat /\ Bytes(s[9]) \in Nat
    BY <1>1
  <1>5. g[1] = g[0] + Bytes(s[1]) /\ g[2] = g[1] + Bytes(s[2]) /\ g[3] = g[2] + Bytes(s[3])
          /\ g[4] = g[3] + Bytes(s[4]) /\ g[5] = g[4] + Bytes(s[5])
    BY ONLY <1>3
  <1>6. g[6] = g[5] + Bytes(s[6]) /\ g[7] = g[6] + Bytes(s[7]) /\ g[8] = g[7] + Bytes(s[8])
          /\ g[9] = g[8] + Bytes(s[9])
    BY ONLY <1>3
  <1> QED
    BY ONLY <1>2, <1>4, <1>5, <1>6

LEMMA SumOf10 ==
  ASSUME NEW s \in Seq(FieldRecords), Len(s) = 10
  PROVE  SumOf(s) = Bytes(s[1]) + Bytes(s[2]) + Bytes(s[3]) + Bytes(s[4]) + Bytes(s[5])
           + Bytes(s[6]) + Bytes(s[7]) + Bytes(s[8]) + Bytes(s[9]) + Bytes(s[10])
  <1>1. PICK g : /\ g[0] = 0 /\ SumOf(s) = g[10]
                 /\ \A i \in 1..10 : g[i] = g[i - 1] + Bytes(s[i]) /\ Bytes(s[i]) \in Nat
    BY SumSteps
  <1>2. SumOf(s) = g[10] /\ g[0] = 0
    BY <1>1
  <1>3. \A i \in 1..10 : g[i] = g[i - 1] + Bytes(s[i])
    BY ONLY <1>1
  <1>4. Bytes(s[1]) \in Nat /\ Bytes(s[2]) \in Nat /\ Bytes(s[3]) \in Nat
          /\ Bytes(s[4]) \in Nat /\ Bytes(s[5]) \in Nat /\ Bytes(s[6]) \in Nat
          /\ Bytes(s[7]) \in Nat /\ Bytes(s[8]) \in Nat /\ Bytes(s[9]) \in Nat
          /\ Bytes(s[10]) \in Nat
    BY <1>1
  <1>5. g[1] = g[0] + Bytes(s[1]) /\ g[2] = g[1] + Bytes(s[2]) /\ g[3] = g[2] + Bytes(s[3])
          /\ g[4] = g[3] + Bytes(s[4]) /\ g[5] = g[4] + Bytes(s[5])
    BY ONLY <1>3
  <1>6. g[6] = g[5] + Bytes(s[6]) /\ g[7] = g[6] + Bytes(s[7]) /\ g[8] = g[7] + Bytes(s[8])
          /\ g[9] = g[8] + Bytes(s[9]) /\ g[10] = g[9] + Bytes(s[10])
    BY ONLY <1>3
  <1> QED
    BY ONLY <1>2, <1>4, <1>5, <1>6

LEMMA SumOf11 ==
  ASSUME NEW s \in Seq(FieldRecords), Len(s) = 11
  PROVE  SumOf(s) = Bytes(s[1]) + Bytes(s[2]) + Bytes(s[3]) + Bytes(s[4]) + Bytes(s[5])
           + Bytes(s[6]) + Bytes(s[7]) + Bytes(s[8]) + Bytes(s[9]) + Bytes(s[10])
           + Bytes(s[11])
  <1>1. PICK g : /\ g[0] = 0 /\ SumOf(s) = g[11]
                 /\ \A i \in 1..11 : g[i] = g[i - 1] + Bytes(s[i]) /\ Bytes(s[i]) \in Nat
    BY SumSteps
  <1>2. SumOf(s) = g[11] /\ g[0] = 0
    BY <1>1
  <1>3. \A i \in 1..11 : g[i] = g[i - 1] + Bytes(s[i])
    BY ONLY <1>1
  <1>4. Bytes(s[1]) \in Nat /\ Bytes(s[2]) \in Nat /\ Bytes(s[3]) \in Nat
          /\ Bytes(s[4]) \in Nat /\ Bytes(s[5]) \in Nat /\ Bytes(s[6]) \in Nat
          /\ Bytes(s[7]) \in Nat /\ Bytes(s[8]) \in Nat /\ Bytes(s[9]) \in Nat
          /\ Bytes(s[10]) \in Nat /\ Bytes(s[11]) \in Nat
    BY <1>1
  <1>5. g[1] = g[0] + Bytes(s[1]) /\ g[2] = g[1] + Bytes(s[2]) /\ g[3] = g[2] + Bytes(s[3])
          /\ g[4] = g[3] + Bytes(s[4]) /\ g[5] = g[4] + Bytes(s[5])
    BY ONLY <1>3
  <1>6. g[6] = g[5] + Bytes(s[6]) /\ g[7] = g[6] + Bytes(s[7]) /\ g[8] = g[7] + Bytes(s[8])
          /\ g[9] = g[8] + Bytes(s[9]) /\ g[10] = g[9] + Bytes(s[10])
          /\ g[11] = g[10] + Bytes(s[11])
    BY ONLY <1>3
  <1> QED
    BY ONLY <1>2, <1>4, <1>5, <1>6

-----------------------------------------------------------------------------
(* The layouts.                                                            *)

Holds(field, bytes) == field \in FieldRecords /\ Bytes(field) = bytes
Fits(s, n) == s \in Seq(FieldRecords) /\ SumOf(s) = n
Spare(s) == s \in Seq(FieldRecords) /\ SumOf(s) <= 4
TailFits(tail) == Len(tail) \in Nat /\ \A i \in 1..Len(tail) : Spare(tail[i].fields)

\* When the fields of a layout fit in its size, so does its plan; without a tail,
LEMMA PlainFine ==
  ASSUME NEW s, NEW n \in Nat, Fits(s, n)
  PROVE  /\ Full(AtLeast(n, s)) /\ Full(Exactly(n, s))
         /\ n <= 247 => Small(AtLeast(n, s))
  BY NothingTakes DEF Fits, Full, Fine, Small, AtLeast, Exactly, Payload, Size

\* with a counted record,
LEMMA CountedFine ==
  ASSUME NEW s, NEW n \in Nat, Fits(s, n), NEW most \in Nat, NEW bytes \in Nat,
         NEW record, Fits(record, bytes)
  PROVE  /\ Full(Counted(n, s, most, bytes, record))
         /\ n + bytes * most <= 247 => Small(Counted(n, s, most, bytes, record))
  BY DEF Fits, Full, Fine, Small, Counted, Size

\* and with optional fields.
LEMMA TailFine ==
  ASSUME NEW s, NEW n \in Nat, Fits(s, n), NEW tail, TailFits(tail), NEW exact
  PROVE  /\ Full(Payload(exact, n, s, tail))
         /\ n + 4 * Len(tail) <= 247 => Small(Payload(exact, n, s, tail))
  BY NothingTakes DEF Fits, Spare, TailFits, Full, Fine, Small, Payload, Size

\* No fields need no bytes.
LEMMA NothingFits == Fits(<< >>, 0)
  BY NothingTakes DEF Fits

\* The optional fields.
LEMMA TailFields ==
  /\ Holds(Field("jumpJetsScale", "i16"), 2) /\ Holds(Field("physicsDriver", "i32"), 4)
  /\ Holds(Field("userSpeed", "i16"), 2) /\ Holds(Field("userAngularVelocity", "i16"), 2)
  /\ Holds(Field("sounds", "u8"), 1)
  BY FieldIs, Widths, Named DEF Holds

\* No optional part has more than four bytes.
LEMMA TailsFit ==
  TailFits(StatusTail) /\ Len(StatusTail) = 4 /\ TailFits(DriverTail) /\ Len(DriverTail) = 1
  <1>1. Spare(StatusTail[1].fields)
    <2>1. Spare(<<Field("jumpJetsScale", "i16")>>)
      BY Row1, TailFields DEF Spare, Holds
    <2>2. StatusTail[1].fields = <<Field("jumpJetsScale", "i16")>>
      BY DEF StatusTail, When
    <2> QED
      BY <2>1, <2>2
  <1>2. Spare(StatusTail[2].fields)
    <2>1. Spare(<<Field("physicsDriver", "i32")>>)
      BY Row1, TailFields DEF Spare, Holds
    <2>2. StatusTail[2].fields = <<Field("physicsDriver", "i32")>>
      BY DEF StatusTail, When
    <2> QED
      BY <2>1, <2>2
  <1>3. Spare(StatusTail[3].fields)
    <2>1. Spare(<<Field("userSpeed", "i16"), Field("userAngularVelocity", "i16")>>)
      BY Row2, TailFields DEF Spare, Holds
    <2>2. StatusTail[3].fields = <<Field("userSpeed", "i16"), Field("userAngularVelocity",
            "i16")>>
      BY DEF StatusTail, When
    <2> QED
      BY <2>1, <2>2
  <1>4. Spare(StatusTail[4].fields)
    <2>1. Spare(<<Field("sounds", "u8")>>)
      BY Row1, TailFields DEF Spare, Holds
    <2>2. StatusTail[4].fields = <<Field("sounds", "u8")>>
      BY DEF StatusTail, When
    <2> QED
      BY <2>1, <2>2
  <1>5. Spare(DriverTail[1].fields)
    <2>1. Spare(<<Field("physicsDriver", "i32")>>)
      BY Row1, TailFields DEF Spare, Holds
    <2>2. DriverTail[1].fields = <<Field("physicsDriver", "i32")>>
      BY DEF DriverTail, When
    <2> QED
      BY <2>1, <2>2
  <1>6. Len(StatusTail) = 4 /\ Len(DriverTail) = 1
    BY DEF StatusTail, DriverTail, When
  <1> QED
    BY <1>1, <1>2, <1>3, <1>4, <1>5, <1>6 DEF TailFits

\* The fields of the rows that several layouts share.
LEMMA RowFields ==
  /\ Holds(Valid("timestamp", "f32"), 4) /\ Holds(Field("playerId", "u8"), 1)
  /\ Holds(Field("order", "i32"), 4) /\ Holds(Field("status", "i16"), 2)
  /\ Holds(Valid("timeSent", "f32"), 4) /\ Holds(Field("shotId", "u16"), 2)
  /\ Holds(Valid("position", "vector"), 12) /\ Holds(Valid("velocity", "vector"), 12)
  /\ Holds(Valid("dt", "f32"), 4) /\ Holds(Field("team", "i16"), 2)
  /\ Holds(Field("flag", "letters"), 2) /\ Holds(Valid("lifetime", "f32"), 4)
  /\ Holds(Valid("azimuth", "f32"), 4) /\ Holds(Valid("angularVelocity", "f32"), 4)
  /\ Holds(Field("position", "smallVector"), 6)
       /\ Holds(Field("velocity", "smallVector"), 6)
  /\ Holds(Field("azimuth", "i16"), 2) /\ Holds(Field("angularVelocity", "i16"), 2)
  /\ Holds(Valid("flagType", "letters"), 2) /\ Holds(Valid("status", "u16"), 2)
  /\ Holds(Valid("endurance", "u16"), 2) /\ Holds(Field("owner", "u8"), 1)
  /\ Holds(Valid("launchPosition", "vector"), 12)
  /\ Holds(Valid("landingPosition", "vector"), 12) /\ Holds(Valid("flightTime", "f32"), 4)
  /\ Holds(Valid("flightEnd", "f32"), 4) /\ Holds(Valid("initialVelocity", "f32"), 4)
  BY FieldIs, Widths, Named DEF Holds

\* Two rows behind each other.
LEMMA FitsJoin ==
  ASSUME NEW s, NEW m \in Nat, Fits(s, m), NEW t, NEW n \in Nat, Fits(t, n)
  PROVE  Fits(s \o t, m + n)
  <1>1. s \in Seq(FieldRecords) /\ t \in Seq(FieldRecords) /\ s \o t \in Seq(FieldRecords)
    BY DEF Fits
  <1>2. SumOf(s) \in Nat
    BY <1>1, SumIsNat
  <1>3. SumOf(t) \in Nat
    BY <1>1, SumIsNat
  <1>4. SumOf(s \o t) = SumOf(s) + SumOf(t)
    BY <1>1, SumOfJoin
  <1> QED
    BY <1>1, <1>2, <1>3, <1>4 DEF Fits

\* The rows that several layouts share are as long as their constants say.
LEMMA RowsFit ==
  /\ Fits(UpdateFields(FullMotion), 43)
       /\ Fits(UpdateFields(<<Field("position", "smallVector"),
                                                       Field("velocity", "smallVector"),
                                                       Field("azimuth", "i16"),
                                                       Field("angularVelocity", "i16")>>),
                                                         27)
  /\ Fits(ShotFields, 43) /\ Fits(FlagRecord, 55)
  <1>1. Fits(<<Float("timestamp"), Field("playerId", "u8"), Field("order", "i32"),
              Field("status", "i16")>>, 11)
    <2> DEFINE s == <<Float("timestamp"), Field("playerId", "u8"), Field("order", "i32"),
                    Field("status", "i16")>>
    <2>1. s \in Seq(FieldRecords) /\ Len(s) = 4
      BY RowFields DEF Holds, Float
    <2>2. /\ Bytes(s[1]) = 4 /\ Bytes(s[2]) = 1 /\ Bytes(s[3]) = 4 /\ Bytes(s[4]) = 2
      BY RowFields DEF Holds, Float
    <2> HIDE DEF s
    <2>3. Fits(s, 11)
      BY <2>1, <2>2, SumOf4 DEF Fits
    <2> QED
      BY <2>3 DEF s
  <1>2. Fits(FullMotion, 32)
    <2>1. Fits(<<Vector("position"), Vector("velocity"), Float("azimuth"),
                Float("angularVelocity")>>, 32)
      <3> DEFINE s == <<Vector("position"), Vector("velocity"), Float("azimuth"),
                      Float("angularVelocity")>>
      <3>1. s \in Seq(FieldRecords) /\ Len(s) = 4
        BY RowFields DEF Holds, Vector, Float
      <3>2. /\ Bytes(s[1]) = 12 /\ Bytes(s[2]) = 12 /\ Bytes(s[3]) = 4 /\ Bytes(s[4]) = 4
        BY RowFields DEF Holds, Vector, Float
      <3> HIDE DEF s
      <3>3. Fits(s, 32)
        BY <3>1, <3>2, SumOf4 DEF Fits
      <3> QED
        BY <3>3 DEF s
    <2> QED
      BY <2>1 DEF FullMotion
  <1>3. Fits(<<Field("position", "smallVector"), Field("velocity", "smallVector"),
              Field("azimuth", "i16"), Field("angularVelocity", "i16")>>, 16)
    <2> DEFINE s == <<Field("position", "smallVector"), Field("velocity", "smallVector"),
                    Field("azimuth", "i16"), Field("angularVelocity", "i16")>>
    <2>1. s \in Seq(FieldRecords) /\ Len(s) = 4
      BY RowFields DEF Holds
    <2>2. /\ Bytes(s[1]) = 6 /\ Bytes(s[2]) = 6 /\ Bytes(s[3]) = 2 /\ Bytes(s[4]) = 2
      BY RowFields DEF Holds
    <2> HIDE DEF s
    <2>3. Fits(s, 16)
      BY <2>1, <2>2, SumOf4 DEF Fits
    <2> QED
      BY <2>3 DEF s
  <1>4. Fits(UpdateFields(FullMotion), 11 + 32)
    BY <1>1, <1>2, FitsJoin DEF UpdateFields
  <1>5. Fits(UpdateFields(<<Field("position", "smallVector"), Field("velocity",
          "smallVector"),
          Field("azimuth", "i16"), Field("angularVelocity", "i16")>>), 11 + 16)
    BY <1>1, <1>3, FitsJoin DEF UpdateFields
  <1>6. Fits(ShotFields, 43)
    <2>1. Fits(<<Float("timeSent"), Field("playerId", "u8"), Field("shotId", "u16"),
                Vector("position"), Vector("velocity"), Float("dt"), Field("team", "i16"),
                Field("flag", "letters"), Float("lifetime")>>, 43)
      <3> DEFINE s == <<Float("timeSent"), Field("playerId", "u8"), Field("shotId", "u16"),
                      Vector("position"), Vector("velocity"), Float("dt"),
                      Field("team", "i16"), Field("flag", "letters"), Float("lifetime")>>
      <3>1. s \in Seq(FieldRecords) /\ Len(s) = 9
        BY RowFields DEF Holds, Vector, Float
      <3>2. /\ Bytes(s[1]) = 4 /\ Bytes(s[2]) = 1 /\ Bytes(s[3]) = 2 /\ Bytes(s[4]) = 12
            /\ Bytes(s[5]) = 12 /\ Bytes(s[6]) = 4 /\ Bytes(s[7]) = 2 /\ Bytes(s[8]) = 2
            /\ Bytes(s[9]) = 4
        BY RowFields DEF Holds, Vector, Float
      <3> HIDE DEF s
      <3>3. Fits(s, 43)
        BY <3>1, <3>2, SumOf9 DEF Fits
      <3> QED
        BY <3>3 DEF s
    <2> QED
      BY <2>1 DEF ShotFields
  <1>7. Fits(FlagRecord, 55)
    <2>1. Fits(<<Valid("flagType", "letters"), Valid("status", "u16"),
                Valid("endurance", "u16"), Field("owner", "u8"), Vector("position"),
                Vector("launchPosition"), Vector("landingPosition"), Float("flightTime"),
                Float("flightEnd"), Float("initialVelocity")>>, 55)
      <3> DEFINE s == <<Valid("flagType", "letters"), Valid("status", "u16"),
                      Valid("endurance", "u16"), Field("owner", "u8"), Vector("position"),
                      Vector("launchPosition"), Vector("landingPosition"),
                      Float("flightTime"), Float("flightEnd"), Float("initialVelocity")>>
      <3>1. s \in Seq(FieldRecords) /\ Len(s) = 10
        BY RowFields DEF Holds, Vector, Float
      <3>2. /\ Bytes(s[1]) = 2 /\ Bytes(s[2]) = 2 /\ Bytes(s[3]) = 2 /\ Bytes(s[4]) = 1
            /\ Bytes(s[5]) = 12 /\ Bytes(s[6]) = 12 /\ Bytes(s[7]) = 12 /\ Bytes(s[8]) = 4
            /\ Bytes(s[9]) = 4 /\ Bytes(s[10]) = 4
        BY RowFields DEF Holds, Vector, Float
      <3> HIDE DEF s
      <3>3. Fits(s, 55)
        BY <3>1, <3>2, SumOf10 DEF Fits
      <3> QED
        BY <3>3 DEF s
    <2> QED
      BY <2>1 DEF FlagRecord
  <1> QED
    BY <1>4, <1>5, <1>6, <1>7

\* The fields of the encoders of the own tank, and that they fit.
LEMMA TankEncodersFields ==
  /\ Holds(Field("type", "u16"), 2) /\ Holds(Field("team", "i16"), 2)
  /\ Holds(Field("nickname", "callsign"), 32) /\ Holds(Field("motto", "motto"), 128)
  /\ Holds(Field("token", "token"), 22) /\ Holds(Field("version", "version"), 60)
  BY FieldIs, Widths, Named DEF Holds

LEMMA TankEncodersFit ==
  \A p \in DOMAIN TankEncoders : Fine(TankEncoders[p]) /\ Small(TankEncoders[p])
  <1>1. Fine(TankEncoders.Enter) /\ Small(TankEncoders.Enter)
    <2> DEFINE s == <<Field("type", "u16"), Field("team", "i16"), Field("nickname",
          "callsign"),
                      Field("motto", "motto"), Field("token", "token"),
                      Field("version", "version")>>
    <2>1. s \in Seq(FieldRecords) /\ Len(s) = 6
      BY TankEncodersFields DEF Holds
    <2>2. /\ Bytes(s[1]) = 2 /\ Bytes(s[2]) = 2 /\ Bytes(s[3]) = 32 /\ Bytes(s[4]) = 128
          /\ Bytes(s[5]) = 22 /\ Bytes(s[6]) = 60
      BY TankEncodersFields DEF Holds
    <2>3. TankEncoders.Enter = AtLeast(247, s)
      BY DEF TankEncoders, Size
    <2> HIDE DEF s
    <2>4. SumOf(s) = 246
      BY <2>1, <2>2, SumOf6
    <2>5. Fine(AtLeast(247, s)) /\ Small(AtLeast(247, s))
      BY <2>1, <2>4, NothingTakes DEF Fine, Small, AtLeast, Payload, Size
    <2> QED
      BY <2>3, <2>5
  <1>2. Full(TankEncoders.PlayerUpdate) /\ Small(TankEncoders.PlayerUpdate)
    <2>1. TankEncoders.PlayerUpdate = Payload(FALSE, 43, UpdateFields(FullMotion),
            StatusTail)
      BY DEF TankEncoders, EncodePlayerUpdate, Size
    <2>2. Fits(UpdateFields(FullMotion), 43) /\ TailFits(StatusTail)
      BY RowsFit, TailsFit
    <2>3. 43 + 4 * Len(StatusTail) <= 247
      BY TailsFit
    <2>4. 43 \in Nat /\ FALSE \in BOOLEAN
      OBVIOUS
    <2>5. /\ Full(Payload(FALSE, 43, UpdateFields(FullMotion), StatusTail))
          /\ Small(Payload(FALSE, 43, UpdateFields(FullMotion), StatusTail))
      BY ONLY <2>2, <2>3, <2>4, TailFine
    <2> QED
      BY <2>1, <2>5
  <1>3. Full(TankEncoders.ShotBegin) /\ Small(TankEncoders.ShotBegin)
    <2>1. TankEncoders.ShotBegin = AtLeast(43, ShotFields)
      BY DEF TankEncoders, Size
    <2> QED
      BY <2>1, RowsFit, PlainFine
  <1>4. DOMAIN TankEncoders = {"Enter", "PlayerUpdate", "ShotBegin"}
    BY DEF TankEncoders
  <1> QED
    BY <1>1, <1>2, <1>3, <1>4 DEF Full

\* The fields of the encoders of commands, and that they fit.
LEMMA CommandEncodersFields ==
  /\ Holds(Valid("position", "vector"), 12) /\ Holds(Valid("flagIndex", "u16"), 2)
  /\ Holds(Valid("destination", "u8"), 1) /\ Holds(Field("message", "text"), 128)
  /\ Holds(Valid("playerId", "u8"), 1) /\ Holds(Valid("shotId", "i16"), 2)
  /\ Holds(Valid("reason", "u16"), 2) /\ Holds(Valid("team", "u16"), 2)
  /\ Holds(Valid("from", "u16"), 2) /\ Holds(Valid("to", "u16"), 2)
  /\ Holds(Valid("from", "u8"), 1) /\ Holds(Valid("to", "u8"), 1)
  /\ Holds(Field("state", "u8"), 1) /\ Holds(Valid("killer", "u8"), 1)
  /\ Holds(Valid("reason", "i16"), 2) /\ Holds(Valid("flagType", "letters"), 2)
  BY FieldIs, Widths, Named DEF Holds

LEMMA CommandEncodersFit ==
  \A p \in DOMAIN CommandEncoders : Full(CommandEncoders[p]) /\ Small(CommandEncoders[p])
  <1>1. Full(CommandEncoders.DropFlag) /\ Small(CommandEncoders.DropFlag)
    <2>1. Fits(<<Vector("position")>>, 12)
      BY Row1, CommandEncodersFields DEF Fits, Holds, Vector
    <2>2. CommandEncoders.DropFlag = AtLeast(12, <<Vector("position")>>)
      BY DEF CommandEncoders
    <2> QED
      BY <2>1, <2>2, PlainFine
  <1>2. Full(CommandEncoders.GrabFlag) /\ Small(CommandEncoders.GrabFlag)
    <2>1. Fits(<<Valid("flagIndex", "u16")>>, 2)
      BY Row1, CommandEncodersFields DEF Fits, Holds
    <2>2. CommandEncoders.GrabFlag = AtLeast(2, <<Valid("flagIndex", "u16")>>)
      BY DEF CommandEncoders
    <2> QED
      BY <2>1, <2>2, PlainFine
  <1>3. Full(CommandEncoders.Message) /\ Small(CommandEncoders.Message)
    <2>1. Fits(<<Valid("destination", "u8"), Field("message", "text")>>, 129)
      BY Row2, CommandEncodersFields DEF Fits, Holds
    <2>2. CommandEncoders.Message = AtLeast(129, <<Valid("destination", "u8"),
            Field("message", "text")>>)
      BY DEF CommandEncoders, Size
    <2> QED
      BY <2>1, <2>2, PlainFine
  <1>4. Full(CommandEncoders.ShotEnd) /\ Small(CommandEncoders.ShotEnd)
    <2>1. Fits(<<Player("playerId"), Valid("shotId", "i16"), Valid("reason", "u16")>>, 5)
      BY Row3, CommandEncodersFields DEF Fits, Holds, Player
    <2>2. CommandEncoders.ShotEnd = AtLeast(5, <<Player("playerId"), Valid("shotId", "i16"),
            Valid("reason", "u16")>>)
      BY DEF CommandEncoders, Size
    <2> QED
      BY <2>1, <2>2, PlainFine
  <1>5. Full(CommandEncoders.CaptureFlag) /\ Small(CommandEncoders.CaptureFlag)
    <2>1. Fits(<<Valid("team", "u16")>>, 2)
      BY Row1, CommandEncodersFields DEF Fits, Holds
    <2>2. CommandEncoders.CaptureFlag = AtLeast(2, <<Valid("team", "u16")>>)
      BY DEF CommandEncoders, Size
    <2> QED
      BY <2>1, <2>2, PlainFine
  <1>6. Full(CommandEncoders.Teleport) /\ Small(CommandEncoders.Teleport)
    <2>1. Fits(<<Valid("from", "u16"), Valid("to", "u16")>>, 4)
      BY Row2, CommandEncodersFields DEF Fits, Holds
    <2>2. CommandEncoders.Teleport = AtLeast(4, <<Valid("from", "u16"), Valid("to",
            "u16")>>)
      BY DEF CommandEncoders, Size
    <2> QED
      BY <2>1, <2>2, PlainFine
  <1>7. Full(CommandEncoders.TransferFlag) /\ Small(CommandEncoders.TransferFlag)
    <2>1. Fits(<<Player("from"), Player("to")>>, 2)
      BY Row2, CommandEncodersFields DEF Fits, Holds, Player
    <2>2. CommandEncoders.TransferFlag = AtLeast(2, <<Player("from"), Player("to")>>)
      BY DEF CommandEncoders, Size
    <2> QED
      BY <2>1, <2>2, PlainFine
  <1>8. Full(CommandEncoders.AutoPilot) /\ Small(CommandEncoders.AutoPilot)
    <2>1. Fits(<<Field("state", "u8")>>, 1)
      BY Row1, CommandEncodersFields DEF Fits, Holds
    <2>2. CommandEncoders.AutoPilot = AtLeast(1, <<Field("state", "u8")>>)
      BY DEF CommandEncoders, Size
    <2> QED
      BY <2>1, <2>2, PlainFine
  <1>9. Full(CommandEncoders.Pause) /\ Small(CommandEncoders.Pause)
    <2>1. Fits(<<Field("state", "u8")>>, 1)
      BY Row1, CommandEncodersFields DEF Fits, Holds
    <2>2. CommandEncoders.Pause = AtLeast(1, <<Field("state", "u8")>>)
      BY DEF CommandEncoders, Size
    <2> QED
      BY <2>1, <2>2, PlainFine
  <1>10. Full(CommandEncoders.Killed) /\ Small(CommandEncoders.Killed)
    <2>1. Fits(<<Valid("killer", "u8"), Valid("reason", "i16"), Valid("shotId", "i16"),
                Valid("flagType", "letters")>>, 7)
      <3> DEFINE s == <<Valid("killer", "u8"), Valid("reason", "i16"),
                      Valid("shotId", "i16"), Valid("flagType", "letters")>>
      <3>1. s \in Seq(FieldRecords) /\ Len(s) = 4
        BY CommandEncodersFields DEF Holds
      <3>2. /\ Bytes(s[1]) = 1 /\ Bytes(s[2]) = 2 /\ Bytes(s[3]) = 2 /\ Bytes(s[4]) = 2
        BY CommandEncodersFields DEF Holds
      <3> HIDE DEF s
      <3>3. Fits(s, 7)
        BY <3>1, <3>2, SumOf4 DEF Fits
      <3> QED
        BY <3>3 DEF s
    <2>2. CommandEncoders.Killed = Payload(FALSE, 7, <<Valid("killer", "u8"),
            Valid("reason", "i16"), Valid("shotId", "i16"),
                Valid("flagType", "letters")>>, DriverTail)
      BY DEF CommandEncoders, Size
    <2> DEFINE s == <<Valid("killer", "u8"), Valid("reason", "i16"), Valid("shotId", "i16"),
                      Valid("flagType", "letters")>>
    <2>3. Fits(s, 7) /\ TailFits(DriverTail)
      BY <2>1, TailsFit
    <2>4. 7 + 4 * Len(DriverTail) <= 247 /\ 7 \in Nat
      BY TailsFit
    <2>5. CommandEncoders.Killed = Payload(FALSE, 7, s, DriverTail)
      BY <2>2
    <2> HIDE DEF s
    <2>6. Full(Payload(FALSE, 7, s, DriverTail)) /\ Small(Payload(FALSE, 7, s, DriverTail))
      BY ONLY <2>3, <2>4, TailFine
    <2> QED
      BY <2>5, <2>6
  <1>11. DOMAIN CommandEncoders = {"DropFlag", "GrabFlag", "Message", "ShotEnd",
           "CaptureFlag",
            "Teleport", "TransferFlag", "AutoPilot", "Pause", "Killed"}
    BY DEF CommandEncoders
  <1> QED
    BY <1>1, <1>2, <1>3, <1>4, <1>5, <1>6, <1>7, <1>8, <1>9, <1>10, <1>11

\* The fields of the encoders of the set-up, and that they fit.
LEMMA SetupEncodersFields ==
  /\ Holds(Field("flag", "letters"), 2) /\ Holds(Field("offset", "u32"), 4)
  /\ Holds(Valid("playerId", "u8"), 1)
  BY FieldIs, Widths, Named DEF Holds

LEMMA SetupEncodersFit ==
  \A p \in DOMAIN SetupEncoders : Full(SetupEncoders[p]) /\ Small(SetupEncoders[p])
  <1>1. Full(SetupEncoders.NoPayload) /\ Small(SetupEncoders.NoPayload)
    <2>1. Fits(<< >>, 0)
      BY NothingFits
    <2>2. SetupEncoders.NoPayload = AtLeast(0, << >>)
      BY DEF SetupEncoders
    <2> QED
      BY <2>1, <2>2, PlainFine
  <1>2. Full(SetupEncoders.NegotiateFlags) /\ Small(SetupEncoders.NegotiateFlags)
    <2>1. Fits(<< >>, 0)
      BY NothingFits
    <2>2. Fits(<<Field("flag", "letters")>>, 2)
      BY Row1, SetupEncodersFields DEF Fits, Holds
    <2>3. SetupEncoders.NegotiateFlags = Counted(0, << >>, 46, 2, <<Field("flag",
            "letters")>>)
      BY DEF SetupEncoders
    <2> QED
      BY <2>1, <2>2, <2>3, CountedFine
  <1>3. Full(SetupEncoders.GetWorld) /\ Small(SetupEncoders.GetWorld)
    <2>1. Fits(<<Field("offset", "u32")>>, 4)
      BY Row1, SetupEncodersFields DEF Fits, Holds
    <2>2. SetupEncoders.GetWorld = AtLeast(4, <<Field("offset", "u32")>>)
      BY DEF SetupEncoders, Size
    <2> QED
      BY <2>1, <2>2, PlainFine
  <1>4. Full(SetupEncoders.UDPLinkRequest) /\ Small(SetupEncoders.UDPLinkRequest)
    <2>1. Fits(<<Player("playerId")>>, 1)
      BY Row1, SetupEncodersFields DEF Fits, Holds, Player
    <2>2. SetupEncoders.UDPLinkRequest = AtLeast(1, <<Player("playerId")>>)
      BY DEF SetupEncoders
    <2> QED
      BY <2>1, <2>2, PlainFine
  <1>5. DOMAIN SetupEncoders = {"NoPayload", "NegotiateFlags", "GetWorld", "UDPLinkRequest"}
    BY DEF SetupEncoders
  <1> QED
    BY <1>1, <1>2, <1>3, <1>4, <1>5

\* The fields of the decoders about players and shots, and that they fit.
LEMMA TankDecodersFields ==
  /\ Holds(Field("playerId", "u8"), 1) /\ Holds(Field("type", "u16"), 2)
  /\ Holds(Field("team", "u16"), 2) /\ Holds(Field("wins", "u16"), 2)
  /\ Holds(Field("losses", "u16"), 2) /\ Holds(Field("tks", "u16"), 2)
  /\ Holds(Field("nickname", "callsign"), 32) /\ Holds(Field("motto", "motto"), 128)
  /\ Holds(Field("shotId", "i16"), 2) /\ Holds(Field("reason", "u16"), 2)
  BY FieldIs, Widths, Named DEF Holds

LEMMA TankDecodersFit ==
  \A p \in DOMAIN TankDecoders : Full(TankDecoders[p])
  <1>1. Full(TankDecoders.AddPlayer)
    <2>1. Fits(<<Field("playerId", "u8"), Field("type", "u16"), Field("team", "u16"),
                Field("wins", "u16"), Field("losses", "u16"), Field("tks", "u16"),
                Field("nickname", "callsign"), Field("motto", "motto")>>, 171)
      <3> DEFINE s == <<Field("playerId", "u8"), Field("type", "u16"), Field("team", "u16"),
                      Field("wins", "u16"), Field("losses", "u16"), Field("tks", "u16"),
                      Field("nickname", "callsign"), Field("motto", "motto")>>
      <3>1. s \in Seq(FieldRecords) /\ Len(s) = 8
        BY TankDecodersFields DEF Holds
      <3>2. /\ Bytes(s[1]) = 1 /\ Bytes(s[2]) = 2 /\ Bytes(s[3]) = 2 /\ Bytes(s[4]) = 2
            /\ Bytes(s[5]) = 2 /\ Bytes(s[6]) = 2 /\ Bytes(s[7]) = 32 /\ Bytes(s[8]) = 128
        BY TankDecodersFields DEF Holds
      <3> HIDE DEF s
      <3>3. Fits(s, 171)
        BY <3>1, <3>2, SumOf8 DEF Fits
      <3> QED
        BY <3>3 DEF s
    <2>2. TankDecoders.AddPlayer = AtLeast(171, <<Field("playerId", "u8"), Field("type",
            "u16"), Field("team", "u16"),
                Field("wins", "u16"), Field("losses", "u16"), Field("tks", "u16"),
                Field("nickname", "callsign"), Field("motto", "motto")>>)
      BY DEF TankDecoders, Size
    <2> QED
      BY <2>1, <2>2, PlainFine
  <1>2. Full(TankDecoders.RemovePlayer)
    <2>1. Fits(<<Field("playerId", "u8")>>, 1)
      BY Row1, TankDecodersFields DEF Fits, Holds
    <2>2. TankDecoders.RemovePlayer = AtLeast(1, <<Field("playerId", "u8")>>)
      BY DEF TankDecoders
    <2> QED
      BY <2>1, <2>2, PlainFine
  <1>3. Full(TankDecoders.PlayerUpdate)
    <2>1. TankDecoders.PlayerUpdate = Payload(FALSE, 43, UpdateFields(FullMotion),
            StatusTail)
      BY DEF TankDecoders, DecodePlayerUpdate, Size, StatusTailRead
    <2> QED
      BY <2>1, RowsFit, TailsFit, TailFine
  <1>4. Full(TankDecoders.PlayerUpdateSmall)
    <2>1. TankDecoders.PlayerUpdateSmall = Payload(FALSE, 27,
            UpdateFields(<<Field("position", "smallVector"), Field("velocity",
            "smallVector"),
              Field("azimuth", "i16"), Field("angularVelocity", "i16")>>), StatusTail)
      BY DEF TankDecoders, DecodePlayerUpdateSmall, Size, StatusTailRead
    <2> QED
      BY <2>1, RowsFit, TailsFit, TailFine
  <1>5. Full(TankDecoders.ShotBegin)
    <2>1. TankDecoders.ShotBegin = AtLeast(43, ShotFields)
      BY DEF TankDecoders, Size
    <2> QED
      BY <2>1, RowsFit, PlainFine
  <1>6. Full(TankDecoders.ShotEnd)
    <2>1. Fits(<<Field("playerId", "u8"), Field("shotId", "i16"), Field("reason", "u16")>>,
            5)
      BY Row3, TankDecodersFields DEF Fits, Holds
    <2>2. TankDecoders.ShotEnd = Exactly(5, <<Field("playerId", "u8"), Field("shotId",
            "i16"), Field("reason", "u16")>>)
      BY DEF TankDecoders, Size
    <2> QED
      BY <2>1, <2>2, PlainFine
  <1>7. DOMAIN TankDecoders = {"AddPlayer", "RemovePlayer", "PlayerUpdate",
          "PlayerUpdateSmall",
            "ShotBegin", "ShotEnd"}
    BY DEF TankDecoders
  <1> QED
    BY <1>1, <1>2, <1>3, <1>4, <1>5, <1>6, <1>7

\* The fields of the decoders about teams, deaths and flags, and that they fit.
LEMMA FlagDecodersFields ==
  /\ Holds(Field("count", "u8"), 1) /\ Holds(Valid("team", "u16"), 2)
  /\ Holds(Field("size", "u16"), 2) /\ Holds(Field("wins", "u16"), 2)
  /\ Holds(Field("losses", "u16"), 2) /\ Holds(Valid("victim", "u8"), 1)
  /\ Holds(Field("killer", "u8"), 1) /\ Holds(Field("reason", "i16"), 2)
  /\ Holds(Field("shotId", "i16"), 2) /\ Holds(Valid("flagType", "letters"), 2)
  /\ Holds(Valid("playerId", "u8"), 1) /\ Holds(Field("flagIndex", "u16"), 2)
  /\ Holds(Field("from", "u16"), 2) /\ Holds(Field("to", "u16"), 2)
  /\ Holds(Valid("from", "u8"), 1) /\ Holds(Valid("to", "u8"), 1)
  BY FieldIs, Widths, Named DEF Holds

LEMMA FlagDecodersFit ==
  \A p \in DOMAIN FlagDecoders : Full(FlagDecoders[p])
  <1>1. Full(FlagDecoders.TeamUpdate)
    <2>1. Fits(<<Field("count", "u8")>>, 1)
      BY Row1, FlagDecodersFields DEF Fits, Holds
    <2>2. Fits(<<Valid("team", "u16"), Field("size", "u16"), Field("wins", "u16"),
                Field("losses", "u16")>>, 8)
      <3> DEFINE s == <<Valid("team", "u16"), Field("size", "u16"), Field("wins", "u16"),
                      Field("losses", "u16")>>
      <3>1. s \in Seq(FieldRecords) /\ Len(s) = 4
        BY FlagDecodersFields DEF Holds
      <3>2. /\ Bytes(s[1]) = 2 /\ Bytes(s[2]) = 2 /\ Bytes(s[3]) = 2 /\ Bytes(s[4]) = 2
        BY FlagDecodersFields DEF Holds
      <3> HIDE DEF s
      <3>3. Fits(s, 8)
        BY <3>1, <3>2, SumOf4 DEF Fits
      <3> QED
        BY <3>3 DEF s
    <2>3. FlagDecoders.TeamUpdate = Counted(1, <<Field("count", "u8")>>, 8, 8,
            <<Valid("team", "u16"), Field("size", "u16"), Field("wins", "u16"),
                Field("losses", "u16")>>)
      BY DEF FlagDecoders, Size
    <2> QED
      BY <2>1, <2>2, <2>3, CountedFine
  <1>2. Full(FlagDecoders.Killed)
    <2>1. Fits(<<Player("victim"), Field("killer", "u8"), Field("reason", "i16"),
                Field("shotId", "i16"), Valid("flagType", "letters")>>, 8)
      <3> DEFINE s == <<Player("victim"), Field("killer", "u8"), Field("reason", "i16"),
                      Field("shotId", "i16"), Valid("flagType", "letters")>>
      <3>1. s \in Seq(FieldRecords) /\ Len(s) = 5
        BY FlagDecodersFields DEF Holds, Player
      <3>2. /\ Bytes(s[1]) = 1 /\ Bytes(s[2]) = 1 /\ Bytes(s[3]) = 2 /\ Bytes(s[4]) = 2
            /\ Bytes(s[5]) = 2
        BY FlagDecodersFields DEF Holds, Player
      <3> HIDE DEF s
      <3>3. Fits(s, 8)
        BY <3>1, <3>2, SumOf5 DEF Fits
      <3> QED
        BY <3>3 DEF s
    <2>2. FlagDecoders.Killed = Payload(TRUE, 8, <<Player("victim"), Field("killer", "u8"),
            Field("reason", "i16"),
                Field("shotId", "i16"), Valid("flagType", "letters")>>, DriverTail)
      BY DEF FlagDecoders, Size
    <2> QED
      BY <2>1, <2>2, TailsFit, TailFine
  <1>3. Full(FlagDecoders.GrabFlag)
    <2>1. Fits(<<Player("playerId"), Field("flagIndex", "u16")>>, 3)
      BY Row2, FlagDecodersFields DEF Fits, Holds, Player
    <2>2. Fits(<<Player("playerId"), Field("flagIndex", "u16")>> \o FlagRecord, 3 + 55)
      BY <2>1, RowsFit, FitsJoin
    <2>3. FlagDecoders.GrabFlag = Exactly(58, <<Player("playerId"), Field("flagIndex",
            "u16")>> \o FlagRecord)
      BY DEF FlagDecoders, Size, FlagBytes
    <2> QED
      BY <2>2, <2>3, PlainFine
  <1>4. Full(FlagDecoders.DropFlag)
    <2>1. Fits(<<Player("playerId"), Field("flagIndex", "u16")>>, 3)
      BY Row2, FlagDecodersFields DEF Fits, Holds, Player
    <2>2. Fits(<<Player("playerId"), Field("flagIndex", "u16")>> \o FlagRecord, 3 + 55)
      BY <2>1, RowsFit, FitsJoin
    <2>3. FlagDecoders.DropFlag = Exactly(58, <<Player("playerId"), Field("flagIndex",
            "u16")>> \o FlagRecord)
      BY DEF FlagDecoders, Size, FlagBytes
    <2> QED
      BY <2>2, <2>3, PlainFine
  <1>5. Full(FlagDecoders.CaptureFlag)
    <2>1. Fits(<<Player("playerId"), Field("flagIndex", "u16"), Valid("team", "u16")>>, 5)
      BY Row3, FlagDecodersFields DEF Fits, Holds, Player
    <2>2. FlagDecoders.CaptureFlag = Exactly(5, <<Player("playerId"), Field("flagIndex",
            "u16"), Valid("team", "u16")>>)
      BY DEF FlagDecoders, Size
    <2> QED
      BY <2>1, <2>2, PlainFine
  <1>6. Full(FlagDecoders.Teleport)
    <2>1. Fits(<<Player("playerId"), Field("from", "u16"), Field("to", "u16")>>, 5)
      BY Row3, FlagDecodersFields DEF Fits, Holds, Player
    <2>2. FlagDecoders.Teleport = Exactly(5, <<Player("playerId"), Field("from", "u16"),
            Field("to", "u16")>>)
      BY DEF FlagDecoders, Size
    <2> QED
      BY <2>1, <2>2, PlainFine
  <1>7. Full(FlagDecoders.TransferFlag)
    <2>1. Fits(<<Player("from"), Player("to")>>, 2)
      BY Row2, FlagDecodersFields DEF Fits, Holds, Player
    <2>2. Fits(<<Player("from"), Player("to")>> \o FlagRecord, 2 + 55)
      BY <2>1, RowsFit, FitsJoin
    <2>3. FlagDecoders.TransferFlag = Exactly(57, <<Player("from"),
            Player("to")>> \o FlagRecord)
      BY DEF FlagDecoders, Size, FlagBytes
    <2> QED
      BY <2>2, <2>3, PlainFine
  <1>8. DOMAIN FlagDecoders = {"TeamUpdate", "Killed", "GrabFlag", "DropFlag",
          "CaptureFlag",
            "Teleport", "TransferFlag"}
    BY DEF FlagDecoders
  <1> QED
    BY <1>1, <1>2, <1>3, <1>4, <1>5, <1>6, <1>7, <1>8

\* The fields of the decoders of the game's state, and that they fit.
LEMMA GameDecodersFields ==
  /\ Holds(Valid("playerId", "u8"), 1) /\ Holds(Valid("state", "u8"), 1)
  /\ Holds(Field("count", "u8"), 1) /\ Holds(Field("wins", "u16"), 2)
  /\ Holds(Field("losses", "u16"), 2) /\ Holds(Field("tks", "u16"), 2)
  /\ Holds(Field("playerId", "u8"), 1) /\ Holds(Valid("team", "u16"), 2)
  /\ Holds(Field("timeLeft", "i32"), 4) /\ Holds(Field("count", "u16"), 2)
  /\ Holds(Field("flagIndex", "u16"), 2) /\ Holds(Field("source", "u8"), 1)
  /\ Holds(Field("destination", "u8"), 1) /\ Holds(Field("type", "u8"), 1)
  /\ Holds(Valid("position", "vector"), 12) /\ Holds(Valid("azimuth", "f32"), 4)
  /\ Holds(Field("reasonCode", "u16"), 2)
  BY FieldIs, Widths, Named DEF Holds

LEMMA GameDecodersFit ==
  \A p \in DOMAIN GameDecoders : Full(GameDecoders[p])
  <1>1. Full(GameDecoders.Pause)
    <2>1. Fits(<<Player("playerId"), Valid("state", "u8")>>, 2)
      BY Row2, GameDecodersFields DEF Fits, Holds, Player
    <2>2. GameDecoders.Pause = Exactly(2, <<Player("playerId"), Valid("state", "u8")>>)
      BY DEF GameDecoders, Size
    <2> QED
      BY <2>1, <2>2, PlainFine
  <1>2. Full(GameDecoders.AutoPilot)
    <2>1. Fits(<<Player("playerId"), Valid("state", "u8")>>, 2)
      BY Row2, GameDecodersFields DEF Fits, Holds, Player
    <2>2. GameDecoders.AutoPilot = Exactly(2, <<Player("playerId"), Valid("state", "u8")>>)
      BY DEF GameDecoders, Size
    <2> QED
      BY <2>1, <2>2, PlainFine
  <1>3. Full(GameDecoders.NewRabbit)
    <2>1. Fits(<<Player("playerId")>>, 1)
      BY Row1, GameDecodersFields DEF Fits, Holds, Player
    <2>2. GameDecoders.NewRabbit = Exactly(1, <<Player("playerId")>>)
      BY DEF GameDecoders, Size
    <2> QED
      BY <2>1, <2>2, PlainFine
  <1>4. Full(GameDecoders.Score)
    <2>1. Fits(<<Field("count", "u8")>>, 1)
      BY Row1, GameDecodersFields DEF Fits, Holds
    <2>2. Fits(<<Player("playerId"), Field("wins", "u16"), Field("losses", "u16"),
                Field("tks", "u16")>>, 7)
      <3> DEFINE s == <<Player("playerId"), Field("wins", "u16"), Field("losses", "u16"),
                      Field("tks", "u16")>>
      <3>1. s \in Seq(FieldRecords) /\ Len(s) = 4
        BY GameDecodersFields DEF Holds, Player
      <3>2. /\ Bytes(s[1]) = 1 /\ Bytes(s[2]) = 2 /\ Bytes(s[3]) = 2 /\ Bytes(s[4]) = 2
        BY GameDecodersFields DEF Holds, Player
      <3> HIDE DEF s
      <3>3. Fits(s, 7)
        BY <3>1, <3>2, SumOf4 DEF Fits
      <3> QED
        BY <3>3 DEF s
    <2>3. GameDecoders.Score = Counted(1, <<Field("count", "u8")>>, 255, 7,
            <<Player("playerId"), Field("wins", "u16"), Field("losses", "u16"),
                Field("tks", "u16")>>)
      BY DEF GameDecoders, Size
    <2> QED
      BY <2>1, <2>2, <2>3, CountedFine
  <1>5. Full(GameDecoders.ScoreOver)
    <2>1. Fits(<<Field("playerId", "u8"), Valid("team", "u16")>>, 3)
      BY Row2, GameDecodersFields DEF Fits, Holds
    <2>2. GameDecoders.ScoreOver = Exactly(3, <<Field("playerId", "u8"), Valid("team",
            "u16")>>)
      BY DEF GameDecoders, Size
    <2> QED
      BY <2>1, <2>2, PlainFine
  <1>6. Full(GameDecoders.TimeUpdate)
    <2>1. Fits(<<Field("timeLeft", "i32")>>, 4)
      BY Row1, GameDecodersFields DEF Fits, Holds
    <2>2. GameDecoders.TimeUpdate = Exactly(4, <<Field("timeLeft", "i32")>>)
      BY DEF GameDecoders, Size
    <2> QED
      BY <2>1, <2>2, PlainFine
  <1>7. Full(GameDecoders.FlagUpdate)
    <2>1. Fits(<<Field("count", "u16")>>, 2)
      BY Row1, GameDecodersFields DEF Fits, Holds
    <2>2. Fits(<<Field("flagIndex", "u16")>>, 2)
      BY Row1, GameDecodersFields DEF Fits, Holds
    <2>3. Fits(<<Field("flagIndex", "u16")>> \o FlagRecord, 2 + 55)
      BY <2>2, RowsFit, FitsJoin
    <2>4. GameDecoders.FlagUpdate = Counted(2, <<Field("count", "u16")>>, 64, 57,
            <<Field("flagIndex", "u16")>> \o FlagRecord)
      BY DEF GameDecoders, FlagBytes
    <2> QED
      BY <2>1, <2>3, <2>4, CountedFine
  <1>8. Full(GameDecoders.Message)
    <2>1. Fits(<<Field("source", "u8"), Field("destination", "u8"), Field("type", "u8")>>,
            3)
      BY Row3, GameDecodersFields DEF Fits, Holds
    <2>2. GameDecoders.Message = AtLeast(3, <<Field("source", "u8"), Field("destination",
            "u8"), Field("type", "u8")>>)
      BY DEF GameDecoders, Size
    <2> QED
      BY <2>1, <2>2, PlainFine
  <1>9. Full(GameDecoders.Alive)
    <2>1. Fits(<<Field("playerId", "u8"), Vector("position"), Float("azimuth")>>, 17)
      BY Row3, GameDecodersFields DEF Fits, Holds, Vector, Float
    <2>2. GameDecoders.Alive = AtLeast(17, <<Field("playerId", "u8"), Vector("position"),
            Float("azimuth")>>)
      BY DEF GameDecoders, AliveBytes
    <2> QED
      BY <2>1, <2>2, PlainFine
  <1>10. Full(GameDecoders.Reject)
    <2>1. Fits(<<Field("reasonCode", "u16")>>, 2)
      BY Row1, GameDecodersFields DEF Fits, Holds
    <2>2. GameDecoders.Reject = AtLeast(2, <<Field("reasonCode", "u16")>>)
      BY DEF GameDecoders
    <2> QED
      BY <2>1, <2>2, PlainFine
  <1>11. DOMAIN GameDecoders = {"Pause", "AutoPilot", "NewRabbit", "Score", "ScoreOver",
           "TimeUpdate",
            "FlagUpdate", "Message", "Alive", "Reject"}
    BY DEF GameDecoders
  <1> QED
    BY <1>1, <1>2, <1>3, <1>4, <1>5, <1>6, <1>7, <1>8, <1>9, <1>10, <1>11

\* The fields of the decoders of the set-up, and that they fit.
LEMMA SetupDecodersFields ==
  /\ Holds(Valid("flag", "letters"), 2) /\ Holds(Valid("bytesLeft", "u32"), 4)
  /\ Holds(Field("worldSize", "f32"), 4) /\ Holds(Field("gameType", "u16"), 2)
  /\ Holds(Field("gameOptions", "u16"), 2) /\ Holds(Field("playerSlot", "u16"), 2)
  /\ Holds(Field("maxShots", "u16"), 2) /\ Holds(Field("maxFlags", "u16"), 2)
  /\ Holds(Field("linearAcceleration", "f32"), 4)
  /\ Holds(Field("angularAcceleration", "f32"), 4) /\ Holds(Field("shakeTimeout", "u16"), 2)
  /\ Holds(Field("shakeWins", "u16"), 2) /\ Holds(Field("syncTime", "u32"), 4)
  /\ Holds(Valid("temporary", "u8"), 1) /\ Holds(Field("maxPlayers", "u16"), 2)
  /\ Holds(Field("teams", "sizes"), 24) /\ Holds(Field("maxPlayerScore", "u16"), 2)
  /\ Holds(Field("maxTeamScore", "u16"), 2) /\ Holds(Field("maxTime", "u16"), 2)
  /\ Holds(Field("timeElapsed", "u16"), 2)
  BY FieldIs, Widths, Named DEF Holds

LEMMA SetupDecodersFit ==
  \A p \in DOMAIN SetupDecoders : Full(SetupDecoders[p])
  <1>1. Full(SetupDecoders.Accept)
    <2>1. Fits(<< >>, 0)
      BY NothingFits
    <2>2. SetupDecoders.Accept = Exactly(0, << >>)
      BY DEF SetupDecoders
    <2> QED
      BY <2>1, <2>2, PlainFine
  <1>2. Full(SetupDecoders.SuperKill)
    <2>1. Fits(<< >>, 0)
      BY NothingFits
    <2>2. SetupDecoders.SuperKill = Exactly(0, << >>)
      BY DEF SetupDecoders
    <2> QED
      BY <2>1, <2>2, PlainFine
  <1>3. Full(SetupDecoders.NegotiateFlags)
    <2>1. Fits(<< >>, 0)
      BY NothingFits
    <2>2. Fits(<<Valid("flag", "letters")>>, 2)
      BY Row1, SetupDecodersFields DEF Fits, Holds
    <2>3. SetupDecoders.NegotiateFlags = Counted(0, << >>, 510, 2, <<Valid("flag",
            "letters")>>)
      BY DEF SetupDecoders
    <2> QED
      BY <2>1, <2>2, <2>3, CountedFine
  <1>4. Full(SetupDecoders.WorldChunk)
    <2>1. Fits(<<Valid("bytesLeft", "u32")>>, 4)
      BY Row1, SetupDecodersFields DEF Fits, Holds
    <2>2. SetupDecoders.WorldChunk = AtLeast(4, <<Valid("bytesLeft", "u32")>>)
      BY DEF SetupDecoders, Size
    <2> QED
      BY <2>1, <2>2, PlainFine
  <1>5. Full(SetupDecoders.GameSettings)
    <2>1. Fits(<<Field("worldSize", "f32"), Field("gameType", "u16"),
                Field("gameOptions", "u16"), Field("playerSlot", "u16"),
                Field("maxShots", "u16"), Field("maxFlags", "u16"),
                Field("linearAcceleration", "f32"), Field("angularAcceleration", "f32"),
                Field("shakeTimeout", "u16"), Field("shakeWins", "u16"),
                Field("syncTime", "u32")>>, 30)
      <3> DEFINE s == <<Field("worldSize", "f32"), Field("gameType", "u16"),
                      Field("gameOptions", "u16"), Field("playerSlot", "u16"),
                      Field("maxShots", "u16"), Field("maxFlags", "u16"),
                      Field("linearAcceleration", "f32"),
                      Field("angularAcceleration", "f32"), Field("shakeTimeout", "u16"),
                      Field("shakeWins", "u16"), Field("syncTime", "u32")>>
      <3>1. s \in Seq(FieldRecords) /\ Len(s) = 11
        BY SetupDecodersFields DEF Holds
      <3>2. /\ Bytes(s[1]) = 4 /\ Bytes(s[2]) = 2 /\ Bytes(s[3]) = 2 /\ Bytes(s[4]) = 2
            /\ Bytes(s[5]) = 2 /\ Bytes(s[6]) = 2 /\ Bytes(s[7]) = 4 /\ Bytes(s[8]) = 4
            /\ Bytes(s[9]) = 2 /\ Bytes(s[10]) = 2 /\ Bytes(s[11]) = 4
        BY SetupDecodersFields DEF Holds
      <3> HIDE DEF s
      <3>3. Fits(s, 30)
        BY <3>1, <3>2, SumOf11 DEF Fits
      <3> QED
        BY <3>3 DEF s
    <2>2. SetupDecoders.GameSettings = AtLeast(30, <<Field("worldSize", "f32"),
            Field("gameType", "u16"),
                Field("gameOptions", "u16"), Field("playerSlot", "u16"),
                Field("maxShots", "u16"), Field("maxFlags", "u16"),
                Field("linearAcceleration", "f32"), Field("angularAcceleration", "f32"),
                Field("shakeTimeout", "u16"), Field("shakeWins", "u16"),
                Field("syncTime", "u32")>>)
      BY DEF SetupDecoders, Size
    <2> QED
      BY <2>1, <2>2, PlainFine
  <1>6. Full(SetupDecoders.WorldHash)
    <2>1. Fits(<<Valid("temporary", "u8")>>, 1)
      BY Row1, SetupDecodersFields DEF Fits, Holds
    <2>2. SetupDecoders.WorldHash = AtLeast(1, <<Valid("temporary", "u8")>>)
      BY DEF SetupDecoders
    <2> QED
      BY <2>1, <2>2, PlainFine
  <1>7. Full(SetupDecoders.QueryGame)
    <2>1. Fits(<<Field("gameType", "u16"), Field("gameOptions", "u16"),
                Field("maxPlayers", "u16"), Field("maxShots", "u16"),
                Field("teams", "sizes"), Field("shakeWins", "u16"),
                Field("shakeTimeout", "u16"), Field("maxPlayerScore", "u16"),
                Field("maxTeamScore", "u16"), Field("maxTime", "u16"),
                Field("timeElapsed", "u16")>>, 44)
      <3> DEFINE s == <<Field("gameType", "u16"), Field("gameOptions", "u16"),
                      Field("maxPlayers", "u16"), Field("maxShots", "u16"),
                      Field("teams", "sizes"), Field("shakeWins", "u16"),
                      Field("shakeTimeout", "u16"), Field("maxPlayerScore", "u16"),
                      Field("maxTeamScore", "u16"), Field("maxTime", "u16"),
                      Field("timeElapsed", "u16")>>
      <3>1. s \in Seq(FieldRecords) /\ Len(s) = 11
        BY SetupDecodersFields DEF Holds
      <3>2. /\ Bytes(s[1]) = 2 /\ Bytes(s[2]) = 2 /\ Bytes(s[3]) = 2 /\ Bytes(s[4]) = 2
            /\ Bytes(s[5]) = 24 /\ Bytes(s[6]) = 2 /\ Bytes(s[7]) = 2 /\ Bytes(s[8]) = 2
            /\ Bytes(s[9]) = 2 /\ Bytes(s[10]) = 2 /\ Bytes(s[11]) = 2
        BY SetupDecodersFields DEF Holds
      <3> HIDE DEF s
      <3>3. Fits(s, 44)
        BY <3>1, <3>2, SumOf11 DEF Fits
      <3> QED
        BY <3>3 DEF s
    <2>2. SetupDecoders.QueryGame = AtLeast(44, <<Field("gameType", "u16"),
            Field("gameOptions", "u16"),
                Field("maxPlayers", "u16"), Field("maxShots", "u16"),
                Field("teams", "sizes"), Field("shakeWins", "u16"),
                Field("shakeTimeout", "u16"), Field("maxPlayerScore", "u16"),
                Field("maxTeamScore", "u16"), Field("maxTime", "u16"),
                Field("timeElapsed", "u16")>>)
      BY DEF SetupDecoders, Size
    <2> QED
      BY <2>1, <2>2, PlainFine
  <1>8. DOMAIN SetupDecoders = {"Accept", "SuperKill", "NegotiateFlags", "WorldChunk",
          "GameSettings",
            "WorldHash", "QueryGame"}
    BY DEF SetupDecoders
  <1> QED
    BY <1>1, <1>2, <1>3, <1>4, <1>5, <1>6, <1>7, <1>8

\* Every encoder allocates enough, and no more than the largest payload.
LEMMA EncodersFit ==
  \A p \in DOMAIN Encoders : Fine(Encoders[p]) /\ Small(Encoders[p])
  <1>1. \A p \in DOMAIN Encoders :
          \/ p \in DOMAIN TankEncoders /\ Encoders[p] = TankEncoders[p]
          \/ p \in DOMAIN CommandEncoders /\ Encoders[p] = CommandEncoders[p]
          \/ p \in DOMAIN SetupEncoders /\ Encoders[p] = SetupEncoders[p]
    BY DEF Encoders, Either
  <1> QED
    BY <1>1, TankEncodersFit, CommandEncodersFit, SetupEncodersFit DEF Full

\* Every decoder asks for the bytes it reads.
LEMMA DecodersFit ==
  \A p \in DOMAIN Decoders : Fine(Decoders[p]) /\ SumOf(Decoders[p].fields) = Decoders[p].n
  <1>1. \A p \in DOMAIN Decoders :
          \/ p \in DOMAIN TankDecoders /\ Decoders[p] = TankDecoders[p]
          \/ p \in DOMAIN FlagDecoders /\ Decoders[p] = FlagDecoders[p]
          \/ p \in DOMAIN GameDecoders /\ Decoders[p] = GameDecoders[p]
          \/ p \in DOMAIN SetupDecoders /\ Decoders[p] = SetupDecoders[p]
    BY DEF Decoders, Either
  <1> QED
    BY <1>1, TankDecodersFit, FlagDecodersFit, GameDecodersFit, SetupDecodersFit DEF Full

\* The counts of a payload are numbers.
LEMMA CountsAre ==
  ASSUME NEW l, Fine(l), NEW count \in CountsOf(l)
  PROVE  count \in Nat
  <1>1. l.most \in Nat
    BY DEF Fine
  <1>2. \A c \in Counts : c \in Nat
    BY CodecAssumption
  <1>3. count = 0 \/ count \in Counts \/ count = l.most + 1
    BY DEF CountsOf
  <1>4. l.most + 1 \in Nat
    BY <1>1
  <1> QED
    BY <1>2, <1>3, <1>4

\* Fewer records take fewer bytes.
LEMMA MostOf ==
  ASSUME NEW b \in Nat, NEW m \in Nat, NEW c \in Nat, c <= m
  PROVE  b * c \in Nat /\ b * c <= b * m
  <1> DEFINE d == m - c
  <1>1. d \in Nat /\ m = c + d
    OBVIOUS
  <1> HIDE DEF d
  <1>2. b * c \in Nat /\ b * d \in Nat /\ b * m = b * c + b * d
    BY <1>1
  <1> QED
    BY <1>2

\* The payload an encoder allocates is no larger than a packet may be.
LEMMA Allocated ==
  ASSUME NEW p \in DOMAIN Encoders, NEW bits, NEW count \in Nat, count <= Encoders[p].most
  PROVE  LET l == Encoders[p]
             n == l.n + l.bytes * count + TailBytes(l, bits)
         IN  n \in Nat /\ n <= MaxPayload
  <1> DEFINE l == Encoders[p]
             more == TailBytes(l, bits)
             tail == 4 * Len(l.tail)
  <1>1. Fine(l) /\ Small(l)
    BY EncodersFit
  <1> HIDE DEF l
  <1>2. more \in Nat /\ more <= tail
    BY <1>1, PlanIs
  <1>3. l.n \in Nat /\ l.bytes \in Nat /\ l.most \in Nat /\ tail \in Nat
    BY <1>1 DEF Fine
  <1>4. count <= l.most
    BY DEF l
  <1>5. l.bytes * count \in Nat /\ l.bytes * count <= l.bytes * l.most
          /\ l.bytes * l.most \in Nat
    BY <1>3, <1>4, MostOf
  <1>6. l.n + l.bytes * l.most + tail <= Size.enter /\ Size.enter <= MaxPayload
          /\ Size.enter \in Nat
        /\ MaxPayload \in Nat
    <2>1. Size.enter = 247
      BY DEF Size
    <2> QED
      BY <1>1, <2>1, CodecAssumption DEF Small
  <1> HIDE DEF more, tail
  <1>7. l.n + l.bytes * count + more \in Nat /\ l.n + l.bytes * count + more <= MaxPayload
    BY ONLY <1>2, <1>3, <1>5, <1>6
  <1> QED
    BY <1>7 DEF l, more

\* A decoder that begins finds all it reads without a further test.
LEMMA BeginReads ==
  ASSUME CodecInv, NEW p \in DOMAIN Decoders, NEW n \in Nat, NEW bits, NEW count \in Nat,
         Begin(p, n, bits, count)
  PROVE  CodecInv'
  <1> DEFINE l == Decoders[p]
  <1>1. Fine(l)
    BY DecodersFit
  <1>2. packet' = p /\ length' = n /\ at' = 0
    BY DEF Begin
  <1>3. CASE AcceptsSize(l, n, count)
    <2>1. codec' = "reading" /\ todo' = Plan(l, bits, count) /\ outcome' = outcome
      BY <1>3 DEF Begin
    <2> HIDE DEF l
    <2> DEFINE least == l.n + l.bytes * count
    <2>2. least \in Nat
      <3>1. l.n \in Nat /\ l.bytes \in Nat /\ count \in Nat
        BY <1>1 DEF Fine
      <3>2. l.bytes * count \in Nat
        BY <3>1, MostOf
      <3> QED
        BY <3>1, <3>2
    <2>3. TailBytes(l, Bits(l)) \in Nat
      BY <1>1, PlanIs
    <2>4. least <= n
      BY <1>3, <2>2, <2>3 DEF AcceptsSize
    <2>5. todo' \in Seq(Items) /\ Within(todo', n)
      BY <1>1, <2>1, <2>4, PlanIs
    <2>6. length' - at' = n /\ at' \in Nat
      BY <1>2
    <2> QED
      BY <1>2, <2>1, <2>5, <2>6 DEF CodecInv
  <1>4. CASE ~AcceptsSize(l, n, count)
    <2>1. codec' = "done" /\ outcome' = "null" /\ todo' = << >>
      BY <1>4 DEF Begin, Done
    <2> QED
      BY <1>2, <2>1 DEF CodecInv
  <1> QED
    BY <1>3, <1>4

\* BZFS passes on packets that have an encoder and a decoder.
LEMMA RelayedKnown ==
  ASSUME NEW p \in Verbatim \cup Prefixed
  PROVE  p \in DOMAIN Encoders /\ p \in DOMAIN Decoders
  <1>1. p \in {"PlayerUpdate", "ShotBegin", "ShotEnd", "Killed", "Pause", "AutoPilot",
          "Teleport"}
    BY CodecAssumption
  <1>2. {"PlayerUpdate", "ShotBegin"} \subseteq DOMAIN TankEncoders
    BY DEF TankEncoders
  <1>3. {"ShotEnd", "Killed", "Pause", "AutoPilot", "Teleport"}
          \subseteq DOMAIN CommandEncoders
    BY DEF CommandEncoders
  <1>4. {"PlayerUpdate", "ShotBegin", "ShotEnd"} \subseteq DOMAIN TankDecoders
    BY DEF TankDecoders
  <1>5. {"Killed", "Teleport"} \subseteq DOMAIN FlagDecoders
    BY DEF FlagDecoders
  <1>6. {"Pause", "AutoPilot"} \subseteq DOMAIN GameDecoders
    BY DEF GameDecoders
  <1>7. DOMAIN TankEncoders \cup DOMAIN CommandEncoders \subseteq DOMAIN Encoders
    BY DEF Encoders, Either
  <1>8. DOMAIN TankDecoders \cup DOMAIN FlagDecoders \cup DOMAIN GameDecoders
          \subseteq DOMAIN Decoders
    BY DEF Decoders, Either
  <1> QED
    BY <1>1, <1>2, <1>3, <1>4, <1>5, <1>6, <1>7, <1>8

\* The invariant of the codec at the beginning,
LEMMA CodecInvInit == CodecInit => CodecInv
  BY DEF CodecInit, CodecInv

\* and over every step.
LEMMA CodecInvStep == CodecInv /\ [CodecNext]_codecVars => CodecInv'
  <1> SUFFICES ASSUME CodecInv, [CodecNext]_codecVars PROVE CodecInv'
    OBVIOUS
  <1>0. /\ outcome # "throws" /\ at \in Nat /\ length \in Nat
        /\ codec = "idle" => at = 0
        /\ codec = "writing" => /\ todo \in Seq(Items) /\ length <= MaxPayload
                                /\ \E n \in Nat : Takes(todo, n) /\ at + n <= length
        /\ codec = "sent" => length <= MaxPayload
        /\ codec = "reading" => todo \in Seq(Items) /\ Within(todo, length - at)
    BY DEF CodecInv
  <1>1. CASE Encode
    <2>0. PICK p \in DOMAIN Encoders :
            \E bits \in SUBSET Bits(Encoders[p]), count \in CountsOf(Encoders[p]) :
              /\ count <= Encoders[p].most
              /\ length' = Encoders[p].n + Encoders[p].bytes * count
                   + TailBytes(Encoders[p], bits)
              /\ todo' = Plan(Encoders[p], bits, count)
      BY <1>1 DEF Encode
    <2>1. PICK bits \in SUBSET Bits(Encoders[p]), count \in CountsOf(Encoders[p]) :
            /\ count <= Encoders[p].most
            /\ length' = Encoders[p].n + Encoders[p].bytes * count
                 + TailBytes(Encoders[p], bits)
            /\ todo' = Plan(Encoders[p], bits, count)
      BY <2>0
    <2>2. codec' = "writing" /\ at' = 0 /\ outcome' = outcome
      BY <1>0, <1>1 DEF Encode
    <2>3. Fine(Encoders[p]) /\ count \in Nat
      BY EncodersFit, CountsAre
    <2>4. length' \in Nat /\ length' <= MaxPayload
      BY <2>1, <2>3, Allocated
    <2>5. todo' \in Seq(Items) /\ \E n \in Nat : Takes(todo', n) /\ n <= length'
      BY <2>1, <2>3, PlanIs
    <2> QED
      BY <1>0, <2>2, <2>4, <2>5 DEF CodecInv
  <1>2. CASE WriteField
    <2>1. /\ codec = "writing" /\ todo # << >> /\ length' = length
          /\ \/ at + Width[todo[1].field.as] <= length /\ Pass
             \/ at + Width[todo[1].field.as] > length /\ Done("throws")
             \/ Done("null") /\ at' = at
      BY <1>2 DEF WriteField, Head1
    <2>2. PICK n \in Nat : Takes(todo, n) /\ at + n <= length
      BY <1>0, <2>1
    <2> DEFINE w == Width[todo[1].field.as]
    <2>3. w <= n /\ w \in Nat /\ Takes(Tail(todo), n - w) /\ Tail(todo) \in Seq(Items)
      BY <1>0, <2>1, <2>2, WriteFits
    <2>4. ~(at + w > length)
      BY <1>0, <2>2, <2>3
    <2>5. CASE Pass
      <3>1. at' = at + w /\ todo' = Tail(todo) /\ codec' = codec /\ outcome' = outcome
        BY <2>5 DEF Pass, Head1
      <3> HIDE DEF w
      <3>2. n - w \in Nat /\ at' + (n - w) <= length /\ at' \in Nat
        BY <1>0, <2>2, <2>3, <3>1
      <3> QED
        BY <1>0, <2>1, <2>3, <3>1, <3>2 DEF CodecInv
    <2>6. CASE Done("null") /\ at' = at
      BY <1>0, <2>1, <2>6 DEF Done, CodecInv
    <2> QED
      BY <2>1, <2>4, <2>5, <2>6
  <1>3. CASE Send
    <2>1. codec = "writing" /\ length <= MaxPayload
      BY <1>0, <1>3 DEF Send
    <2>2. codec' = "sent" /\ outcome' = outcome /\ length' = length /\ at' = at
      BY <1>3, <2>1 DEF Send
    <2> QED
      BY <1>0, <2>1, <2>2 DEF CodecInv
  <1>4. CASE Receive
    <2>0. PICK p \in DOMAIN Decoders :
            \E bits \in SUBSET Bits(Decoders[p]), count \in CountsOf(Decoders[p]) :
              \E n \in 0 .. Decoders[p].n + Decoders[p].bytes * count
                               + TailBytes(Decoders[p], Bits(Decoders[p])) + 1 :
                Begin(p, n, bits, count)
      BY <1>4 DEF Receive
    <2>1. PICK bits \in SUBSET Bits(Decoders[p]), count \in CountsOf(Decoders[p]) :
            \E n \in Nat : Begin(p, n, bits, count)
      BY <2>0
    <2>2. Fine(Decoders[p]) /\ count \in Nat
      BY DecodersFit, CountsAre
    <2> QED
      BY <2>1, <2>2, BeginReads
  <1>5. CASE Relay
    <2>1. PICK front : /\ Len(front) \in Nat
                       /\ Begin(packet, length + Len(front), flagged, 0)
      <3> DEFINE own == Decoders[packet].fields[1]
                 front == IF packet \in Prefixed THEN <<<<own.name, own.as>>>> ELSE << >>
      <3>1. Len(front) \in Nat
        OBVIOUS
      <3>2. Begin(packet, length + Len(front), flagged, 0)
        BY <1>5 DEF Relay
      <3> HIDE DEF front
      <3> QED
        BY <3>1, <3>2
    <2>2. packet \in DOMAIN Decoders
      BY <1>5, RelayedKnown DEF Relay
    <2>3. length + Len(front) \in Nat
      BY <1>0, <2>1
    <2> QED
      BY <2>1, <2>2, <2>3, BeginReads
  <1>6. CASE ReadField
    <2>1. /\ codec = "reading" /\ todo # << >> /\ length' = length
          /\ \/ Done("null") /\ at' = at
             \/ /\ at + todo[1].need <= length
                /\ \/ at + Width[todo[1].field.as] <= length /\ Pass
                   \/ at + Width[todo[1].field.as] > length /\ Done("throws")
      BY <1>6 DEF ReadField, Head1
    <2> DEFINE w == Width[todo[1].field.as]
               room == length - at
    <2>2. CASE Done("null") /\ at' = at
      BY <1>0, <2>1, <2>2 DEF Done, CodecInv
    <2>3. CASE at + todo[1].need <= length
      <3>1. todo[1].need \in Nat /\ room \in Int
        BY <1>0, <2>1, TailOfRow
      <3>2. todo[1].need <= room
        BY <1>0, <2>3, <3>1
      <3>3. w <= room /\ w \in Nat /\ Within(Tail(todo), room - w)
              /\ Tail(todo) \in Seq(Items)
        BY <1>0, <2>1, <3>1, <3>2, ReadFits
      <3>4. ~(at + w > length)
        BY <1>0, <3>3
      <3>5. CASE Pass
        <4>1. at' = at + w /\ todo' = Tail(todo) /\ codec' = codec /\ outcome' = outcome
          BY <3>5 DEF Pass, Head1
        <4> HIDE DEF w
        <4>2. room - w = length' - at' /\ at' \in Nat
          BY <1>0, <2>1, <3>3, <4>1
        <4> HIDE DEF room
        <4> QED
          BY <1>0, <2>1, <3>3, <4>1, <4>2 DEF CodecInv
      <3> QED
        BY <2>1, <2>2, <3>4, <3>5
    <2> QED
      BY <2>1, <2>2, <2>3
  <1>7. CASE EndRead
    <2>1. codec' = "done" /\ outcome' \in {"null", "value"} /\ at' = at /\ length' = length
      BY <1>7 DEF EndRead, Done
    <2> QED
      BY <1>0, <2>1 DEF CodecInv
  <1>8. CASE UNCHANGED codecVars
    <2>1. codec' = codec /\ length' = length /\ at' = at /\ todo' = todo
            /\ outcome' = outcome
      BY <1>8 DEF codecVars
    <2> QED
      BY <1>0, <2>1 DEF CodecInv
  <1> QED
    BY <1>1, <1>2, <1>3, <1>4, <1>5, <1>6, <1>7, <1>8 DEF CodecNext

\* No encoder writes and no decoder reads a byte that is not there, whatever
\* the payload, its flags and its counts.
THEOREM NothingThrows == CodecSpec => []NeverThrows
  <1>1. CodecInv => NeverThrows
    BY DEF CodecInv, NeverThrows
  <1> QED
    BY CodecInvInit, CodecInvStep, <1>1, PTL DEF CodecSpec

-----------------------------------------------------------------------------
(* Payloads that are all there.                                            *)

\* Items of n bytes, none of which asks for more than is left.
Covers(s, n) ==
  \E g : /\ Run(g, s) /\ g[Len(s)] = n
         /\ \A i \in 1..Len(s) : s[i].need <= n - g[i - 1]

\* No items ask for nothing.
LEMMA NothingCovers == Covers(<< >>, 0)
  BY NothingTakes DEF Covers, Takes

\* Such items behind each other.
LEMMA CoversJoin ==
  ASSUME NEW s \in Seq(Items), NEW t \in Seq(Items), NEW m, NEW n, Covers(s, m), Covers(t,
    n)
  PROVE  Covers(s \o t, m + n) /\ m \in Nat /\ n \in Nat
  <1> DEFINE a == Len(s)
             b == Len(t)
             w == s \o t
  <1>1. PICK g : /\ Run(g, s) /\ g[a] = m
                 /\ \A i \in 1..a : s[i].need <= m - g[i - 1]
    BY DEF Covers
  <1>2. PICK h : /\ Run(h, t) /\ h[b] = n
                 /\ \A i \in 1..b : t[i].need <= n - h[i - 1]
    BY DEF Covers
  <1>3. PICK f : /\ Run(f, w)
                 /\ \A i \in 0..a : f[i] = g[i]
                 /\ \A k \in 0..b : f[a + k] = g[a] + h[k]
    BY <1>1, <1>2, RunsJoin
  <1>4. a \in Nat /\ b \in Nat /\ Len(w) = a + b
    OBVIOUS
  <1>5. \A i \in 1..a : w[i] = s[i]
    OBVIOUS
  <1>6. \A k \in 1..b : w[a + k] = t[k]
    OBVIOUS
  <1>7. g \in [0..a -> Nat] /\ h \in [0..b -> Nat]
    BY <1>1, <1>2 DEF Run
  <1>8. \A i \in 1..a : s[i].need \in Nat
    BY ItemWidth
  <1>9. \A i \in 1..b : t[i].need \in Nat
    BY ItemWidth
  <1> HIDE DEF a, b, w
  <1>10. m \in Nat /\ n \in Nat
    BY <1>1, <1>2, <1>4, <1>7
  <1>11. f[a + b] = m + n
    <2>1. b \in 0..b
      BY <1>4
    <2> QED
      BY <1>1, <1>2, <1>3, <2>1
  <1>12. ASSUME NEW i \in 1..(a + b) PROVE w[i].need <= (m + n) - f[i - 1]
    <2>1. CASE i <= a
      <3>1. i \in 1..a /\ i - 1 \in 0..a
        BY <1>4, <2>1
      <3>2. w[i] = s[i] /\ f[i - 1] = g[i - 1] /\ s[i].need <= m - g[i - 1]
        BY <1>1, <1>3, <1>5, <3>1
      <3>3. g[i - 1] \in Nat /\ s[i].need \in Nat
        BY <1>7, <1>8, <3>1
      <3> QED
        BY <1>10, <3>2, <3>3
    <2>2. CASE ~(i <= a)
      <3>1. PICK k \in 1..b : i = a + k
        <4>1. i - a \in 1..b /\ i = a + (i - a)
          BY <1>4, <2>2
        <4> QED
          BY <4>1
      <3>2. k - 1 \in 0..b /\ i - 1 = a + (k - 1)
        BY <1>4, <3>1
      <3>3. w[i] = t[k] /\ f[i - 1] = m + h[k - 1] /\ t[k].need <= n - h[k - 1]
        BY <1>1, <1>2, <1>3, <1>6, <3>1, <3>2
      <3>4. h[k - 1] \in Nat /\ t[k].need \in Nat
        BY <1>7, <1>9, <3>2
      <3> QED
        BY ONLY <1>10, <3>3, <3>4
    <2> QED
      BY <2>1, <2>2
  <1>13. Covers(w, m + n)
    BY <1>3, <1>4, <1>11, <1>12 DEF Covers
  <1> QED
    BY <1>10, <1>13 DEF w

\* The first of them is there, and those behind it ask for no more than is left.
LEMMA CoversTail ==
  ASSUME NEW s \in Seq(Items), s # << >>, NEW n \in Nat, Covers(s, n)
  PROVE  /\ s[1].need <= n /\ s[1].need \in Nat
         /\ Width[s[1].field.as] <= n /\ Width[s[1].field.as] \in Nat
         /\ Covers(Tail(s), n - Width[s[1].field.as])
  <1> DEFINE w == Width[s[1].field.as]
             t == Tail(s)
             z == Len(s)
  <1>1. PICK g : /\ Run(g, s) /\ g[z] = n
                 /\ \A i \in 1..z : s[i].need <= n - g[i - 1]
    BY DEF Covers
  <1>2. PICK h : /\ Run(h, t) /\ g[1] = w
                 /\ \A i \in 0..(z - 1) : h[i] = g[i + 1] - w
    BY <1>1, RunOfTail
  <1>3. /\ t \in Seq(Items) /\ z \in Nat /\ z >= 1 /\ Len(t) = z - 1
        /\ w \in Nat /\ s[1].need \in Nat
        /\ \A i \in 1..(z - 1) : t[i] = s[i + 1]
    BY TailOfRow
  <1>4. g[0] = 0 /\ g \in [0..z -> Nat]
    BY <1>1 DEF Run
  <1>5. w <= n
    BY <1>1, WriteFits DEF Takes
  <1>6. \A i \in 1..z : s[i].need \in Nat
    BY ItemWidth
  <1> HIDE DEF w, t, z
  <1>7. s[1].need <= n
    <2>1. 1 \in 1..z /\ 1 - 1 = 0
      BY <1>3
    <2>2. s[1].need <= n - g[0]
      BY <1>1, <2>1
    <2> QED
      BY <1>4, <2>2
  <1>8. h[z - 1] = n - w
    <2>1. z - 1 \in 0..(z - 1) /\ (z - 1) + 1 = z
      BY <1>3
    <2> QED
      BY <1>1, <1>2, <2>1
  <1>9. ASSUME NEW i \in 1..(z - 1) PROVE t[i].need <= (n - w) - h[i - 1]
    <2>1. i + 1 \in 1..z /\ i - 1 \in 0..(z - 1) /\ (i - 1) + 1 = i /\ (i + 1) - 1 = i
          /\ i \in 0..z
      BY <1>3
    <2>2. t[i] = s[i + 1] /\ h[i - 1] = g[i] - w /\ s[i + 1].need <= n - g[i]
      BY <1>1, <1>2, <1>3, <2>1
    <2>3. g[i] \in Nat /\ s[i + 1].need \in Nat
      BY <1>4, <1>6, <2>1
    <2> QED
      BY ONLY <1>3, <2>2, <2>3
  <1>10. Covers(t, n - w)
    BY <1>2, <1>3, <1>8, <1>9 DEF Covers
  <1> QED
    BY <1>3, <1>5, <1>7, <1>10 DEF w, t

\* Fields without a test ask for nothing,
LEMMA UnaskedCovers ==
  ASSUME NEW s \in Seq(FieldRecords)
  PROVE  Covers(Unasked(s), SumOf(s))
  <1> DEFINE u == Unasked(s)
             n == SumOf(s)
  <1>1. u \in Seq(Items) /\ Len(u) = Len(s) /\ Takes(u, n)
    BY UnaskedIs
  <1>2. \A i \in 1..Len(s) : u[i].need = 0
    BY DEF Unasked, Item
  <1>3. PICK g : Run(g, u) /\ g[Len(u)] = n
    BY <1>1 DEF Takes
  <1>4. ASSUME NEW i \in 1..Len(u) PROVE u[i].need <= n - g[i - 1]
    <2>1. i - 1 \in 0..Len(u) /\ Len(u) \in 0..Len(u) /\ i - 1 <= Len(u) /\ i \in 1..Len(s)
      BY <1>1
    <2> HIDE DEF u, n
    <2>2. g[i - 1] <= g[Len(u)]
      BY <1>1, <1>3, <2>1, RunGrows
    <2>3. g[i - 1] \in Nat /\ g[Len(u)] \in Nat
      BY <1>3, <2>1 DEF Run
    <2>4. u[i].need = 0
      BY <1>2, <2>1
    <2> QED
      BY ONLY <1>3, <2>2, <2>3, <2>4
  <1> HIDE DEF u, n
  <1>5. Covers(u, n)
    BY <1>3, <1>4 DEF Covers
  <1> QED
    BY <1>5 DEF u, n

\* and the first of those with a test for all of them.
LEMMA AskedCovers ==
  ASSUME NEW s \in Seq(FieldRecords)
  PROVE  Covers(Asked(s), SumOf(s))
  <1> DEFINE u == Asked(s)
             n == SumOf(s)
  <1>1. u \in Seq(Items) /\ Takes(u, n)
    BY AskedIs
  <1>2. Len(u) = Len(s) /\ \A i \in 1..Len(s) : u[i].need = IF i = 1 THEN n ELSE 0
    BY DEF Asked, Item
  <1>3. PICK g : Run(g, u) /\ g[Len(u)] = n
    BY <1>1 DEF Takes
  <1> HIDE DEF u, n
  <1>4. ASSUME NEW i \in 1..Len(u) PROVE u[i].need <= n - g[i - 1]
    <2>1. i - 1 \in 0..Len(u) /\ Len(u) \in 0..Len(u) /\ i - 1 <= Len(u) /\ i \in 1..Len(s)
      BY <1>1, <1>2
    <2>2. g[i - 1] <= g[Len(u)]
      BY <1>1, <1>3, <2>1, RunGrows
    <2>3. g[i - 1] \in Nat /\ g[Len(u)] \in Nat
      BY <1>3, <2>1 DEF Run
    <2>4. u[i].need = IF i = 1 THEN n ELSE 0
      BY <1>2, <2>1
    <2>5. g[0] = 0
      BY <1>3 DEF Run
    <2> QED
      BY <1>3, <2>2, <2>3, <2>4, <2>5
  <1>5. Covers(u, n)
    BY <1>3, <1>4 DEF Covers
  <1> QED
    BY <1>5 DEF u, n

\* Optional parts behind each other.
LEMMA JoinedCovers ==
  ASSUME NEW p, NEW q, Len(p) \in Nat, Len(q) = Len(p),
         \A i \in 1..Len(p) : p[i] \in Seq(FieldRecords) /\ q[i] = Asked(p[i])
  PROVE  Covers(Joined(q), SumOf(Joined(p)))
  <1>1. PICK g : /\ g[0] = << >> /\ Joined(p) = g[Len(p)]
                 /\ \A i \in 1..Len(p) : g[i] = g[i - 1] \o p[i]
    BY JoinedIs
  <1>2. PICK h : /\ h[0] = << >> /\ Joined(q) = h[Len(p)]
                 /\ \A i \in 1..Len(p) : h[i] = h[i - 1] \o q[i]
    BY JoinedIs
  <1> DEFINE Good(i) == /\ g[i] \in Seq(FieldRecords) /\ h[i] \in Seq(Items)
                        /\ Covers(h[i], SumOf(g[i]))
             T == {i \in 0..Len(p) : ~Good(i)}
  <1>3. Good(0)
    <2>1. << >> \in Seq(FieldRecords) /\ << >> \in Seq(Items)
      OBVIOUS
    <2> QED
      BY <1>1, <1>2, <2>1, NothingCovers, NothingTakes
  <1>4. T = {}
    <2> SUFFICES ASSUME T # {} PROVE FALSE
      OBVIOUS
    <2>1. PICK i \in T : \A j \in T : i <= j
      <3>1. T \subseteq Nat
        OBVIOUS
      <3> HIDE DEF T
      <3> QED
        BY <3>1, LeastOf
    <2>2. i \in 1..Len(p) /\ i - 1 \in 0..Len(p) /\ ~(i <= i - 1)
      BY <1>3, <2>1
    <2>3. Good(i - 1)
      BY <2>1, <2>2
    <2>4. /\ g[i] = g[i - 1] \o p[i] /\ h[i] = h[i - 1] \o q[i]
          /\ p[i] \in Seq(FieldRecords) /\ q[i] = Asked(p[i])
      BY <1>1, <1>2, <2>2
    <2>5. q[i] \in Seq(Items) /\ Covers(q[i], SumOf(p[i]))
      BY <2>4, AskedIs, AskedCovers
    <2>6. g[i] \in Seq(FieldRecords) /\ h[i] \in Seq(Items)
      BY <2>3, <2>4, <2>5
    <2>7. SumOf(g[i]) = SumOf(g[i - 1]) + SumOf(p[i])
      BY <2>3, <2>4, SumOfJoin
    <2>8. Covers(h[i], SumOf(g[i - 1]) + SumOf(p[i]))
      BY <2>3, <2>4, <2>5, CoversJoin
    <2> QED
      BY <2>1, <2>6, <2>7, <2>8
  <1>5. Len(p) \in 0..Len(p)
    OBVIOUS
  <1> QED
    BY <1>1, <1>2, <1>4, <1>5

-----------------------------------------------------------------------------
(* The names of fields, and decoders that answer encoders.                 *)

\* A field as it is passed, and those of rows of fields and of items.
Name(field) == <<field.name, field.as>>
Pairs == FieldNames \X DOMAIN Width
RowNames(s) == [i \in 1..Len(s) |-> Name(s[i])]
ItemNames(s) == [i \in 1..Len(s) |-> Name(s[i].field)]

\* They are rows of the same length.
LEMMA NamesAre ==
  /\ \A s \in Seq(Items) : ItemNames(s) \in Seq(Pairs) /\ Len(ItemNames(s)) = Len(s)
  /\ \A s \in Seq(FieldRecords) : RowNames(s) \in Seq(Pairs) /\ Len(RowNames(s)) = Len(s)
  <1>1. \A f \in FieldRecords : Name(f) \in Pairs
    BY DEF FieldRecords, Name, Pairs
  <1>2. ASSUME NEW s \in Seq(Items)
        PROVE  ItemNames(s) \in Seq(Pairs) /\ Len(ItemNames(s)) = Len(s)
    <2>1. \A i \in 1..Len(s) : s[i] \in Items
      OBVIOUS
    <2>2. \A i \in 1..Len(s) : Name(s[i].field) \in Pairs
      BY <1>1, <2>1 DEF Items
    <2> QED
      BY <2>2 DEF ItemNames
  <1>3. ASSUME NEW s \in Seq(FieldRecords)
        PROVE  RowNames(s) \in Seq(Pairs) /\ Len(RowNames(s)) = Len(s)
    <2>1. \A i \in 1..Len(s) : s[i] \in FieldRecords
      OBVIOUS
    <2>2. \A i \in 1..Len(s) : Name(s[i]) \in Pairs
      BY <1>1, <2>1
    <2> QED
      BY <2>2 DEF RowNames
  <1> QED
    BY <1>2, <1>3

\* The names of rows behind each other,
LEMMA NamesJoin ==
  ASSUME NEW s \in Seq(Items), NEW t \in Seq(Items)
  PROVE  ItemNames(s \o t) = ItemNames(s) \o ItemNames(t)
  <1> DEFINE w == s \o t
             I(f) == Name(f.field)
  <1>1. [i \in 1..Len(w) |-> I(w[i])]
          = [i \in 1..Len(s) |-> I(s[i])] \o [i \in 1..Len(t) |-> I(t[i])]
    <2> HIDE DEF I
    <2> QED
      OBVIOUS
  <1> QED
    BY <1>1 DEF ItemNames

\* of a row when its first item is passed,
LEMMA NamesTail ==
  ASSUME NEW s \in Seq(Items), s # << >>, NEW p \in Seq(Pairs)
  PROVE  /\ Append(p, Name(s[1].field)) \in Seq(Pairs)
         /\ Append(p, Name(s[1].field)) \o ItemNames(Tail(s)) = p \o ItemNames(s)
  <1> DEFINE t == Tail(s)
             a == Name(s[1].field)
             n == ItemNames(s)
             m == ItemNames(t)
  <1>1. /\ t \in Seq(Items) /\ Len(s) \in Nat /\ Len(s) >= 1 /\ Len(t) = Len(s) - 1
        /\ \A i \in 1..(Len(s) - 1) : t[i] = s[i + 1]
    BY TailOfRow
  <1>2. n \in Seq(Pairs) /\ Len(n) = Len(s) /\ m \in Seq(Pairs) /\ Len(m) = Len(t)
    BY <1>1, NamesAre
  <1>3. n[1] = a
    BY <1>1 DEF ItemNames
  <1>4. \A i \in 1..Len(t) : m[i] = n[i + 1]
    <2> SUFFICES ASSUME NEW i \in 1..Len(t) PROVE m[i] = n[i + 1]
      OBVIOUS
    <2>1. m[i] = Name(t[i].field) /\ i \in 1..(Len(s) - 1) /\ i + 1 \in 1..Len(s)
      BY <1>1 DEF ItemNames
    <2>2. n[i + 1] = Name(s[i + 1].field)
      BY <2>1 DEF ItemNames
    <2> QED
      BY <1>1, <2>1, <2>2
  <1>5. a \in Pairs
    <2>1. 1 \in 1..Len(n)
      BY <1>1, <1>2
    <2> HIDE DEF n
    <2> QED
      BY <1>2, <1>3, <2>1
  <1> HIDE DEF t, a, n, m
  <1>6. n # << >> /\ Len(m) = Len(n) - 1 /\ \A i \in 1..Len(m) : m[i] = n[i + 1]
    BY <1>1, <1>2, <1>4
  <1>7. Tail(n) = m
    BY <1>2, <1>6
  <1>8. Append(p, a) \o Tail(n) = p \o n
    BY <1>2, <1>3, <1>5, <1>6
  <1>9. Append(p, a) \in Seq(Pairs)
    BY ONLY p \in Seq(Pairs), <1>5
  <1>10. Append(p, a) \o m = p \o n
    BY ONLY <1>7, <1>8
  <1> QED
    BY ONLY <1>9, <1>10 DEF t, a, n, m

\* and of fields without a test.
LEMMA NamesUnasked ==
  ASSUME NEW s \in Seq(FieldRecords)
  PROVE  ItemNames(Unasked(s)) = RowNames(s)
  <1>1. Len(Unasked(s)) = Len(s) /\ \A i \in 1..Len(s) : Unasked(s)[i].field = s[i]
    BY UnaskedIs
  <1> QED
    BY <1>1 DEF ItemNames, RowNames

\* The optional part of a plan, and a plan without records.
TailPart(l, bits) == Joined([i \in 1 .. Len(l.tail) |-> Asked(Taken(l, bits)[i])])
LEMMA ShortPlan ==
  ASSUME NEW l, Fine(l), NEW bits
  PROVE  /\ Plan(l, bits, 0) = Unasked(l.fields) \o TailPart(l, bits)
         /\ Unasked(l.fields) \in Seq(Items) /\ TailPart(l, bits) \in Seq(Items)
         /\ Plan(l, bits, 0) \in Seq(Items)
         /\ Covers(TailPart(l, bits), TailBytes(l, bits)) /\ TailBytes(l, bits) \in Nat
  <1> DEFINE front == Unasked(l.fields)
             rows == [i \in 1 .. 0 |-> Unasked(l.record)]
             tail == TailPart(l, bits)
  <1>1. Plan(l, bits, 0) = (front \o Joined(rows)) \o tail
    BY DEF Plan, TailPart
  <1>2. Joined(rows) = << >>
    <2>1. Len(rows) = 0 /\ Len(rows) \in Nat
      OBVIOUS
    <2> HIDE DEF rows
    <2>2. PICK g : g[0] = << >> /\ Joined(rows) = g[Len(rows)]
      BY <2>1, JoinedIs
    <2> QED
      BY <2>1, <2>2
  <1>3. front \in Seq(Items)
    BY UnaskedIs DEF Fine
  <1>4. tail \in Seq(Items) /\ TailBytes(l, bits) \in Nat
    BY TailIs DEF TailPart
  <1>5. Covers(tail, TailBytes(l, bits))
    <2> DEFINE n == Len(l.tail)
               p == Taken(l, bits)
               q == [i \in 1 .. n |-> Asked(p[i])]
    <2>1. n \in Nat /\ \A i \in 1..n : l.tail[i].fields \in Seq(FieldRecords)
      BY DEF Fine
    <2>2. p = [i \in 1..n |-> p[i]] /\ \A i \in 1..n : p[i] \in {l.tail[i].fields, << >>}
      BY DEF Taken
    <2> HIDE DEF n, p
    <2>3. Len(p) = n
      BY <2>1, <2>2
    <2>4. \A i \in 1..n : p[i] \in Seq(FieldRecords)
      <3>1. << >> \in Seq(FieldRecords)
        OBVIOUS
      <3> QED
        BY <2>1, <2>2, <3>1
    <2>5. Len(q) = n /\ \A i \in 1..n : q[i] = Asked(p[i])
      BY <2>1
    <2> HIDE DEF q
    <2>6. \A i \in 1..Len(p) : p[i] \in Seq(FieldRecords) /\ q[i] = Asked(p[i])
      BY <2>3, <2>4, <2>5
    <2>7. Len(p) \in Nat /\ Len(q) = Len(p)
      BY <2>1, <2>3, <2>5
    <2>8. Covers(Joined(q), SumOf(Joined(p)))
      BY ONLY <2>6, <2>7, JoinedCovers
    <2>9. Joined(q) = tail /\ SumOf(Joined(p)) = TailBytes(l, bits)
      BY DEF TailPart, TailBytes, p, q, n
    <2> QED
      BY <2>8, <2>9
  <1> HIDE DEF front, tail, rows
  <1>6. Plan(l, bits, 0) = front \o tail
    BY <1>1, <1>2, <1>3
  <1>7. front \o tail \in Seq(Items)
    BY <1>3, <1>4
  <1>8. /\ Plan(l, bits, 0) = front \o tail /\ front \in Seq(Items) /\ tail \in Seq(Items)
        /\ Plan(l, bits, 0) \in Seq(Items)
        /\ Covers(tail, TailBytes(l, bits)) /\ TailBytes(l, bits) \in Nat
    BY <1>3, <1>4, <1>5, <1>6, <1>7
  <1> QED
    BY ONLY <1>8 DEF front, tail

\* A decoder d answers an encoder e when it reads the same fields behind those
\* that BZFS puts in front, has a size that is their sum, and when it asks for an
\* exact size only one optional part.
Answers(d, e, front) ==
  /\ Fine(d) /\ Fine(e) /\ e.most = 0 /\ e.bytes = 0
  /\ front \in Seq(Pairs) /\ RowNames(d.fields) = front \o RowNames(e.fields)
  /\ d.n = e.n + Len(front) /\ SumOf(d.fields) = d.n
  /\ d.tail = e.tail
  /\ d.exact => d.tail = << >> \/ \E w : d.tail = <<w>>

\* It has the same bits and optional bytes, and its plan is what was written.
LEMMA AnswersPlan ==
  ASSUME NEW d, NEW e, NEW front, Answers(d, e, front), NEW bits
  PROVE  /\ Bits(d) = Bits(e) /\ TailBytes(d, bits) = TailBytes(e, bits)
         /\ ItemNames(Plan(d, bits, 0)) = front \o ItemNames(Plan(e, bits, 0))
         /\ Covers(Plan(d, bits, 0), d.n + TailBytes(d, bits))
  <1>1. Fine(d) /\ Fine(e) /\ d.tail = e.tail
    BY DEF Answers
  <1>2. /\ Bits(d) = Bits(e) /\ TailBytes(d, bits) = TailBytes(e, bits)
        /\ TailPart(d, bits) = TailPart(e, bits)
    BY <1>1 DEF Bits, TailBytes, TailPart, Taken
  <1> DEFINE a == Unasked(d.fields)
             b == Unasked(e.fields)
             t == TailPart(e, bits)
  <1>3. /\ Plan(d, bits, 0) = a \o t /\ Plan(e, bits, 0) = b \o t
        /\ a \in Seq(Items) /\ b \in Seq(Items) /\ t \in Seq(Items)
    BY <1>1, <1>2, ShortPlan
  <1>4. d.fields \in Seq(FieldRecords) /\ e.fields \in Seq(FieldRecords)
    BY <1>1 DEF Fine
  <1>5. ItemNames(a) = front \o ItemNames(b) /\ front \in Seq(Pairs)
    BY <1>4, NamesUnasked DEF Answers
  <1>6. ItemNames(b) \in Seq(Pairs) /\ ItemNames(t) \in Seq(Pairs)
    BY <1>3, NamesAre
  <1>7. Covers(a, d.n)
    BY <1>4, UnaskedCovers DEF Answers
  <1>8. Covers(t, TailBytes(d, bits))
    BY <1>1, <1>2, ShortPlan
  <1> HIDE DEF a, b, t
  <1>9. ItemNames(a \o t) = (front \o ItemNames(b)) \o ItemNames(t)
    BY <1>3, <1>5, NamesJoin
  <1>10. ItemNames(b \o t) = ItemNames(b) \o ItemNames(t)
    BY <1>3, NamesJoin
  <1>11. (front \o ItemNames(b)) \o ItemNames(t) = front \o (ItemNames(b) \o ItemNames(t))
    BY <1>5, <1>6
  <1>12. Covers(a \o t, d.n + TailBytes(d, bits))
    BY <1>3, <1>7, <1>8, CoversJoin
  <1> QED
    BY <1>2, <1>3, <1>9, <1>10, <1>11, <1>12

\* With at most one optional part it is there or it is not.
LEMMA OnePart ==
  ASSUME NEW l, l.tail = << >> \/ \E w : l.tail = <<w>>, NEW bits \in SUBSET Bits(l)
  PROVE  bits = Bits(l) \/ TailBytes(l, bits) = 0
  <1>1. CASE l.tail = << >>
    BY <1>1 DEF Bits
  <1>2. CASE \E w : l.tail = <<w>>
    <2>1. PICK w : l.tail = <<w>>
      BY <1>2
    <2>2. DOMAIN l.tail = {1} /\ Len(l.tail) = 1 /\ l.tail[1] = w
      BY <2>1
    <2>3. Bits(l) = {w.bit}
      BY <2>2 DEF Bits
    <2>4. CASE w.bit \in bits
      BY <2>3, <2>4
    <2>5. CASE w.bit \notin bits
      <3> DEFINE p == Taken(l, bits)
      <3>1. p = [i \in 1..1 |-> << >>]
        BY <2>2, <2>5 DEF Taken
      <3>2. Len(p) = 1 /\ p[1] = << >>
        BY <3>1
      <3> HIDE DEF p
      <3>3. Len(p) \in Nat
        BY <3>2
      <3>4. PICK g : /\ g[0] = << >> /\ Joined(p) = g[Len(p)]
                     /\ \A i \in 1..Len(p) : g[i] = g[i - 1] \o p[i]
        BY <3>3, JoinedIs
      <3>5. 1 \in 1..Len(p) /\ 1 - 1 = 0
        BY <3>2
      <3>6. g[1] = g[1 - 1] \o p[1]
        BY <3>4, <3>5
      <3>7. Joined(p) = << >>
        BY <3>2, <3>4, <3>5, <3>6
      <3> QED
        BY <3>7, NothingTakes DEF TailBytes, p
    <2> QED
      BY <2>4, <2>5
  <1> QED
    BY <1>1, <1>2

\* Fields with one in front of them, or the same ones.
LEMMA FrontNames ==
  ASSUME NEW s \in Seq(FieldRecords), NEW t \in Seq(FieldRecords), Len(s) = Len(t) + 1,
         \A i \in 1..Len(t) : Name(s[i + 1]) = Name(t[i])
  PROVE  <<Name(s[1])>> \in Seq(Pairs) /\ RowNames(s) = <<Name(s[1])>> \o RowNames(t)
  <1> DEFINE a == Name(s[1])
             m == RowNames(s)
             n == RowNames(t)
  <1>1. m \in Seq(Pairs) /\ Len(m) = Len(s) /\ n \in Seq(Pairs) /\ Len(n) = Len(t)
    BY NamesAre
  <1>2. Len(t) \in Nat /\ 1 \in 1..Len(m)
    BY <1>1
  <1>3. m[1] = a
    BY <1>1, <1>2 DEF RowNames
  <1>4. \A i \in 1..Len(n) : m[i + 1] = n[i]
    <2> SUFFICES ASSUME NEW i \in 1..Len(n) PROVE m[i + 1] = n[i]
      OBVIOUS
    <2>1. i \in 1..Len(t) /\ i + 1 \in 1..Len(s)
      BY <1>1, <1>2
    <2>2. m[i + 1] = Name(s[i + 1]) /\ n[i] = Name(t[i])
      BY <2>1 DEF RowNames
    <2> QED
      BY <2>1, <2>2
  <1> HIDE DEF a, m, n
  <1>5. a \in Pairs
    BY <1>1, <1>2, <1>3
  <1> DEFINE f == <<a>>
  <1>6. f \in Seq(Pairs) /\ Len(f) = 1 /\ f[1] = a
    BY <1>5
  <1> HIDE DEF f
  <1> DEFINE w == f \o n
  <1>7. w \in Seq(Pairs) /\ Len(w) = Len(m) /\ w[1] = a
          /\ \A i \in 1..Len(n) : w[i + 1] = n[i]
    <2>1. f \in Seq(Pairs) /\ n \in Seq(Pairs)
      BY <1>1, <1>6
    <2>2. w \in Seq(Pairs) /\ Len(w) = Len(f) + Len(n)
      BY ONLY <2>1
    <2>3. \A k \in 1..Len(f) : w[k] = f[k]
      BY ONLY <2>1
    <2>4. \A k \in 1..Len(n) : w[Len(f) + k] = n[k]
      BY ONLY <2>1
    <2>5. w[1] = a
      <3>1. 1 \in 1..Len(f)
        BY <1>6
      <3> QED
        BY <1>6, <2>3, <3>1
    <2>6. Len(w) = Len(m)
      BY <1>1, <1>2, <1>6, <2>2
    <2>7. ASSUME NEW i \in 1..Len(n) PROVE w[i + 1] = n[i]
      <3>1. Len(f) + i = i + 1
        BY <1>6
      <3>2. w[Len(f) + i] = n[i]
        BY <2>4
      <3> QED
        BY <3>1, <3>2
    <2> QED
      BY <2>2, <2>5, <2>6, <2>7
  <1> HIDE DEF w
  <1>8. ASSUME NEW i \in 1..Len(m) PROVE m[i] = w[i]
    <2>1. CASE i = 1
      BY <1>3, <1>7, <2>1
    <2>2. CASE i # 1
      <3>1. i - 1 \in 1..Len(n) /\ (i - 1) + 1 = i
        BY <1>1, <1>2, <2>2
      <3>2. m[(i - 1) + 1] = n[i - 1] /\ w[(i - 1) + 1] = n[i - 1]
        BY <1>4, <1>7, <3>1
      <3> QED
        BY <3>1, <3>2
    <2> QED
      BY <2>1, <2>2
  <1>9. m = w
    BY ONLY <1>1, <1>7, <1>8
  <1> QED
    BY <1>6, <1>9 DEF w, f, m, n, a

LEMMA SameNames ==
  ASSUME NEW s \in Seq(FieldRecords), NEW t \in Seq(FieldRecords), Len(s) = Len(t),
         \A i \in 1..Len(t) : Name(s[i]) = Name(t[i])
  PROVE  << >> \in Seq(Pairs) /\ RowNames(s) = << >> \o RowNames(t)
  <1>1. RowNames(s) = RowNames(t) /\ RowNames(t) \in Seq(Pairs)
    BY NamesAre DEF RowNames
  <1>2. << >> \o RowNames(t) = RowNames(t) /\ << >> \in Seq(Pairs)
    BY ONLY <1>1
  <1> QED
    BY <1>1, <1>2

\* What BZFS puts in front of a packet.
Front(p) == IF p \in Prefixed THEN <<Name(Decoders[p].fields[1])>> ELSE << >>

\* The encoders and decoders of the packets that BZFS passes on as they are.
LEMMA VerbatimLayouts ==
  /\ Encoders["PlayerUpdate"] = Payload(FALSE, Size.update, UpdateFields(FullMotion),
       StatusTail)
  /\ Decoders["PlayerUpdate"] = Payload(FALSE, Size.update, UpdateFields(FullMotion),
       StatusTail)
  /\ Encoders["ShotBegin"] = AtLeast(Size.fire, ShotFields)
  /\ Decoders["ShotBegin"] = AtLeast(Size.fire, ShotFields)
  /\ Encoders["ShotEnd"] = AtLeast(Size.shotEnd, <<Player("playerId"), Valid("shotId",
       "i16"),
                                               Valid("reason", "u16")>>)
  /\ Decoders["ShotEnd"] = Exactly(Size.shotEnd, <<Field("playerId", "u8"), Field("shotId",
       "i16"),
                                               Field("reason", "u16")>>)
  <1>1. /\ Encoders["PlayerUpdate"] = TankEncoders["PlayerUpdate"]
        /\ Encoders["ShotBegin"] = TankEncoders["ShotBegin"]
        /\ Encoders["ShotEnd"] = CommandEncoders["ShotEnd"]
    <2>1. {"PlayerUpdate", "ShotBegin"} \subseteq DOMAIN TankEncoders
          /\ "ShotEnd" \notin DOMAIN TankEncoders
      BY DEF TankEncoders
    <2>2. "ShotEnd" \in DOMAIN CommandEncoders
      BY DEF CommandEncoders
    <2> QED
      BY <2>1, <2>2 DEF Encoders, Either
  <1>2. /\ Decoders["PlayerUpdate"] = TankDecoders["PlayerUpdate"]
        /\ Decoders["ShotBegin"] = TankDecoders["ShotBegin"]
        /\ Decoders["ShotEnd"] = TankDecoders["ShotEnd"]
    <2>1. {"PlayerUpdate", "ShotBegin", "ShotEnd"} \subseteq DOMAIN TankDecoders
      BY DEF TankDecoders
    <2> QED
      BY <2>1 DEF Decoders, Either
  <1>3. TankEncoders["PlayerUpdate"] = Payload(FALSE, Size.update, UpdateFields(FullMotion),
          StatusTail)
    BY DEF TankEncoders, EncodePlayerUpdate
  <1>4. TankDecoders["PlayerUpdate"] = Payload(FALSE, Size.update, UpdateFields(FullMotion),
          StatusTail)
    BY DEF TankDecoders, DecodePlayerUpdate, StatusTailRead
  <1>5. TankEncoders["ShotBegin"] = AtLeast(Size.fire, ShotFields)
    BY DEF TankEncoders
  <1>6. TankDecoders["ShotBegin"] = AtLeast(Size.fire, ShotFields)
    BY DEF TankDecoders
  <1>7. CommandEncoders["ShotEnd"] = AtLeast(Size.shotEnd, <<Player("playerId"),
          Valid("shotId", "i16"),
                                               Valid("reason", "u16")>>)
    BY DEF CommandEncoders
  <1>8. TankDecoders["ShotEnd"] = Exactly(Size.shotEnd, <<Field("playerId", "u8"),
          Field("shotId", "i16"),
                                               Field("reason", "u16")>>)
    BY DEF TankDecoders
  <1> QED
    BY <1>1, <1>2, <1>3, <1>4, <1>5, <1>6, <1>7, <1>8

\* Those of the packets it puts the id of their sender in front of.
LEMMA PrefixedLayouts ==
  /\ Encoders["Killed"] = Payload(FALSE, Size.killedOut, <<Valid("killer", "u8"),
       Valid("reason", "i16"),
                             Valid("shotId", "i16"), Valid("flagType", "letters")>>,
                               DriverTail)
  /\ Decoders["Killed"] = Payload(TRUE, Size.killed, <<Player("victim"), Field("killer",
       "u8"),
                             Field("reason", "i16"), Field("shotId", "i16"),
                             Valid("flagType", "letters")>>, DriverTail)
  /\ Encoders["Pause"] = AtLeast(Size.toggleOut, <<Field("state", "u8")>>)
  /\ Decoders["Pause"] = Exactly(Size.toggle, <<Player("playerId"), Valid("state", "u8")>>)
  /\ Encoders["AutoPilot"] = AtLeast(Size.toggleOut, <<Field("state", "u8")>>)
  /\ Decoders["AutoPilot"] = Exactly(Size.toggle, <<Player("playerId"), Valid("state",
       "u8")>>)
  /\ Encoders["Teleport"] = AtLeast(Size.teleportOut, <<Valid("from", "u16"), Valid("to",
       "u16")>>)
  /\ Decoders["Teleport"] = Exactly(Size.teleport, <<Player("playerId"), Field("from",
       "u16"),
                               Field("to", "u16")>>)
  <1>1. /\ Encoders["Killed"] = CommandEncoders["Killed"]
        /\ Encoders["Pause"] = CommandEncoders["Pause"]
        /\ Encoders["AutoPilot"] = CommandEncoders["AutoPilot"]
        /\ Encoders["Teleport"] = CommandEncoders["Teleport"]
    <2>1. {"Killed", "Pause", "AutoPilot", "Teleport"} \cap DOMAIN TankEncoders = {}
      BY DEF TankEncoders
    <2>2. {"Killed", "Pause", "AutoPilot", "Teleport"} \subseteq DOMAIN CommandEncoders
      BY DEF CommandEncoders
    <2> QED
      BY <2>1, <2>2 DEF Encoders, Either
  <1>2. /\ Decoders["Killed"] = FlagDecoders["Killed"]
        /\ Decoders["Pause"] = GameDecoders["Pause"]
        /\ Decoders["AutoPilot"] = GameDecoders["AutoPilot"]
        /\ Decoders["Teleport"] = FlagDecoders["Teleport"]
    <2>1. {"Killed", "Pause", "AutoPilot", "Teleport"} \cap DOMAIN TankDecoders = {}
      BY DEF TankDecoders
    <2>2. {"Pause", "AutoPilot"} \cap DOMAIN FlagDecoders = {}
          /\ {"Killed", "Teleport"} \subseteq DOMAIN FlagDecoders
      BY DEF FlagDecoders
    <2>3. {"Pause", "AutoPilot"} \subseteq DOMAIN GameDecoders
      BY DEF GameDecoders
    <2> QED
      BY <2>1, <2>2, <2>3 DEF Decoders, Either
  <1>3. CommandEncoders["Killed"] = Payload(FALSE, Size.killedOut, <<Valid("killer", "u8"),
          Valid("reason", "i16"),
                             Valid("shotId", "i16"), Valid("flagType", "letters")>>,
                               DriverTail)
    BY DEF CommandEncoders
  <1>4. FlagDecoders["Killed"] = Payload(TRUE, Size.killed, <<Player("victim"),
          Field("killer", "u8"),
                             Field("reason", "i16"), Field("shotId", "i16"),
                             Valid("flagType", "letters")>>, DriverTail)
    BY DEF FlagDecoders
  <1>5. /\ CommandEncoders["Pause"] = AtLeast(Size.toggleOut, <<Field("state", "u8")>>)
        /\ CommandEncoders["AutoPilot"] = AtLeast(Size.toggleOut, <<Field("state", "u8")>>)
        /\ CommandEncoders["Teleport"] = AtLeast(Size.teleportOut, <<Valid("from", "u16"),
             Valid("to", "u16")>>)
    BY DEF CommandEncoders
  <1>6. FlagDecoders["Teleport"] = Exactly(Size.teleport, <<Player("playerId"),
          Field("from", "u16"),
                               Field("to", "u16")>>)
    BY DEF FlagDecoders
  <1>7. /\ GameDecoders["Pause"] = Exactly(Size.toggle, <<Player("playerId"), Valid("state",
             "u8")>>)
        /\ GameDecoders["AutoPilot"] = Exactly(Size.toggle, <<Player("playerId"),
             Valid("state", "u8")>>)
    BY DEF GameDecoders
  <1> QED
    BY <1>1, <1>2, <1>3, <1>4, <1>5, <1>6, <1>7

\* Each of the packets that BZFS passes on has a decoder that answers its encoder.
LEMMA RelayAnswers ==
  ASSUME NEW p \in Verbatim \cup Prefixed
  PROVE  Answers(Decoders[p], Encoders[p], Front(p))
  <1> DEFINE d == Decoders[p]
             e == Encoders[p]
  <1>1. /\ Fine(d) /\ SumOf(d.fields) = d.n /\ Fine(e)
        /\ d.fields \in Seq(FieldRecords) /\ e.fields \in Seq(FieldRecords)
    BY RelayedKnown, DecodersFit, EncodersFit DEF Fine
  <1>2. \/ p \in {"PlayerUpdate", "ShotBegin", "ShotEnd"} /\ p \in Verbatim
        \/ p \in {"Killed", "Pause", "AutoPilot", "Teleport"} /\ p \in Prefixed
    BY CodecAssumption
  <1>3. CASE p \in {"PlayerUpdate", "ShotBegin"}
    <2>1. Front(p) = << >>
      BY <1>3, CodecAssumption DEF Front
    <2>2. d = e
      BY <1>3, VerbatimLayouts
    <2>3. e.most = 0 /\ e.bytes = 0 /\ d.exact = FALSE
      BY <1>3, VerbatimLayouts DEF Payload, AtLeast
    <2>4. e.n \in Nat
      BY <1>1 DEF Fine
    <2> HIDE DEF d, e
    <2>5. << >> \in Seq(Pairs) /\ RowNames(d.fields) = << >> \o RowNames(e.fields)
      BY <1>1, <2>2, SameNames
    <2>6. Answers(d, e, << >>)
      BY <1>1, <2>2, <2>3, <2>4, <2>5 DEF Answers
    <2> QED
      BY <2>1, <2>6 DEF d, e
  <1>4. CASE p = "ShotEnd"
    <2>1. Front(p) = << >>
      BY <1>4, CodecAssumption DEF Front
    <2>2. /\ d.exact = TRUE /\ d.n = 5 /\ d.tail = << >>
          /\ d.fields = <<Field("playerId", "u8"), Field("shotId", "i16"), Field("reason",
               "u16")>>
          /\ e.n = 5 /\ e.tail = << >> /\ e.most = 0 /\ e.bytes = 0
          /\ e.fields = <<Player("playerId"), Valid("shotId", "i16"), Valid("reason",
               "u16")>>
      BY <1>4, VerbatimLayouts DEF Payload, AtLeast, Exactly, Size
    <2>3. Len(d.fields) = 3 /\ Len(e.fields) = 3
      BY <2>2
    <2>4. /\ Name(d.fields[1]) = Name(e.fields[1]) /\ Name(d.fields[2]) = Name(e.fields[2])
          /\ Name(d.fields[3]) = Name(e.fields[3])
      BY <2>2 DEF Name, Field, Player, Valid
    <2> HIDE DEF d, e
    <2>5. << >> \in Seq(Pairs) /\ RowNames(d.fields) = << >> \o RowNames(e.fields)
      BY <1>1, <2>3, <2>4, SameNames
    <2>6. Answers(d, e, << >>)
      BY <1>1, <2>2, <2>5 DEF Answers
    <2> QED
      BY <2>1, <2>6 DEF d, e
  <1>5. CASE p \in {"Pause", "AutoPilot"}
    <2>1. Front(p) = <<Name(d.fields[1])>>
      BY <1>2, <1>5 DEF Front
    <2>2. /\ d.exact = TRUE /\ d.n = 2 /\ d.tail = << >>
          /\ d.fields = <<Player("playerId"), Valid("state", "u8")>>
          /\ e.n = 1 /\ e.tail = << >> /\ e.most = 0 /\ e.bytes = 0
          /\ e.fields = <<Field("state", "u8")>>
      BY <1>5, PrefixedLayouts DEF Payload, AtLeast, Exactly, Size
    <2>3. Len(d.fields) = 2 /\ Len(e.fields) = 1
      BY <2>2
    <2>4. Name(d.fields[2]) = Name(e.fields[1])
      BY <2>2 DEF Name, Field, Valid
    <2> DEFINE own == Name(d.fields[1])
               front == <<own>>
    <2>5. Len(front) = 1
      OBVIOUS
    <2> HIDE DEF d, e, own, front
    <2>6. front \in Seq(Pairs) /\ RowNames(d.fields) = front \o RowNames(e.fields)
      <3>1. \A i \in 1..Len(e.fields) : Name(d.fields[i + 1]) = Name(e.fields[i])
        BY <2>3, <2>4
      <3>2. Len(d.fields) = Len(e.fields) + 1
        BY <2>3
      <3> QED
        BY <1>1, <3>1, <3>2, FrontNames DEF own, front
    <2>7. d.n = e.n + Len(front)
      BY <2>2, <2>5
    <2>8. /\ e.most = 0 /\ e.bytes = 0 /\ d.tail = e.tail
          /\ d.tail = << >> \/ \E w : d.tail = <<w>>
      BY <2>2
    <2>9. Answers(d, e, front)
      BY ONLY <1>1, <2>6, <2>7, <2>8 DEF Answers
    <2> QED
      BY <2>1, <2>9 DEF d, e, own, front
  <1>6. CASE p = "Teleport"
    <2>1. Front(p) = <<Name(d.fields[1])>>
      BY <1>2, <1>6 DEF Front
    <2>2. /\ d.exact = TRUE /\ d.n = 5 /\ d.tail = << >>
          /\ d.fields = <<Player("playerId"), Field("from", "u16"), Field("to", "u16")>>
          /\ e.n = 4 /\ e.tail = << >> /\ e.most = 0 /\ e.bytes = 0
          /\ e.fields = <<Valid("from", "u16"), Valid("to", "u16")>>
      BY <1>6, PrefixedLayouts DEF Payload, AtLeast, Exactly, Size
    <2>3. Len(d.fields) = 3 /\ Len(e.fields) = 2
      BY <2>2
    <2>4. Name(d.fields[2]) = Name(e.fields[1]) /\ Name(d.fields[3]) = Name(e.fields[2])
      BY <2>2 DEF Name, Field, Valid
    <2> DEFINE own == Name(d.fields[1])
               front == <<own>>
    <2>5. Len(front) = 1
      OBVIOUS
    <2> HIDE DEF d, e, own, front
    <2>6. front \in Seq(Pairs) /\ RowNames(d.fields) = front \o RowNames(e.fields)
      <3>1. \A i \in 1..Len(e.fields) : Name(d.fields[i + 1]) = Name(e.fields[i])
        BY <2>3, <2>4
      <3>2. Len(d.fields) = Len(e.fields) + 1
        BY <2>3
      <3> QED
        BY <1>1, <3>1, <3>2, FrontNames DEF own, front
    <2>7. d.n = e.n + Len(front)
      BY <2>2, <2>5
    <2>8. /\ e.most = 0 /\ e.bytes = 0 /\ d.tail = e.tail
          /\ d.tail = << >> \/ \E w : d.tail = <<w>>
      BY <2>2
    <2>9. Answers(d, e, front)
      BY ONLY <1>1, <2>6, <2>7, <2>8 DEF Answers
    <2> QED
      BY <2>1, <2>9 DEF d, e, own, front
  <1>7. CASE p = "Killed"
    <2>1. Front(p) = <<Name(d.fields[1])>>
      BY <1>2, <1>7 DEF Front
    <2>2. /\ d.exact = TRUE /\ d.n = 8 /\ d.tail = DriverTail
          /\ d.fields = <<Player("victim"), Field("killer", "u8"), Field("reason", "i16"),
                          Field("shotId", "i16"), Valid("flagType", "letters")>>
          /\ e.n = 7 /\ e.tail = DriverTail /\ e.most = 0 /\ e.bytes = 0
          /\ e.fields = <<Valid("killer", "u8"), Valid("reason", "i16"), Valid("shotId",
               "i16"),
                          Valid("flagType", "letters")>>
      BY <1>7, PrefixedLayouts DEF Payload, Size
    <2>3. Len(d.fields) = 5 /\ Len(e.fields) = 4
      BY <2>2
    <2>4. /\ Name(d.fields[2]) = Name(e.fields[1]) /\ Name(d.fields[3]) = Name(e.fields[2])
          /\ Name(d.fields[4]) = Name(e.fields[3]) /\ Name(d.fields[5]) = Name(e.fields[4])
      BY <2>2 DEF Name, Field, Valid
    <2>5. \E w : d.tail = <<w>>
      BY <2>2 DEF DriverTail
    <2> DEFINE own == Name(d.fields[1])
               front == <<own>>
    <2>6. Len(front) = 1
      OBVIOUS
    <2> HIDE DEF d, e, own, front
    <2>7. front \in Seq(Pairs) /\ RowNames(d.fields) = front \o RowNames(e.fields)
      <3>1. \A i \in 1..Len(e.fields) : Name(d.fields[i + 1]) = Name(e.fields[i])
        BY <2>3, <2>4
      <3>2. Len(d.fields) = Len(e.fields) + 1
        BY <2>3
      <3> QED
        BY <1>1, <3>1, <3>2, FrontNames DEF own, front
    <2>8. d.n = e.n + Len(front)
      BY <2>2, <2>6
    <2>9. /\ e.most = 0 /\ e.bytes = 0 /\ d.tail = e.tail
          /\ d.tail = << >> \/ \E w : d.tail = <<w>>
      BY <2>2, <2>5
    <2>10. Answers(d, e, front)
      BY ONLY <1>1, <2>7, <2>8, <2>9 DEF Answers
    <2> QED
      BY <2>1, <2>10 DEF d, e, own, front
  <1> QED
    BY <1>2, <1>3, <1>4, <1>5, <1>6, <1>7

-----------------------------------------------------------------------------
(* What is passed on.                                                      *)

\* What an encoder wrote and still writes is its plan with the bits it set; what
\* a decoder read and still reads of it is what was written, it is all there, and
\* no test in front of an optional field fails.
RoundInv ==
  /\ codec \in {"idle", "writing", "sent"} => written = << >>
  /\ codec = "idle" => passed = << >>
  /\ codec = "sent" => todo = << >>
  /\ codec \in {"writing", "sent"} /\ packet \in Verbatim \cup Prefixed =>
       /\ flagged \in SUBSET Bits(Encoders[packet])
       /\ length = Encoders[packet].n + TailBytes(Encoders[packet], flagged)
       /\ passed \in Seq(Pairs) /\ todo \in Seq(Items)
       /\ passed \o ItemNames(todo) = ItemNames(Plan(Encoders[packet], flagged, 0))
  /\ codec = "reading" /\ written # << >> =>
       /\ passed \in Seq(Pairs) /\ todo \in Seq(Items)
       /\ passed \o ItemNames(todo) = written
       /\ at \in Nat /\ length \in Nat /\ at <= length /\ Covers(todo, length - at)
  /\ RoundTrip

\* No items have no names.
LEMMA NoNames == ItemNames(<< >>) = << >> /\ << >> \in Seq(Pairs) /\ << >> \in Seq(Items)
  <1>1. << >> \in Seq(Pairs) /\ << >> \in Seq(Items)
    OBVIOUS
  <1>2. ItemNames(<< >>) \in Seq(Pairs) /\ Len(ItemNames(<< >>)) = Len(<< >>)
    BY <1>1, NamesAre
  <1> QED
    BY <1>1, <1>2

\* It holds at the beginning,
LEMMA RoundInvInit == CodecInit => RoundInv
  BY DEF CodecInit, RoundInv, RoundTrip

\* when an encoder begins,
LEMMA RoundEncode == RoundInv /\ Encode => RoundInv'
  <1> SUFFICES ASSUME RoundInv, Encode PROVE RoundInv'
    OBVIOUS
  <1>1. PICK p \in DOMAIN Encoders :
          \E bits \in SUBSET Bits(Encoders[p]), count \in CountsOf(Encoders[p]) :
            /\ count <= Encoders[p].most
            /\ packet' = p /\ flagged' = bits
            /\ length' = Encoders[p].n + Encoders[p].bytes * count
                 + TailBytes(Encoders[p], bits)
            /\ todo' = Plan(Encoders[p], bits, count)
    BY DEF Encode
  <1>2. PICK bits \in SUBSET Bits(Encoders[p]), count \in CountsOf(Encoders[p]) :
          /\ count <= Encoders[p].most
          /\ packet' = p /\ flagged' = bits
          /\ length' = Encoders[p].n + Encoders[p].bytes * count
               + TailBytes(Encoders[p], bits)
          /\ todo' = Plan(Encoders[p], bits, count)
    BY <1>1
  <1>3. codec = "idle" /\ codec' = "writing" /\ passed' = passed /\ written' = written
    BY DEF Encode
  <1>4. passed' = << >> /\ written' = << >>
    BY <1>3 DEF RoundInv
  <1>5. ASSUME p \in Verbatim \cup Prefixed
        PROVE  /\ length' = Encoders[p].n + TailBytes(Encoders[p], bits)
               /\ todo' \in Seq(Items) /\ passed' \in Seq(Pairs)
               /\ passed' \o ItemNames(todo') = ItemNames(Plan(Encoders[p], bits, 0))
    <2> DEFINE e == Encoders[p]
               plan == Plan(e, bits, 0)
    <2>1. Answers(Decoders[p], e, Front(p))
      BY <1>5, RelayAnswers
    <2> HIDE DEF e
    <2>2. Fine(e) /\ e.most = 0 /\ e.bytes = 0
      BY <2>1 DEF Answers
    <2>3. count = 0
      BY <1>2, <2>2 DEF CountsOf, e
    <2>4. e.n \in Nat /\ TailBytes(e, bits) \in Nat /\ plan \in Seq(Items)
      BY <2>2, ShortPlan DEF Fine
    <2>5. length' = e.n + TailBytes(e, bits) /\ todo' = plan
      <3>1. length' = e.n + e.bytes * count + TailBytes(e, bits)
              /\ todo' = Plan(e, bits, count)
        BY <1>2 DEF e
      <3> QED
        BY <2>2, <2>3, <2>4, <3>1
    <2> HIDE DEF plan
    <2>6. ItemNames(plan) \in Seq(Pairs)
      BY <2>4, NamesAre
    <2>7. << >> \o ItemNames(plan) = ItemNames(plan)
      BY ONLY <2>6
    <2> QED
      BY <1>4, <2>4, <2>5, <2>7, NoNames DEF e, plan
  <1> QED
    BY <1>2, <1>3, <1>4, <1>5 DEF RoundInv, RoundTrip

\* when a field is written,
LEMMA RoundWrite == RoundInv /\ WriteField => RoundInv'
  <1> SUFFICES ASSUME RoundInv, WriteField PROVE RoundInv'
    OBVIOUS
  <1>1. /\ codec = "writing" /\ todo # << >> /\ length' = length /\ packet' = packet
        /\ flagged' = flagged /\ written' = written
        /\ \/ Pass
           \/ codec' = "done"
    BY DEF WriteField, Done
  <1>2. written = << >>
    BY <1>1 DEF RoundInv
  <1>3. CASE codec' = "done"
    BY <1>1, <1>2, <1>3 DEF RoundInv, RoundTrip
  <1>4. CASE Pass
    <2>1. /\ codec' = codec /\ todo' = Tail(todo)
          /\ passed' = Append(passed, Name(todo[1].field))
      BY <1>4 DEF Pass, Head1, Name
    <2>2. ASSUME packet \in Verbatim \cup Prefixed
          PROVE  /\ passed' \in Seq(Pairs) /\ todo' \in Seq(Items)
                 /\ passed' \o ItemNames(todo') = passed \o ItemNames(todo)
      <3>1. passed \in Seq(Pairs) /\ todo \in Seq(Items)
        BY <1>1, <2>2 DEF RoundInv
      <3>2. Tail(todo) \in Seq(Items)
        BY <1>1, <3>1, TailOfRow
      <3> QED
        BY <1>1, <2>1, <3>1, <3>2, NamesTail
    <2> QED
      BY <1>1, <1>2, <2>1, <2>2 DEF RoundInv, RoundTrip
  <1> QED
    BY <1>1, <1>3, <1>4

\* when the payload is sent,
LEMMA RoundSend == RoundInv /\ Send => RoundInv'
  <1> SUFFICES ASSUME RoundInv, Send PROVE RoundInv'
    OBVIOUS
  <1>1. /\ codec = "writing" /\ todo = << >> /\ packet' = packet /\ flagged' = flagged
        /\ length' = length /\ passed' = passed /\ written' = written
        /\ (codec' = "sent" /\ todo' = todo) \/ codec' = "done"
    BY DEF Send, Done
  <1>2. written = << >>
    BY <1>1 DEF RoundInv
  <1> QED
    BY <1>1, <1>2 DEF RoundInv, RoundTrip

\* when a payload of any server comes,
LEMMA RoundReceive == RoundInv /\ Receive => RoundInv'
  <1> SUFFICES ASSUME RoundInv, Receive PROVE RoundInv'
    OBVIOUS
  <1>1. codec = "idle" /\ written' = written /\ codec' \in {"reading", "done"}
    BY DEF Receive, Begin, Done
  <1>2. written' = << >>
    BY <1>1 DEF RoundInv
  <1> QED
    BY <1>1, <1>2 DEF RoundInv, RoundTrip

\* when BZFS passes on what was sent,
LEMMA RoundRelay == RoundInv /\ Relay => RoundInv'
  <1> SUFFICES ASSUME RoundInv, Relay PROVE RoundInv'
    OBVIOUS
  <1> DEFINE d == Decoders[packet]
             e == Encoders[packet]
             front == Front(packet)
             n == length + Len(front)
  <1>1. codec = "sent" /\ packet \in Verbatim \cup Prefixed
    BY DEF Relay
  <1>2. written' = front \o passed /\ Begin(packet, n, flagged, 0)
    BY DEF Relay, Front, Name
  <1>3. Answers(d, e, front)
    BY <1>1, RelayAnswers
  <1>4. /\ flagged \in SUBSET Bits(e)
        /\ length = e.n + TailBytes(e, flagged)
        /\ todo = << >> /\ passed \in Seq(Pairs)
        /\ passed \o ItemNames(todo) = ItemNames(Plan(e, flagged, 0))
    BY <1>1 DEF RoundInv
  <1>5. passed = ItemNames(Plan(e, flagged, 0))
    <2>1. passed \in Seq(Pairs)
      BY <1>4
    <2>2. passed \o << >> = passed
      BY ONLY <2>1
    <2> QED
      BY <1>4, <2>2, NoNames
  <1> HIDE DEF d, e, front
  <1>6. /\ Bits(d) = Bits(e) /\ TailBytes(d, flagged) = TailBytes(e, flagged)
        /\ ItemNames(Plan(d, flagged, 0)) = front \o ItemNames(Plan(e, flagged, 0))
        /\ Covers(Plan(d, flagged, 0), d.n + TailBytes(d, flagged))
    BY <1>3, AnswersPlan
  <1>7. /\ Fine(d) /\ Fine(e) /\ front \in Seq(Pairs) /\ d.n = e.n + Len(front)
        /\ d.exact => d.tail = << >> \/ \E w : d.tail = <<w>>
    BY <1>3 DEF Answers
  <1>8. /\ Plan(d, flagged, 0) \in Seq(Items) /\ TailBytes(d, flagged) \in Nat
        /\ TailBytes(d, Bits(d)) \in Nat
        /\ d.n \in Nat /\ e.n \in Nat /\ Len(front) \in Nat
        /\ d.bytes \in Nat /\ d.most \in Nat
    <2>1. Plan(d, flagged, 0) \in Seq(Items) /\ TailBytes(d, flagged) \in Nat
      BY ONLY <1>7, ShortPlan
    <2>2. TailBytes(d, Bits(d)) \in Nat
      BY ONLY <1>7, ShortPlan
    <2>3. d.n \in Nat /\ e.n \in Nat /\ d.bytes \in Nat /\ d.most \in Nat
      BY ONLY <1>7 DEF Fine
    <2>4. Len(front) \in Nat
      BY ONLY <1>7
    <2> QED
      BY ONLY <2>1, <2>2, <2>3, <2>4
  <1>9. n = d.n + TailBytes(d, flagged) /\ n \in Nat
    BY <1>4, <1>6, <1>7, <1>8
  <1>10. AcceptsSize(d, n, 0)
    <2>1. d.n + d.bytes * 0 = d.n
      BY <1>8
    <2>2. CASE d.exact
      <3>1. flagged = Bits(d) \/ TailBytes(d, flagged) = 0
        BY <1>4, <1>6, <1>7, <2>2, OnePart
      <3>2. n \in {d.n, d.n + TailBytes(d, Bits(d))}
        BY <1>8, <1>9, <3>1
      <3> QED
        BY <1>8, <2>1, <2>2, <3>2 DEF AcceptsSize
    <2>3. CASE ~d.exact
      BY <1>8, <1>9, <2>1, <2>3 DEF AcceptsSize
    <2> QED
      BY <2>2, <2>3
  <1> HIDE DEF n
  <1>11. /\ codec' = "reading" /\ todo' = Plan(d, flagged, 0) /\ length' = n /\ at' = 0
         /\ passed' = << >>
    BY <1>2, <1>10 DEF Begin, d
  <1>12. passed' \o ItemNames(todo') = written'
    <2>1. ItemNames(todo') \in Seq(Pairs)
      BY <1>8, <1>11, NamesAre
    <2>2. << >> \o ItemNames(todo') = ItemNames(todo')
      BY ONLY <2>1
    <2> QED
      BY <1>2, <1>5, <1>6, <1>11, <2>2
  <1>13. at' \in Nat /\ length' \in Nat /\ at' <= length' /\ Covers(todo', length' - at')
    <2>1. n - 0 = n
      BY <1>9
    <2> QED
      BY <1>6, <1>9, <1>11, <2>1
  <1>14. passed' \in Seq(Pairs) /\ todo' \in Seq(Items)
    BY <1>8, <1>11, NoNames
  <1> QED
    BY <1>11, <1>12, <1>13, <1>14 DEF RoundInv, RoundTrip

\* when a field is read,
LEMMA RoundRead == RoundInv /\ ReadField => RoundInv'
  <1> SUFFICES ASSUME RoundInv, ReadField PROVE RoundInv'
    OBVIOUS
  <1>1. /\ codec = "reading" /\ todo # << >> /\ length' = length /\ written' = written
    BY DEF ReadField
  <1>2. CASE written = << >>
    <2>1. codec' \in {"reading", "done"}
      BY <1>1 DEF ReadField, Pass, Done
    <2> QED
      BY <1>1, <1>2, <2>1 DEF RoundInv, RoundTrip
  <1>3. CASE written # << >>
    <2> DEFINE w == Width[todo[1].field.as]
               room == length - at
    <2>1. /\ passed \in Seq(Pairs) /\ todo \in Seq(Items)
          /\ passed \o ItemNames(todo) = written
          /\ at \in Nat /\ length \in Nat /\ at <= length /\ Covers(todo, room)
      BY <1>1, <1>3 DEF RoundInv
    <2>2. room \in Nat
      BY <2>1
    <2>3. todo[1].need <= room /\ todo[1].need \in Nat /\ w <= room /\ w \in Nat
          /\ Covers(Tail(todo), room - w)
      BY <1>1, <2>1, <2>2, CoversTail
    <2>4. ~(at + todo[1].need > length) /\ ~(at + w > length)
      BY <2>1, <2>3
    <2>5. Pass
      BY <1>3, <2>4 DEF ReadField, Head1
    <2>6. /\ codec' = codec /\ todo' = Tail(todo) /\ at' = at + w
          /\ passed' = Append(passed, Name(todo[1].field))
      BY <2>5 DEF Pass, Head1, Name
    <2>7. /\ passed' \in Seq(Pairs)
          /\ passed' \o ItemNames(todo') = passed \o ItemNames(todo)
      BY <1>1, <2>1, <2>6, NamesTail
    <2>8. todo' \in Seq(Items)
      BY <1>1, <2>1, <2>6, TailOfRow
    <2> HIDE DEF w
    <2>9. at' \in Nat /\ at' <= length' /\ room - w = length' - at'
      BY <1>1, <2>1, <2>3, <2>6
    <2>10. Covers(todo', length' - at')
      BY <2>3, <2>6, <2>9
    <2> QED
      BY <1>1, <2>1, <2>6, <2>7, <2>8, <2>9, <2>10 DEF RoundInv, RoundTrip
  <1> QED
    BY <1>2, <1>3

\* and when the decoder is through.
LEMMA RoundEnd == RoundInv /\ EndRead => RoundInv'
  <1> SUFFICES ASSUME RoundInv, EndRead PROVE RoundInv'
    OBVIOUS
  <1>1. /\ codec = "reading" /\ todo = << >> /\ codec' = "done" /\ passed' = passed
        /\ written' = written
        /\ at = length => outcome' = "value"
    BY DEF EndRead, Done
  <1>2. ASSUME written # << >> PROVE outcome' = "value" /\ passed = written
    <2>1. /\ passed \in Seq(Pairs) /\ passed \o ItemNames(todo) = written
          /\ at \in Nat /\ length \in Nat /\ at <= length /\ Covers(todo, length - at)
      BY <1>1, <1>2 DEF RoundInv
    <2>2. Covers(<< >>, length - at)
      BY <1>1, <2>1
    <2>3. PICK g : Run(g, << >>) /\ g[Len(<< >>)] = length - at
      BY <2>2 DEF Covers
    <2>4. length - at = 0
      BY <2>3 DEF Run
    <2>5. at = length
      BY <2>1, <2>4
    <2>6. passed \o << >> = passed
      BY ONLY <2>1
    <2> QED
      BY <1>1, <2>1, <2>5, <2>6, NoNames
  <1> QED
    BY <1>1, <1>2 DEF RoundInv, RoundTrip

\* What one browser sends and BZFS passes on, another one decodes field for field,
\* the optional fields of the status included.
THEOREM RoundTrips == CodecSpec => []RoundTrip
  <1>1. RoundInv /\ [CodecNext]_codecVars => RoundInv'
    <2>1. RoundInv /\ UNCHANGED codecVars => RoundInv'
      BY DEF codecVars, RoundInv, RoundTrip
    <2> QED
      BY <2>1, RoundEncode, RoundWrite, RoundSend, RoundReceive, RoundRelay, RoundRead,
         RoundEnd DEF CodecNext
  <1>2. RoundInv => RoundTrip
    BY DEF RoundInv
  <1> QED
    BY RoundInvInit, <1>1, <1>2, PTL DEF CodecSpec
=============================================================================
