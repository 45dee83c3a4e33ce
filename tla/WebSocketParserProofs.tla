----------------------- MODULE WebSocketParserProofs -----------------------
(***************************************************************************)
(* Proofs about WebSocketParser: the deadline of an incomplete frame, what *)
(* an open connection holds, and that the messages are the data frames in  *)
(* their order.  They hold for any frames, limits and number of frames.    *)
(***************************************************************************)
EXTENDS WebSocketParser, WellFoundedInduction, TLAPS

Stops == {"no", "wait", "error", "session", "close frame"}

\* The frames of a message, among the first n: one that is whole, and an open one.
Shaped(m, n) ==
  \A k \in 1..Len(m) :
    m[k] \in 1..n /\ sent[m[k]].op = IF k = 1 THEN "binary" ELSE "continuation"
Ended(m) == \A k \in 1..Len(m) : sent[m[k]].fin <=> k = Len(m)
Unended(m) == \A k \in 1..Len(m) : ~sent[m[k]].fin

Messages(out, m, n) ==
  /\ Shaped(m, n) /\ Unended(m)
  /\ \A w \in ToSet(out) : Shaped(w, n) /\ Ended(w)

\* An open message is counted as it is, and within the limits.
Lengths(m) == [k \in DOMAIN m |-> sent[m[k]].len]
Held(o) ==
  /\ o.bytes = Total(Lengths(o.frames))
  /\ o.bytes <= MaxContinuationBytes /\ o.bytes <= MaxFrameBytes
  /\ o.count <= MaxContinuationFrames
  /\ o.frames # << >> => o.count = Len(o.frames) - 1

\* So many bytes are not all of frame f, and nothing has been seen to be wrong with it.
Waits(bytes, f) ==
  /\ bytes < FrameSize(f)
  /\ bytes >= f.header => ~BadHeader(f) /\ ~TooLong(f)

\* What the frames handled so far have made, whatever stopped the parser.
Made(out, m, n, why) ==
  /\ why # "error" => FlattenSeq(out) \o m = DataFrames(sent, n)
  /\ Messages(out, m, n)
  /\ why = "session" => Last(Last(out)) = n
  /\ why = "close frame" => n # 0 /\ sent[n].op = "close"

Typed ==
  /\ sent \in Seq(Frames) /\ parsed \in Nat /\ parsed <= Len(sent) /\ inBuffer \in Nat
  /\ fragment \in Seq(Nat) /\ fragmentFrames \in Nat /\ fragmentBytes \in Nat
  /\ parserTimer \in BOOLEAN /\ timerAge \in Nat /\ frameAge \in Nat
  /\ closed \in BOOLEAN /\ finished \in BOOLEAN
  /\ cause \in {"none", "overflow", "error", "session", "close frame", "deadline", "other"}
  /\ delivered \in Seq(Seq(Nat))

BufferInv ==
  ~closed =>
    /\ inBuffer <= BytesUpTo(Len(sent)) - BytesUpTo(parsed)
    /\ inBuffer > 0 => parsed < Len(sent) /\ Waits(inBuffer, sent[parsed + 1])

TimerInv ==
  /\ parserTimer <=> ~closed /\ inBuffer > 0
  /\ frameAge <= ParserTimeout
  /\ parserTimer => frameAge <= timerAge /\ timerAge <= ParserTimeout
  /\ ~closed /\ ~parserTimer => frameAge = 0

IInv ==
  /\ Typed
  /\ Made(delivered, fragment, parsed, cause)
  /\ Held(Opened(fragment, fragmentFrames, fragmentBytes))
  /\ ~closed => cause = "none"
  /\ BufferInv /\ TimerInv

-----------------------------------------------------------------------------
(* Induction, from the least counterexample.                               *)

LEMMA LeastOf ==
  ASSUME NEW T, T \subseteq Nat, T # {}
  PROVE  \E n \in T : \A m \in T : n <= m
  <1>1. PICK n \in T : \A m \in T : <<m, n>> \notin OpToRel(<, Nat)
    BY NatLessThanWellFounded, WFMin
  <1>2. ASSUME NEW m \in T PROVE n <= m
    <2>1. <<m, n>> \in Nat \X Nat
      OBVIOUS
    <2>2. ~ (m < n)
      BY <1>1, <2>1 DEF OpToRel
    <2> QED
      BY <2>2
  <1> QED
    BY <1>2

-----------------------------------------------------------------------------
(* Sums of numbers.                                                        *)

\* The sums of the first numbers of s, for each number of them up to n.
Sums(g, s, n) == g = [i \in 0..n |-> IF i = 0 THEN 0 ELSE g[i - 1] + s[i]]

LEMMA SumsExist ==
  ASSUME NEW s, NEW n \in Nat
  PROVE  \E g : Sums(g, s, n)
  <1> DEFINE T == {k \in Nat : ~ \E g : Sums(g, s, k)}
  <1>1. SUFFICES ASSUME T # {} PROVE FALSE
    OBVIOUS
  <1>2. PICK k \in T : \A m \in T : k <= m
    BY <1>1, LeastOf
  <1>3. k # 0
    <2>1. Sums([i \in 0..0 |-> 0], s, 0)
      BY DEF Sums
    <2> QED
      BY <2>1
  <1>4. PICK g : Sums(g, s, k - 1)
    <2>1. k - 1 \in Nat /\ ~ (k <= k - 1)
      BY <1>3
    <2> QED
      BY <1>2, <2>1
  <1> DEFINE h == [i \in 0..k |-> IF i = k THEN g[k - 1] + s[k] ELSE g[i]]
  <1>5. \A i \in 0..k : h[i] = IF i = 0 THEN 0 ELSE h[i - 1] + s[i]
    BY <1>3, <1>4 DEF Sums
  <1>6. Sums(h, s, k)
    BY <1>5 DEF Sums
  <1> QED
    BY <1>6

LEMMA SumsAgree ==
  ASSUME NEW s, NEW t, NEW n \in Nat, \A i \in 1..n : s[i] = t[i],
         NEW m \in Nat, n <= m, NEW g, Sums(g, s, n), NEW h, Sums(h, t, m)
  PROVE  g[n] = h[n]
  <1> DEFINE T == {i \in 0..n : g[i] # h[i]}
  <1>1. SUFFICES ASSUME T # {} PROVE FALSE
    OBVIOUS
  <1>2. PICK k \in T : \A i \in T : k <= i
    <2>1. T \subseteq Nat
      OBVIOUS
    <2> HIDE DEF T
    <2> QED
      BY <1>1, <2>1, LeastOf
  <1>3. k # 0
    BY DEF Sums
  <1>4. g[k - 1] = h[k - 1]
    BY <1>2, <1>3
  <1>5. g[k] = g[k - 1] + s[k] /\ h[k] = h[k - 1] + t[k]
    BY <1>3 DEF Sums
  <1> QED
    BY <1>3, <1>4, <1>5

LEMMA TotalIs ==
  ASSUME NEW s, Len(s) \in Nat
  PROVE  \E g : Sums(g, s, Len(s)) /\ Total(s) = g[Len(s)]
  <1> DEFINE sum == CHOOSE g : Sums(g, s, Len(s))
  <1>1. Sums(sum, s, Len(s))
    BY SumsExist
  <1>2. Total(s) = sum[Len(s)]
    BY DEF Total, Sums
  <1> QED
    BY <1>1, <1>2

LEMMA TotalEmpty == ASSUME NEW s, Len(s) = 0 PROVE Total(s) = 0
  <1>1. PICK g : Sums(g, s, 0) /\ Total(s) = g[0]
    BY TotalIs
  <1> QED
    BY <1>1 DEF Sums

\* One number more.
LEMMA TotalOneMore ==
  ASSUME NEW s, NEW t, Len(s) \in Nat, Len(t) = Len(s) + 1, \A i \in 1..Len(s) : t[i] = s[i]
  PROVE  Total(t) = Total(s) + t[Len(t)]
  <1> DEFINE n == Len(s)
  <1>1. /\ n \in Nat /\ Len(t) = n + 1
        /\ n + 1 \in Nat /\ n <= n + 1
        /\ \A i \in 1..n : s[i] = t[i]
    OBVIOUS
  <1> HIDE DEF n
  <1>2. PICK g : Sums(g, s, n) /\ Total(s) = g[n]
    BY <1>1, TotalIs DEF n
  <1>3. PICK h : Sums(h, t, n + 1) /\ Total(t) = h[n + 1]
    BY <1>1, TotalIs
  <1> DEFINE m == n + 1
  <1>4. g[n] = h[n]
    <2>1. m \in Nat /\ n \in Nat /\ n <= m /\ Sums(h, t, m) /\ Sums(g, s, n)
      BY <1>1, <1>2, <1>3
    <2>2. \A i \in 1..n : s[i] = t[i]
      BY <1>1
    <2> HIDE DEF m
    <2> QED
      BY ONLY <2>1, <2>2, SumsAgree
  <1>5. h[n + 1] = h[n] + t[n + 1]
    BY <1>1, <1>3 DEF Sums
  <1> QED
    BY <1>1, <1>2, <1>3, <1>4, <1>5

\* The same numbers.
LEMMA TotalSame ==
  ASSUME NEW s, NEW t, Len(s) \in Nat, Len(t) = Len(s), \A i \in 1..Len(s) : t[i] = s[i]
  PROVE  Total(t) = Total(s)
  <1>1. PICK g : Sums(g, s, Len(s)) /\ Total(s) = g[Len(s)]
    BY TotalIs
  <1>2. PICK h : Sums(h, t, Len(s)) /\ Total(t) = h[Len(s)]
    BY TotalIs
  <1>3. g[Len(s)] = h[Len(s)]
    BY <1>1, <1>2, SumsAgree
  <1> QED
    BY <1>1, <1>2, <1>3

LEMMA TotalType == ASSUME NEW s \in Seq(Nat) PROVE Total(s) \in Nat
  <1>1. PICK g : Sums(g, s, Len(s)) /\ Total(s) = g[Len(s)]
    BY TotalIs
  <1> DEFINE T == {i \in 0..Len(s) : g[i] \notin Nat}
  <1>2. SUFFICES ASSUME T # {} PROVE FALSE
    BY <1>1
  <1>3. T \subseteq Nat
    OBVIOUS
  <1>4. PICK k \in T : \A i \in T : k <= i
    <2> HIDE DEF T
    <2> QED
      BY <1>2, <1>3, LeastOf
  <1>5. k # 0
    BY <1>1 DEF Sums
  <1>6. g[k - 1] \in Nat
    BY <1>4, <1>5
  <1>7. k \in 1..Len(s) /\ k \in 0..Len(s)
    BY <1>5
  <1>8. s[k] \in Nat
    BY <1>7
  <1>9. g[k] = g[k - 1] + s[k]
    BY <1>1, <1>5, <1>7 DEF Sums
  <1> QED
    BY <1>6, <1>8, <1>9

-----------------------------------------------------------------------------
(* Messages put behind one another.                                        *)

\* The first messages of s in one sequence, for each number of them up to n.
Flats(g, s, n) == g = [i \in 1..n |-> IF i = 1 THEN s[i] ELSE g[i - 1] \o s[i]]

LEMMA FlatsStep ==
  ASSUME NEW g, NEW s, NEW n \in Nat, NEW i \in 1..n, i # 1, Flats(g, s, n)
  PROVE  g[i] = g[i - 1] \o s[i]
  <1> DEFINE Step(w, j) == IF j = 1 THEN s[j] ELSE w \o s[j]
  <1>1. g = [j \in 1..n |-> Step(g[j - 1], j)]
    BY DEF Flats
  <1>2. g[i] = Step(g[i - 1], i)
    <2> HIDE DEF Step
    <2> QED
      BY <1>1
  <1> QED
    BY <1>2

LEMMA FlatsExist ==
  ASSUME NEW s, NEW n \in Nat
  PROVE  \E g : Flats(g, s, n)
  <1> DEFINE T == {k \in Nat : ~ \E g : Flats(g, s, k)}
  <1>1. SUFFICES ASSUME T # {} PROVE FALSE
    OBVIOUS
  <1>2. PICK k \in T : \A m \in T : k <= m
    BY <1>1, LeastOf
  <1>3. k # 0
    <2>1. Flats([i \in 1..0 |-> 0], s, 0)
      BY DEF Flats
    <2> QED
      BY <2>1
  <1>4. PICK g : Flats(g, s, k - 1)
    <2>1. k - 1 \in Nat /\ ~ (k <= k - 1)
      BY <1>3
    <2> QED
      BY <1>2, <2>1
  <1> DEFINE h == [i \in 1..k |-> IF i = 1 THEN s[i] ELSE IF i = k THEN g[k - 1] \o s[k] ELSE g[i]]
  <1>5. \A i \in 1..k : h[i] = IF i = 1 THEN s[i] ELSE h[i - 1] \o s[i]
    <2> SUFFICES ASSUME NEW i \in 1..k, i # 1 PROVE h[i] = h[i - 1] \o s[i]
      OBVIOUS
    <2>1. h[i - 1] = g[i - 1]
      <3>1. i - 1 \in 1..(k - 1) /\ i - 1 \in 1..k /\ i - 1 # k
        BY <1>3
      <3> QED
        BY <1>4, <3>1 DEF Flats
    <2>2. i # k => g[i] = g[i - 1] \o s[i]
      <3> SUFFICES ASSUME i # k PROVE g[i] = g[i - 1] \o s[i]
        OBVIOUS
      <3>1. k - 1 \in Nat /\ i \in 1..(k - 1)
        BY <1>3
      <3> QED
        BY <1>4, <3>1, FlatsStep
    <2> QED
      BY <2>1, <2>2
  <1>6. Flats(h, s, k)
    <2> HIDE DEF T
    <2> QED
      BY <1>5 DEF Flats
  <1> QED
    BY <1>6

LEMMA FlattenIs ==
  ASSUME NEW s, Len(s) \in Nat, Len(s) # 0
  PROVE  \E g : Flats(g, s, Len(s)) /\ FlattenSeq(s) = g[Len(s)]
  <1> DEFINE flat == CHOOSE g : Flats(g, s, Len(s))
  <1>1. Flats(flat, s, Len(s))
    BY FlatsExist
  <1>2. FlattenSeq(s) = flat[Len(s)]
    BY DEF FlattenSeq, Flats
  <1> QED
    BY <1>1, <1>2

LEMMA FlattenEmpty == FlattenSeq(<< >>) = << >>
  BY DEF FlattenSeq

LEMMA FlatsType ==
  ASSUME NEW S, NEW s \in Seq(Seq(S)), NEW g, Flats(g, s, Len(s)), NEW n \in 1..Len(s)
  PROVE  g[n] \in Seq(S)
  <1> DEFINE T == {i \in 1..Len(s) : g[i] \notin Seq(S)}
  <1>2. SUFFICES ASSUME T # {} PROVE FALSE
    OBVIOUS
  <1>3. T \subseteq Nat
    OBVIOUS
  <1>4. PICK k \in T : \A i \in T : k <= i
    <2> HIDE DEF T
    <2> QED
      BY <1>2, <1>3, LeastOf
  <1>5. k \in 1..Len(s) /\ s[k] \in Seq(S)
    OBVIOUS
  <1>6. k # 1
    BY <1>5 DEF Flats
  <1>7. g[k - 1] \in Seq(S)
    BY <1>4, <1>6
  <1>8. g[k] = g[k - 1] \o s[k]
    <2>1. Len(s) \in Nat /\ k \in 1..Len(s) /\ k # 1 /\ Flats(g, s, Len(s))
      BY <1>5, <1>6
    <2> QED
      BY ONLY <2>1, FlatsStep, ZenonT(60)
  <1>9. g[k] \in Seq(S)
    <2> HIDE DEF T
    <2> QED
      BY <1>5, <1>7, <1>8
  <1> QED
    BY <1>9

LEMMA FlattenType ==
  ASSUME NEW S, NEW s \in Seq(Seq(S))
  PROVE  FlattenSeq(s) \in Seq(S)
  <1>1. CASE Len(s) = 0
    BY <1>1 DEF FlattenSeq
  <1>2. CASE Len(s) # 0
    <2>1. PICK g : Flats(g, s, Len(s)) /\ FlattenSeq(s) = g[Len(s)]
      BY <1>2, FlattenIs
    <2> QED
      BY <1>2, <2>1, FlatsType
  <1> QED
    BY <1>1, <1>2

\* One message more.
LEMMA FlattenOneMore ==
  ASSUME NEW S, NEW s \in Seq(Seq(S)), NEW m \in Seq(S)
  PROVE  FlattenSeq(Append(s, m)) = FlattenSeq(s) \o m
  <1> DEFINE t == Append(s, m)
             n == Len(s)
  <1>1. /\ n \in Nat /\ Len(t) = n + 1 /\ Len(t) \in Nat /\ Len(t) # 0 /\ t[n + 1] = m
        /\ t \in Seq(Seq(S)) /\ \A i \in 1..n : t[i] = s[i]
    OBVIOUS
  <1>2. PICK h : Flats(h, t, n + 1) /\ FlattenSeq(t) = h[n + 1]
    <2> HIDE DEF t, n
    <2> QED
      BY <1>1, FlattenIs
  <1>3. CASE n = 0
    <2>1. s = << >> /\ FlattenSeq(s) = << >>
      BY <1>3 DEF FlattenSeq
    <2>2. h[1] = m
      BY <1>1, <1>2, <1>3 DEF Flats
    <2> QED
      BY <1>2, <1>3, <2>1, <2>2
  <1>4. CASE n # 0
    <2>1. PICK g : Flats(g, s, n) /\ FlattenSeq(s) = g[n]
      BY <1>4, FlattenIs
    <2> DEFINE T == {i \in 1..n : g[i] # h[i]}
    <2>2. T = {}
      <3> SUFFICES ASSUME T # {} PROVE FALSE
        OBVIOUS
      <3>1. T \subseteq Nat
        OBVIOUS
      <3>2. PICK k \in T : \A i \in T : k <= i
        <4> HIDE DEF T
        <4> QED
          BY <3>1, LeastOf
      <3> HIDE DEF n
      <3>3. k \in 1..n /\ k \in 1..(n + 1) /\ t[k] = s[k]
        BY <1>1
      <3>4. k # 1
        BY <1>2, <2>1, <3>3 DEF Flats
      <3>5. g[k - 1] = h[k - 1]
        BY <1>1, <3>2, <3>3, <3>4
      <3>6. g[k] = g[k - 1] \o s[k] /\ h[k] = h[k - 1] \o t[k]
        <4>1. /\ n \in Nat /\ k \in 1..n /\ k # 1 /\ Flats(g, s, n)
              /\ n + 1 \in Nat /\ k \in 1..(n + 1) /\ Flats(h, t, n + 1)
          BY <1>1, <1>2, <2>1, <3>3, <3>4
        <4> HIDE DEF t, n, T
        <4> QED
          BY ONLY <4>1, FlatsStep
      <3> QED
        BY <3>2, <3>3, <3>5, <3>6
    <2>3. g[n] = h[n]
      BY <1>1, <1>4, <2>2
    <2>4. h[n + 1] = h[n] \o t[n + 1]
      <3> HIDE DEF t, n
      <3>1. n \in Nat /\ n # 0
        BY <1>1, <1>4
      <3>2. n + 1 \in Nat /\ n + 1 \in 1..(n + 1) /\ n + 1 # 1 /\ (n + 1) - 1 = n
        BY ONLY <3>1
      <3> QED
        BY ONLY <1>2, <3>2, FlatsStep, ZenonT(60)
    <2> QED
      BY <1>1, <1>2, <2>1, <2>3, <2>4
  <1> QED
    BY <1>3, <1>4

-----------------------------------------------------------------------------
(* The data frames among the first n.                                      *)

Picks(g, frames, n) ==
  g = [i \in 0..n |-> IF i = 0 THEN << >>
                      ELSE IF frames[i].op \in {"binary", "continuation"} THEN Append(g[i - 1], i)
                      ELSE g[i - 1]]

LEMMA PicksExist ==
  ASSUME NEW s, NEW n \in Nat
  PROVE  \E g : Picks(g, s, n)
  <1> DEFINE T == {k \in Nat : ~ \E g : Picks(g, s, k)}
  <1>1. SUFFICES ASSUME T # {} PROVE FALSE
    OBVIOUS
  <1>2. PICK k \in T : \A m \in T : k <= m
    BY <1>1, LeastOf
  <1>3. k # 0
    <2>1. Picks([i \in 0..0 |-> << >>], s, 0)
      BY DEF Picks
    <2> QED
      BY <2>1
  <1>4. PICK g : Picks(g, s, k - 1)
    <2>1. k - 1 \in Nat /\ ~ (k <= k - 1)
      BY <1>3
    <2> QED
      BY <1>2, <2>1
  <1> DEFINE Step(w, i) == IF s[i].op \in {"binary", "continuation"} THEN Append(w, i) ELSE w
             h == [i \in 0..k |-> IF i = k THEN Step(g[k - 1], k) ELSE g[i]]
  <1>5. \A i \in 0..k : h[i] = IF i = 0 THEN << >> ELSE Step(h[i - 1], i)
    <2> HIDE DEF Step
    <2>1. \A i \in 0..(k - 1) : g[i] = IF i = 0 THEN << >> ELSE Step(g[i - 1], i)
      BY <1>4 DEF Picks, Step
    <2> QED
      BY <1>3, <2>1
  <1>6. Picks(h, s, k)
    <2> HIDE DEF T
    <2> QED
      BY <1>5 DEF Picks
  <1> QED
    BY <1>6

LEMMA DataFramesIs ==
  ASSUME NEW s, NEW n \in Nat
  PROVE  \E g : Picks(g, s, n) /\ DataFrames(s, n) = g[n]
  <1> DEFINE picked == CHOOSE g : Picks(g, s, n)
  <1>1. Picks(picked, s, n)
    BY PicksExist
  <1>2. DataFrames(s, n) = picked[n]
    BY DEF DataFrames, Picks
  <1> QED
    BY <1>1, <1>2

LEMMA PicksStep ==
  ASSUME NEW g, NEW s, NEW n \in Nat, NEW i \in 1..n, Picks(g, s, n)
  PROVE  g[i] = IF s[i].op \in {"binary", "continuation"} THEN Append(g[i - 1], i) ELSE g[i - 1]
  <1> DEFINE Step(w, j) == IF s[j].op \in {"binary", "continuation"} THEN Append(w, j) ELSE w
  <1>1. g = [j \in 0..n |-> IF j = 0 THEN << >> ELSE Step(g[j - 1], j)]
    BY DEF Picks
  <1>2. g[i] = Step(g[i - 1], i)
    <2> HIDE DEF Step
    <2> QED
      BY <1>1
  <1> QED
    BY <1>2

LEMMA PicksAgree ==
  ASSUME NEW s, NEW t, NEW n \in Nat, \A i \in 1..n : s[i] = t[i],
         NEW m \in Nat, n <= m, NEW g, Picks(g, s, n), NEW h, Picks(h, t, m)
  PROVE  g[n] = h[n]
  <1> DEFINE T == {i \in 0..n : g[i] # h[i]}
  <1>1. SUFFICES ASSUME T # {} PROVE FALSE
    OBVIOUS
  <1>2. PICK k \in T : \A i \in T : k <= i
    <2>1. T \subseteq Nat
      OBVIOUS
    <2> HIDE DEF T
    <2> QED
      BY <1>1, <2>1, LeastOf
  <1>3. k # 0
    BY DEF Picks
  <1>4. g[k - 1] = h[k - 1]
    BY <1>2, <1>3
  <1>5. k \in 1..n /\ k \in 1..m /\ s[k] = t[k]
    BY <1>3
  <1>6. g[k] = h[k]
    <2> DEFINE Step(f, w) == IF f.op \in {"binary", "continuation"} THEN Append(w, k) ELSE w
    <2>1. g[k] = Step(s[k], g[k - 1])
      BY ONLY <1>5, n \in Nat, Picks(g, s, n), PicksStep
    <2>2. h[k] = Step(t[k], h[k - 1])
      BY ONLY <1>5, m \in Nat, Picks(h, t, m), PicksStep
    <2> HIDE DEF Step
    <2> QED
      BY <1>4, <1>5, <2>1, <2>2
  <1> QED
    BY <1>6

LEMMA DataFramesNone == ASSUME NEW s PROVE DataFrames(s, 0) = << >>
  <1>1. PICK g : Picks(g, s, 0) /\ DataFrames(s, 0) = g[0]
    BY DataFramesIs
  <1> QED
    BY <1>1 DEF Picks

\* The frame at place i is one more data frame, or none.
LEMMA DataFramesOneMore ==
  ASSUME NEW s, NEW i \in Nat \ {0}
  PROVE  DataFrames(s, i) = IF s[i].op \in {"binary", "continuation"}
                            THEN Append(DataFrames(s, i - 1), i)
                            ELSE DataFrames(s, i - 1)
  <1>1. i - 1 \in Nat /\ i \in Nat /\ i - 1 <= i /\ i \in 1..i
    OBVIOUS
  <1>2. PICK g : Picks(g, s, i - 1) /\ DataFrames(s, i - 1) = g[i - 1]
    BY <1>1, DataFramesIs
  <1>3. PICK h : Picks(h, s, i) /\ DataFrames(s, i) = h[i]
    BY <1>1, DataFramesIs
  <1>4. g[i - 1] = h[i - 1]
    <2> DEFINE n == i - 1
    <2>1. n \in Nat /\ i \in Nat /\ n <= i /\ Picks(g, s, n) /\ Picks(h, s, i)
      BY <1>1, <1>2, <1>3
    <2>2. g[n] = h[n]
      <3> HIDE DEF n
      <3> QED
        BY ONLY <2>1, PicksAgree
    <2> QED
      BY <2>2
  <1> DEFINE Step(w) == IF s[i].op \in {"binary", "continuation"} THEN Append(w, i) ELSE w
  <1>5. h[i] = Step(h[i - 1])
    BY ONLY <1>1, <1>3, PicksStep
  <1>6. DataFrames(s, i) = Step(DataFrames(s, i - 1))
    <2> HIDE DEF Step
    <2> QED
      BY <1>2, <1>3, <1>4, <1>5
  <1> QED
    BY <1>6

\* What is sent later does not change them.
LEMMA DataFramesSame ==
  ASSUME NEW s, NEW t, NEW n \in Nat, \A i \in 1..n : s[i] = t[i]
  PROVE  DataFrames(s, n) = DataFrames(t, n)
  <1>1. PICK g : Picks(g, s, n) /\ DataFrames(s, n) = g[n]
    BY DataFramesIs
  <1>2. PICK h : Picks(h, t, n) /\ DataFrames(t, n) = h[n]
    BY DataFramesIs
  <1> DEFINE m == n
  <1>3. /\ n \in Nat /\ m \in Nat /\ n <= m /\ Picks(g, s, n) /\ Picks(h, t, m)
    BY <1>1, <1>2
  <1>4. g[n] = h[n]
    <2>1. \A i \in 1..n : s[i] = t[i]
      OBVIOUS
    <2> HIDE DEF m
    <2> QED
      BY ONLY <1>3, <2>1, PicksAgree
  <1> QED
    BY <1>1, <1>2, <1>4

-----------------------------------------------------------------------------
(* The loop of #parseFrames.                                               *)

\* What the loop starts with.
Start(bytes) ==
  [left |-> bytes, parsed |-> parsed,
   open |-> Opened(fragment, fragmentFrames, fragmentBytes),
   out |-> delivered, stop |-> "no"]

\* The states of the parser after the frames up to n.
Turns(g, n, bytes, overBudget, quitAt) ==
  g = [i \in parsed..n |-> IF i = parsed THEN Start(bytes)
                           ELSE ParseFrame(g[i - 1], i, overBudget, quitAt)]

LEMMA TurnsExist ==
  ASSUME NEW bytes, NEW overBudget, NEW quitAt, parsed \in Nat, NEW n \in Nat, parsed <= n
  PROVE  \E g : Turns(g, n, bytes, overBudget, quitAt)
  <1> DEFINE T == {k \in Nat : parsed <= k /\ ~ \E g : Turns(g, k, bytes, overBudget, quitAt)}
  <1>1. SUFFICES ASSUME T # {} PROVE FALSE
    OBVIOUS
  <1>2. PICK k \in T : \A m \in T : k <= m
    <2>1. T \subseteq Nat
      OBVIOUS
    <2> HIDE DEF T
    <2> QED
      BY <1>1, <2>1, LeastOf
  <1>3. k # parsed
    <2>1. Turns([i \in parsed..parsed |-> Start(bytes)], parsed, bytes, overBudget, quitAt)
      BY DEF Turns
    <2> QED
      BY <2>1
  <1>4. PICK g : Turns(g, k - 1, bytes, overBudget, quitAt)
    <2>1. k - 1 \in Nat /\ ~ (k <= k - 1) /\ parsed <= k - 1
      BY <1>3
    <2> QED
      BY <1>2, <2>1
  <1> DEFINE h == [i \in parsed..k |-> IF i = k THEN ParseFrame(g[k - 1], k, overBudget, quitAt)
                                       ELSE g[i]]
  <1>5. \A i \in parsed..k : h[i] = IF i = parsed THEN Start(bytes)
                                    ELSE ParseFrame(h[i - 1], i, overBudget, quitAt)
    BY <1>3, <1>4 DEF Turns
  <1>6. Turns(h, k, bytes, overBudget, quitAt)
    <2> HIDE DEF T
    <2> QED
      BY <1>5 DEF Turns
  <1> QED
    BY <1>6

LEMMA ParseFramesIs ==
  ASSUME NEW bytes, NEW overBudget, NEW quitAt,
         parsed \in Nat, Len(sent) \in Nat, parsed <= Len(sent)
  PROVE  \E g : /\ Turns(g, Len(sent), bytes, overBudget, quitAt)
                /\ ParseFrames(bytes, overBudget, quitAt) = g[Len(sent)]
  <1> DEFINE turns == CHOOSE g : Turns(g, Len(sent), bytes, overBudget, quitAt)
  <1>1. Turns(turns, Len(sent), bytes, overBudget, quitAt)
    BY TurnsExist
  <1>2. ParseFrames(bytes, overBudget, quitAt) = turns[Len(sent)]
    BY DEF ParseFrames, Turns, Start
  <1> QED
    BY <1>1, <1>2

-----------------------------------------------------------------------------
(* What the parser holds, and what one frame makes of it.                  *)

LoopStates ==
  [left : Nat, parsed : Nat, open : [frames : Seq(Nat), count : Nat, bytes : Nat],
   out : Seq(Seq(Nat)), stop : Stops]

LEMMA FrameFacts ==
  ASSUME NEW f \in Frames
  PROVE  /\ f.op \in {"continuation", "text", "binary", "close", "ping", "pong", "reserved"}
         /\ f.fin \in BOOLEAN /\ f.valid \in BOOLEAN
         /\ f.header \in Nat /\ f.len \in Nat
         /\ FrameSize(f) \in Nat /\ FrameSize(f) > 0 /\ f.header <= FrameSize(f)
         /\ f.header + MaskBytes <= MaxOverhead
  BY ParserAssumption DEF FrameSize

LEMMA Limits ==
  /\ MaxFrameBytes \in Nat /\ MaxContinuationFrames \in Nat /\ MaxContinuationBytes \in Nat
  /\ MaxOverhead \in Nat /\ MaskBytes \in Nat /\ ParserTimeout \in Nat \ {0}
  BY ParserAssumption

LEMMA StoppedIs ==
  ASSUME NEW p \in LoopStates, NEW why \in Stops
  PROVE  /\ Stopped(p, why) \in LoopStates
         /\ Stopped(p, why).left = p.left /\ Stopped(p, why).parsed = p.parsed
         /\ Stopped(p, why).open = p.open /\ Stopped(p, why).out = p.out
         /\ Stopped(p, why).stop = why
  BY DEF Stopped, LoopStates

LEMMA DeliverIs ==
  ASSUME NEW p \in LoopStates, NEW m \in Seq(Nat), NEW quits \in BOOLEAN
  PROVE  LET q == Deliver(p, m, quits)
         IN  /\ q \in LoopStates
             /\ q.left = p.left /\ q.parsed = p.parsed /\ q.open = p.open
             /\ q.out = Append(p.out, m)
             /\ q.stop = IF quits THEN "session" ELSE "no"
  <1> DEFINE out == Append(p.out, m)
             r == [p EXCEPT !.out = out]
             why == IF quits THEN "session" ELSE "no"
  <1>1. /\ r \in LoopStates
        /\ r.left = p.left /\ r.parsed = p.parsed /\ r.open = p.open
        /\ r.out = Append(p.out, m)
    <2>1. out \in Seq(Seq(Nat))
      <3>1. p.out \in Seq(Seq(Nat))
        BY DEF LoopStates
      <3> QED
        BY <3>1
    <2> HIDE DEF out
    <2>2. /\ r \in LoopStates
          /\ r.left = p.left /\ r.parsed = p.parsed /\ r.open = p.open /\ r.out = out
      BY <2>1 DEF LoopStates
    <2> QED
      BY <2>2 DEF out
  <1>2. why \in Stops
    BY DEF Stops
  <1>3. Deliver(p, m, quits) = Stopped(r, why)
    BY DEF Deliver
  <1> HIDE DEF r, why
  <1>4. /\ Stopped(r, why) \in LoopStates
        /\ Stopped(r, why).left = r.left /\ Stopped(r, why).parsed = r.parsed
        /\ Stopped(r, why).open = r.open /\ Stopped(r, why).out = r.out
        /\ Stopped(r, why).stop = why
    BY <1>1, <1>2, StoppedIs
  <1> QED
    BY <1>1, <1>3, <1>4 DEF why

OpenMessages == [frames : Seq(Nat), count : Nat, bytes : Nat]

LEMMA OpenedIs ==
  ASSUME NEW frames \in Seq(Nat), NEW count \in Nat, NEW bytes \in Nat
  PROVE  LET o == Opened(frames, count, bytes)
         IN  /\ o \in OpenMessages
             /\ o.frames = frames /\ o.count = count /\ o.bytes = bytes
  BY DEF OpenMessages, Opened

LEMMA KeepsIs ==
  ASSUME NEW p \in LoopStates, NEW o \in OpenMessages
  PROVE  /\ Keeps(p, o) \in LoopStates
         /\ Keeps(p, o).left = p.left /\ Keeps(p, o).parsed = p.parsed
         /\ Keeps(p, o).open = o /\ Keeps(p, o).out = p.out
         /\ Keeps(p, o).stop = p.stop
  BY DEF LoopStates, OpenMessages, Keeps

LEMMA ShiftIs ==
  ASSUME NEW p \in LoopStates, NEW i \in 1..Len(sent), sent \in Seq(Frames),
         FrameSize(sent[i]) <= p.left
  PROVE  LET q == Shift(p, i)
         IN  /\ q \in LoopStates
             /\ q.left = p.left - FrameSize(sent[i]) /\ q.parsed = i
             /\ q.open = p.open /\ q.out = p.out /\ q.stop = p.stop
  <1> DEFINE left == p.left - FrameSize(sent[i])
             r == [p EXCEPT !.left = left]
             q == [r EXCEPT !.parsed = i]
  <1>1. left \in Nat /\ i \in Nat
    BY FrameFacts DEF LoopStates
  <1>2. /\ r \in LoopStates /\ r.left = left
        /\ r.open = p.open /\ r.out = p.out /\ r.stop = p.stop
    <2> HIDE DEF left
    <2> QED
      BY <1>1 DEF LoopStates
  <1>3. /\ q \in LoopStates /\ q.left = r.left /\ q.parsed = i
        /\ q.open = r.open /\ q.out = r.out /\ q.stop = r.stop
    <2> HIDE DEF r
    <2> QED
      BY <1>1, <1>2 DEF LoopStates
  <1>4. Shift(p, i) = q
    BY DEF Shift
  <1> HIDE DEF q, r
  <1> QED
    BY <1>2, <1>3, <1>4

LEMMA ToSetAppend ==
  ASSUME NEW S, NEW s \in Seq(S), NEW x \in S
  PROVE  ToSet(Append(s, x)) = ToSet(s) \cup {x}
  <1> DEFINE t == Append(s, x)
  <1>1. /\ Len(s) \in Nat /\ DOMAIN s = 1..Len(s) /\ DOMAIN t = 1..(Len(s) + 1)
        /\ t[Len(s) + 1] = x /\ \A i \in 1..Len(s) : t[i] = s[i]
    OBVIOUS
  <1> HIDE DEF t
  <1>2. \A i \in 1..(Len(s) + 1) : i \in 1..Len(s) \/ i = Len(s) + 1
    BY <1>1
  <1>3. ToSet(t) = {t[i] : i \in 1..(Len(s) + 1)} /\ ToSet(s) = {s[i] : i \in 1..Len(s)}
    BY <1>1 DEF ToSet
  <1>4. ToSet(t) \subseteq ToSet(s) \cup {x}
    BY <1>1, <1>2, <1>3
  <1>5. ToSet(s) \cup {x} \subseteq ToSet(t)
    BY <1>1, <1>3
  <1> QED
    BY <1>4, <1>5 DEF t

LEMMA ToSetEmpty == ToSet(<< >>) = {}
  BY DEF ToSet

LEMMA ConcatFacts ==
  ASSUME NEW s \in Seq(Nat), NEW t \in Seq(Nat), NEW x \in Nat
  PROVE  /\ s \o << >> = s /\ s \o <<x>> = Append(s, x)
         /\ s \o Append(t, x) = Append(s \o t, x)
         /\ s \o t \in Seq(Nat)
  OBVIOUS

\* Frame i has left the buffer and is about to be handled.
Ready(p, i) ==
  /\ p \in LoopStates /\ p.parsed = i /\ p.stop = "no"
  /\ FlattenSeq(p.out) \o p.open.frames = DataFrames(sent, i - 1)
  /\ Messages(p.out, p.open.frames, i)
  /\ Held(p.open)

\* It has been handled: p became q.
Handled(q, p, i) ==
  /\ q \in LoopStates /\ q.parsed = i /\ q.left = p.left /\ q.stop # "wait"
  /\ Made(q.out, q.open.frames, i, q.stop)
  /\ Held(q.open)

LEMMA NoMessageHeld == Held(NoMessage) /\ NoMessage.frames = << >>
  <1>1. /\ NoMessage.frames = << >> /\ NoMessage.count = 0 /\ NoMessage.bytes = 0
    BY DEF NoMessage, Opened
  <1>2. Len(Lengths(<< >>)) = 0
    BY DEF Lengths
  <1>3. Total(Lengths(<< >>)) = 0
    BY <1>2, TotalEmpty
  <1> QED
    BY <1>1, <1>3, Limits DEF Held

\* An error leaves what there is, and so do frames that carry no data.
LEMMA StopHandles ==
  ASSUME NEW p, NEW i \in Nat, Ready(p, i)
  PROVE  Handled(Stopped(p, "error"), p, i)
  <1>1. "error" \in Stops
    BY DEF Stops
  <1> QED
    BY <1>1, StoppedIs DEF Ready, Handled, Made

LEMMA ControlHandles ==
  ASSUME NEW p, NEW i \in Nat \ {0}, Ready(p, i),
         sent[i].op \notin {"binary", "continuation"}
  PROVE  /\ Handled(p, p, i)
         /\ sent[i].op = "close" => Handled(Stopped(p, "close frame"), p, i)
  <1>1. DataFrames(sent, i) = DataFrames(sent, i - 1)
    BY DataFramesOneMore
  <1>2. "close frame" \in Stops
    BY DEF Stops
  <1> QED
    BY <1>1, <1>2, StoppedIs DEF Ready, Handled, Made

\* A message that ends with this frame goes up.
LEMMA DeliverHandles ==
  ASSUME NEW p \in LoopStates, NEW i \in Nat, p.parsed = i, NEW quits \in BOOLEAN,
         p.open.frames = << >>, Held(p.open), Messages(p.out, << >>, i),
         NEW m \in Seq(Nat), Shaped(m, i), Ended(m), Last(m) = i,
         FlattenSeq(p.out) \o m = DataFrames(sent, i)
  PROVE  Handled(Deliver(p, m, quits), p, i)
  <1> DEFINE q == Deliver(p, m, quits)
  <1>1. /\ q \in LoopStates
        /\ q.left = p.left /\ q.parsed = p.parsed /\ q.open = p.open
        /\ q.out = Append(p.out, m) /\ q.stop = IF quits THEN "session" ELSE "no"
    BY DeliverIs
  <1> HIDE DEF q
  <1>2. p.out \in Seq(Seq(Nat))
    BY DEF LoopStates
  <1>3. FlattenSeq(q.out) \o << >> = DataFrames(sent, i)
    <2>1. FlattenSeq(q.out) = FlattenSeq(p.out) \o m
      BY <1>1, <1>2, FlattenOneMore
    <2>2. FlattenSeq(p.out) \in Seq(Nat)
      BY <1>2, FlattenType
    <2>3. FlattenSeq(p.out) \o m \in Seq(Nat)
      BY <2>2, ConcatFacts
    <2> QED
      BY <2>1, <2>3, ConcatFacts
  <1>4. Messages(q.out, << >>, i)
    <2>1. ToSet(q.out) = ToSet(p.out) \cup {m}
      BY <1>1, <1>2, ToSetAppend
    <2> QED
      BY <2>1 DEF Messages
  <1>5. Last(Last(q.out)) = i
    <2>1. Last(q.out) = m
      BY <1>1, <1>2 DEF Last
    <2> QED
      BY <2>1
  <1> QED
    BY <1>1, <1>3, <1>4, <1>5 DEF Handled, Made, q

LEMMA DataFrameAdded ==
  ASSUME NEW p, NEW i \in Nat \ {0}, Ready(p, i), sent[i].op \in {"binary", "continuation"}
  PROVE  /\ p.out \in Seq(Seq(Nat)) /\ FlattenSeq(p.out) \in Seq(Nat)
         /\ p.open.frames \in Seq(Nat) /\ p.open.count \in Nat /\ p.open.bytes \in Nat
         /\ FlattenSeq(p.out) \o Append(p.open.frames, i) = DataFrames(sent, i)
  <1>1. p.out \in Seq(Seq(Nat)) /\ p.open.frames \in Seq(Nat)
    BY DEF Ready, LoopStates
  <1>2. p.open.count \in Nat /\ p.open.bytes \in Nat
    BY DEF Ready, LoopStates
  <1>3. FlattenSeq(p.out) \in Seq(Nat)
    BY <1>1, FlattenType
  <1>4. FlattenSeq(p.out) \o Append(p.open.frames, i)
          = Append(FlattenSeq(p.out) \o p.open.frames, i)
    BY <1>1, <1>3, ConcatFacts
  <1>5. DataFrames(sent, i) = Append(DataFrames(sent, i - 1), i)
    BY DataFramesOneMore
  <1> QED
    BY <1>1, <1>2, <1>3, <1>4, <1>5 DEF Ready

LEMMA BinaryHandles ==
  ASSUME sent \in Seq(Frames), NEW i \in 1..Len(sent), NEW p, Ready(p, i),
         sent[i].op = "binary", NEW quits \in BOOLEAN
  PROVE  Handled(HandleBinary(p, sent[i], i, quits), p, i)
  <1> DEFINE f == sent[i]
             refused == p.open.frames # << >> \/ (~f.fin /\ OverContinuation(0, f.len))
  <1>1. f \in Frames /\ i \in Nat \ {0} /\ f.fin \in BOOLEAN /\ f.len \in Nat
    BY FrameFacts
  <1>2. p \in LoopStates /\ p.parsed = i /\ p.stop = "no" /\ Held(p.open)
        /\ Messages(p.out, p.open.frames, i)
    BY DEF Ready
  <1>3. /\ p.out \in Seq(Seq(Nat)) /\ FlattenSeq(p.out) \in Seq(Nat)
        /\ FlattenSeq(p.out) \o Append(p.open.frames, i) = DataFrames(sent, i)
    BY <1>1, DataFrameAdded
  <1>4. CASE refused
    BY <1>1, <1>4, StopHandles DEF HandleBinary
  <1>5. CASE ~refused
    <2>1. p.open.frames = << >> /\ Append(p.open.frames, i) = <<i>>
      <3>1. p.open.frames = << >>
        BY <1>5
      <3>2. Append(<< >>, i) = <<i>>
        OBVIOUS
      <3> QED
        BY <3>1, <3>2
    <2>2. <<i>> \in Seq(Nat) /\ Len(<<i>>) = 1 /\ <<i>>[1] = i /\ Last(<<i>>) = i
      BY <1>1 DEF Last
    <2>3. Shaped(<<i>>, i)
      BY <1>1, <2>2 DEF Shaped
    <2>4. CASE f.fin
      <3>1. HandleBinary(p, f, i, quits) = Deliver(p, <<i>>, quits)
        BY <1>5, <2>4 DEF HandleBinary
      <3>2. Ended(<<i>>)
        BY <2>2, <2>4 DEF Ended
      <3> HIDE DEF f
      <3> QED
        BY <1>1, <1>2, <1>3, <2>1, <2>2, <2>3, <3>1, <3>2, DeliverHandles DEF f
    <2>5. CASE ~f.fin
      <3> DEFINE o == Opened(<<i>>, 0, f.len)
                 q == Keeps(p, o)
      <3>1. HandleBinary(p, f, i, quits) = q
        BY <1>5, <2>5 DEF HandleBinary
      <3>2. /\ o.frames = <<i>> /\ o.count = 0 /\ o.bytes = f.len
            /\ q \in LoopStates
            /\ q.left = p.left /\ q.parsed = p.parsed /\ q.open = o
            /\ q.out = p.out /\ q.stop = p.stop
        <4>1. o \in OpenMessages /\ o.frames = <<i>> /\ o.count = 0 /\ o.bytes = f.len
          BY <1>1, <2>2 DEF OpenMessages, Opened
        <4> HIDE DEF o
        <4> QED
          BY <1>2, <4>1, KeepsIs
      <3>3. Unended(<<i>>)
        BY <2>2, <2>5 DEF Unended
      <3>4. Total(Lengths(<<i>>)) = f.len
        <4>1. Lengths(<<i>>) = [k \in 1..1 |-> f.len]
          BY <2>2 DEF Lengths
        <4>2. Len(Lengths(<<i>>)) = 1 /\ Lengths(<<i>>)[1] = f.len
          BY <4>1
        <4>3. Total(Lengths(<<i>>)) = Total(<< >>) + Lengths(<<i>>)[1]
          <5> DEFINE s == << >>
                     t == Lengths(<<i>>)
          <5>1. Len(s) \in Nat /\ Len(t) = Len(s) + 1 /\ Len(t) = 1
            BY <4>2
          <5>2. \A k \in 1..Len(s) : t[k] = s[k]
            OBVIOUS
          <5> HIDE DEF s, t
          <5>3. Total(t) = Total(s) + t[Len(t)]
            BY ONLY <5>1, <5>2, TotalOneMore
          <5> QED
            BY <5>1, <5>3 DEF s, t
        <4> QED
          BY <1>1, <4>2, <4>3, TotalEmpty
      <3>5. Held(o)
        <4>1. f.len <= MaxContinuationBytes /\ f.len <= MaxFrameBytes
          BY <1>1, <1>5, <2>5, Limits DEF OverContinuation
        <4> HIDE DEF o
        <4>2. o.bytes = Total(Lengths(o.frames)) /\ o.count = Len(o.frames) - 1
          BY <2>2, <3>2, <3>4
        <4>3. o.count <= MaxContinuationFrames
          BY <3>2, Limits
        <4> QED
          BY <3>2, <4>1, <4>2, <4>3 DEF Held
      <3>6. Messages(q.out, <<i>>, i)
        BY <1>2, <2>3, <3>2, <3>3 DEF Messages
      <3> HIDE DEF q, o
      <3> QED
        BY <1>2, <1>3, <2>1, <3>1, <3>2, <3>5, <3>6 DEF Handled, Made
    <2> QED
      BY <2>4, <2>5
  <1> QED
    BY <1>4, <1>5

LEMMA ContinuationHandles ==
  ASSUME sent \in Seq(Frames), NEW i \in 1..Len(sent), NEW p, Ready(p, i),
         sent[i].op = "continuation", NEW quits \in BOOLEAN
  PROVE  Handled(HandleContinuation(p, sent[i], i, quits), p, i)
  <1> DEFINE f == sent[i]
             m == p.open.frames
             w == Append(m, i)
             more == Opened(w, p.open.count + 1, p.open.bytes + f.len)
             refused == m = << >> \/ OverContinuation(more.count, more.bytes)
  <1>1. f \in Frames /\ i \in Nat \ {0} /\ f.fin \in BOOLEAN /\ f.len \in Nat
    BY FrameFacts
  <1>2. p \in LoopStates /\ p.parsed = i /\ p.stop = "no" /\ Held(p.open)
        /\ Messages(p.out, m, i)
    BY DEF Ready
  <1>3. /\ p.out \in Seq(Seq(Nat)) /\ FlattenSeq(p.out) \in Seq(Nat)
        /\ m \in Seq(Nat) /\ p.open.count \in Nat /\ p.open.bytes \in Nat
        /\ FlattenSeq(p.out) \o w = DataFrames(sent, i)
    BY <1>1, DataFrameAdded
  <1>4. CASE refused
    <2>1. HandleContinuation(p, f, i, quits) = Stopped(p, "error")
      BY <1>4 DEF HandleContinuation
    <2> QED
      BY <1>1, <2>1, StopHandles
  <1>5. CASE ~refused
    <2>1. /\ w \in Seq(Nat) /\ Len(w) = Len(m) + 1 /\ w[Len(m) + 1] = i
          /\ \A k \in 1..Len(m) : w[k] = m[k]
          /\ Len(m) \in Nat /\ Len(m) # 0
      <3>1. m \in Seq(Nat) /\ i \in Nat /\ m # << >>
        BY <1>1, <1>3, <1>5
      <3> HIDE DEF m, f
      <3> QED
        BY ONLY <3>1 DEF w
    <2>2. \A k \in 1..Len(w) : k \in 1..Len(m) \/ (k = Len(m) + 1 /\ k # 1)
      BY <2>1
    <2>3. Shaped(w, i)
      <3> HIDE DEF w, m
      <3> QED
        BY <1>1, <1>2, <2>1, <2>2 DEF Shaped, Messages
    <2>4. /\ more \in OpenMessages /\ more.frames = w
          /\ more.count = p.open.count + 1 /\ more.bytes = p.open.bytes + f.len
      <3> DEFINE count == p.open.count + 1
                 bytes == p.open.bytes + f.len
      <3>1. w \in Seq(Nat) /\ count \in Nat /\ bytes \in Nat
        <4> HIDE DEF w, m, f
        <4>1. f.len \in Nat /\ p.open.count \in Nat /\ p.open.bytes \in Nat
          BY <1>1, <1>3
        <4>2. count \in Nat /\ bytes \in Nat
          BY ONLY <4>1 DEF count, bytes
        <4>3. w \in Seq(Nat)
          BY <2>1
        <4> QED
          BY ONLY <4>2, <4>3
      <3> HIDE DEF w, count, bytes
      <3> DEFINE o == Opened(w, count, bytes)
      <3>2. /\ o \in OpenMessages /\ o.frames = w
            /\ o.count = count /\ o.bytes = bytes
        BY <3>1 DEF OpenMessages, Opened
      <3> QED
        BY ONLY <3>2 DEF o, more, w, m, count, bytes, f
    <2>5. CASE f.fin
      <3> DEFINE q == Keeps(p, NoMessage)
      <3>1. HandleContinuation(p, f, i, quits) = Deliver(q, w, quits)
        BY <1>5, <2>4, <2>5 DEF HandleContinuation
      <3>2. Ended(w)
        <4>1. Unended(m)
          BY <1>2 DEF Messages
        <4> HIDE DEF w, m
        <4>2. ASSUME NEW k \in 1..Len(w) PROVE sent[w[k]].fin <=> k = Len(w)
          <5>1. CASE k \in 1..Len(m)
            <6>1. ~sent[w[k]].fin
              BY <2>1, <4>1, <5>1 DEF Unended
            <6>2. k # Len(w)
              BY ONLY <2>1, <5>1
            <6> QED
              BY ONLY <6>1, <6>2
          <5>2. CASE k = Len(m) + 1
            <6>1. w[k] = i /\ k = Len(w)
              BY ONLY <2>1, <5>2
            <6> QED
              BY <2>5, <6>1
          <5> QED
            BY ONLY <2>2, <5>1, <5>2
        <4> QED
          BY ONLY <4>2 DEF Ended
      <3>3. Last(w) = i
        BY <2>1 DEF Last
      <3>4. NoMessage \in OpenMessages
        BY DEF NoMessage, Opened, OpenMessages
      <3>5. /\ q \in LoopStates /\ q.left = p.left /\ q.parsed = i
            /\ q.open = NoMessage /\ q.out = p.out
        BY <1>2, <3>4, KeepsIs
      <3>6. Messages(q.out, << >>, i)
        <4>1. Len(<< >>) = 0
          OBVIOUS
        <4> HIDE DEF q
        <4> QED
          BY <1>2, <3>5, <4>1 DEF Messages, Shaped, Unended
      <3>7. q.open.frames = << >> /\ Held(q.open)
        BY <3>5, NoMessageHeld
      <3> HIDE DEF q, w, f
      <3>8. Handled(Deliver(q, w, quits), q, i)
        BY <1>1, <1>3, <2>1, <2>3, <3>2, <3>3, <3>5, <3>6, <3>7, DeliverHandles
      <3>9. Handled(Deliver(q, w, quits), p, i)
        BY <3>5, <3>8 DEF Handled
      <3> QED
        BY <3>1, <3>9 DEF f
    <2>6. CASE ~f.fin
      <3> DEFINE q == Keeps(p, more)
      <3>1. HandleContinuation(p, f, i, quits) = q
        BY <1>5, <2>6 DEF HandleContinuation
      <3>2. /\ q \in LoopStates
            /\ q.left = p.left /\ q.parsed = p.parsed /\ q.open = more
            /\ q.out = p.out /\ q.stop = p.stop
        <4> HIDE DEF more
        <4> QED
          BY <1>2, <2>4, KeepsIs
      <3>3. Unended(w)
        <4> HIDE DEF w, m
        <4> QED
          BY <1>2, <2>1, <2>2, <2>6 DEF Messages, Unended
      <3>4. Total(Lengths(w)) = p.open.bytes + f.len
        <4> DEFINE s == Lengths(m)
                   t == Lengths(w)
        <4>1. /\ Len(s) = Len(m) /\ Len(t) = Len(m) + 1
              /\ \A k \in 1..Len(m) : s[k] = sent[m[k]].len
              /\ \A k \in 1..Len(m) + 1 : t[k] = sent[w[k]].len
          <5>1. DOMAIN m = 1..Len(m) /\ DOMAIN w = 1..(Len(m) + 1)
            BY <1>3, <2>1
          <5> HIDE DEF m, w
          <5> QED
            BY <2>1, <5>1 DEF Lengths
        <4>2. /\ Len(s) \in Nat /\ Len(t) = Len(s) + 1 /\ t[Len(t)] = f.len
              /\ \A k \in 1..Len(s) : t[k] = s[k]
          <5> HIDE DEF s, t, m, w
          <5> QED
            BY <2>1, <4>1
        <4>3. Total(t) = Total(s) + t[Len(t)]
          <5> HIDE DEF s, t
          <5> QED
            BY ONLY <4>2, TotalOneMore
        <4> HIDE DEF f
        <4> QED
          BY <1>2, <4>2, <4>3 DEF Held
      <3>5. Held(more)
        <4>1. more.bytes <= MaxContinuationBytes /\ more.bytes <= MaxFrameBytes
              /\ more.count <= MaxContinuationFrames
          <5>1. more.bytes \in Nat /\ more.count \in Nat
            BY <1>1, <1>3, <2>4
          <5> HIDE DEF more
          <5> QED
            BY <1>5, <5>1, Limits DEF OverContinuation
        <4>2. more.bytes = Total(Lengths(more.frames))
          BY <2>4, <3>4
        <4>3. more.count = Len(more.frames) - 1
          <5>1. p.open.count = Len(m) - 1
            BY <1>2, <1>5 DEF Held
          <5> HIDE DEF more, w, m
          <5> QED
            BY <2>1, <2>4, <5>1
        <4> HIDE DEF more
        <4> QED
          BY <4>1, <4>2, <4>3 DEF Held
      <3>6. Messages(q.out, w, i)
        BY <1>2, <2>3, <3>2, <3>3 DEF Messages
      <3> HIDE DEF q, more
      <3> QED
        BY <1>2, <1>3, <2>4, <3>1, <3>2, <3>5, <3>6 DEF Handled, Made
    <2> QED
      BY <2>5, <2>6
  <1> QED
    BY <1>4, <1>5

LEMMA FrameHandles ==
  ASSUME sent \in Seq(Frames), NEW i \in 1..Len(sent), NEW p, Ready(p, i), NEW quits \in BOOLEAN
  PROVE  Handled(HandleFrame(p, sent[i], i, quits), p, i)
  <1>1. i \in Nat \ {0}
    OBVIOUS
  <1>2. CASE sent[i].op = "binary"
    BY <1>2, BinaryHandles DEF HandleFrame
  <1>3. CASE sent[i].op = "continuation"
    BY <1>3, ContinuationHandles DEF HandleFrame
  <1>4. CASE sent[i].op \in {"ping", "pong"}
    BY <1>1, <1>4, ControlHandles DEF HandleFrame
  <1>5. CASE sent[i].op = "close"
    <2>1. HandleFrame(p, sent[i], i, quits) = Stopped(p, "close frame")
      BY <1>5 DEF HandleFrame
    <2> QED
      BY <1>1, <1>5, <2>1, ControlHandles
  <1>6. CASE sent[i].op \notin {"binary", "continuation", "ping", "pong", "close"}
    <2>1. HandleFrame(p, sent[i], i, quits) = Stopped(p, "error")
      BY <1>6 DEF HandleFrame
    <2> QED
      BY <1>1, <2>1, StopHandles
  <1> QED
    BY <1>2, <1>3, <1>4, <1>5, <1>6

-----------------------------------------------------------------------------
(* One turn of the loop, and all of them.                                  *)

LEMMA MessagesLater ==
  ASSUME NEW out, NEW m, NEW n \in Nat, NEW k \in Nat, n <= k, Messages(out, m, n)
  PROVE  Messages(out, m, k)
  <1>1. \A i \in 1..n : i \in 1..k
    OBVIOUS
  <1> QED
    BY <1>1 DEF Messages, Shaped

LEMMA BytesUpToType ==
  ASSUME sent \in Seq(Frames), NEW n \in 0..Len(sent)
  PROVE  BytesUpTo(n) \in Nat
  <1> DEFINE s == [k \in 1..n |-> FrameSize(sent[k])]
  <1>1. \A k \in 1..n : FrameSize(sent[k]) \in Nat
    BY FrameFacts
  <1>2. s \in Seq(Nat)
    BY <1>1
  <1> QED
    BY <1>2, TotalType DEF BytesUpTo

LEMMA BytesUpToOneMore ==
  ASSUME NEW i \in Nat \ {0}
  PROVE  BytesUpTo(i) = BytesUpTo(i - 1) + FrameSize(sent[i])
  <1> DEFINE s == [k \in 1..(i - 1) |-> FrameSize(sent[k])]
             t == [k \in 1..i |-> FrameSize(sent[k])]
  <1>1. /\ Len(s) \in Nat /\ Len(t) = Len(s) + 1 /\ t[Len(t)] = FrameSize(sent[i])
        /\ \A k \in 1..Len(s) : t[k] = s[k]
    OBVIOUS
  <1>2. BytesUpTo(i) = Total(t) /\ BytesUpTo(i - 1) = Total(s)
    BY DEF BytesUpTo
  <1> HIDE DEF s, t
  <1> QED
    BY <1>1, <1>2, TotalOneMore

\* What is true of the parser once k frames were gone through.
LoopInv(p, k) ==
  /\ p \in LoopStates /\ p.parsed <= k
  /\ p.stop = "no" => p.parsed = k
  /\ Made(p.out, p.open.frames, p.parsed, p.stop)
  /\ Held(p.open)
  /\ p.stop \in {"no", "wait"} => p.left <= BytesUpTo(Len(sent)) - BytesUpTo(p.parsed)
  /\ p.stop = "wait" => p.parsed < k /\ Waits(p.left, sent[p.parsed + 1])

LEMMA TurnKeeps ==
  ASSUME sent \in Seq(Frames), NEW i \in 1..Len(sent), NEW overBudget, NEW quitAt,
         NEW p, LoopInv(p, i - 1)
  PROVE  LoopInv(ParseFrame(p, i, overBudget, quitAt), i)
  <1> DEFINE f == sent[i]
             q == ParseFrame(p, i, overBudget, quitAt)
  <1> SUFFICES LoopInv(q, i)
    OBVIOUS
  <1>1. f \in Frames /\ i \in Nat \ {0} /\ i - 1 \in Nat /\ i - 1 <= i
    OBVIOUS
  <1>2. /\ f.header \in Nat /\ FrameSize(f) \in Nat /\ f.header <= FrameSize(f)
    BY <1>1, FrameFacts
  <1>3. p \in LoopStates /\ p.left \in Nat /\ p.parsed \in Nat
    BY DEF LoopInv, LoopStates
  <1>4. CASE p.stop # "no"
    <2>1. q = p
      BY <1>4 DEF ParseFrame
    <2>2. p.parsed <= i /\ (p.stop = "wait" => p.parsed < i)
      BY <1>1, <1>3 DEF LoopInv
    <2> QED
      BY <1>4, <2>1, <2>2 DEF LoopInv
  <1>5. CASE p.stop = "no"
    <2> DEFINE bad == BadHeader(f) \/ TooLong(f)
               r == Shift(p, i)
    <2>1. /\ p.parsed = i - 1 /\ Held(p.open)
          /\ FlattenSeq(p.out) \o p.open.frames = DataFrames(sent, i - 1)
          /\ Messages(p.out, p.open.frames, i - 1)
          /\ p.left <= BytesUpTo(Len(sent)) - BytesUpTo(i - 1)
      BY <1>5 DEF LoopInv, Made
    <2>2. "wait" \in Stops /\ "error" \in Stops
      BY DEF Stops
    <2>3. CASE p.left < FrameSize(f) /\ (p.left >= f.header => ~bad)
      <3>1. q = Stopped(p, "wait")
        BY <1>2, <1>3, <1>5, <2>3 DEF ParseFrame
      <3>2. Waits(p.left, f)
        BY <2>3 DEF Waits
      <3>3. (i - 1) + 1 = i /\ i - 1 < i
        BY <1>1
      <3>4. /\ q \in LoopStates /\ q.left = p.left /\ q.parsed = i - 1
            /\ q.open = p.open /\ q.out = p.out /\ q.stop = "wait"
        BY <1>3, <2>1, <2>2, <3>1, StoppedIs
      <3> HIDE DEF q
      <3>5. Made(q.out, q.open.frames, q.parsed, q.stop)
        BY <2>1, <3>4 DEF Made
      <3>6. Waits(q.left, sent[q.parsed + 1])
        BY <3>2, <3>3, <3>4
      <3>7. q.left <= BytesUpTo(Len(sent)) - BytesUpTo(q.parsed) /\ Held(q.open)
        BY <2>1, <3>4
      <3> QED
        BY <1>1, <3>3, <3>4, <3>5, <3>6, <3>7 DEF LoopInv
    <2>4. CASE p.left >= f.header /\ bad
      <3>1. q = Stopped(p, "error")
        BY <1>2, <1>3, <1>5, <2>4 DEF ParseFrame
      <3>2. /\ q \in LoopStates /\ q.left = p.left /\ q.parsed = i - 1
            /\ q.open = p.open /\ q.out = p.out /\ q.stop = "error"
        BY <1>3, <2>1, <2>2, <3>1, StoppedIs
      <3> HIDE DEF q
      <3>3. Made(q.out, q.open.frames, q.parsed, q.stop)
        BY <2>1, <3>2 DEF Made
      <3> QED
        BY <1>1, <2>1, <3>2, <3>3 DEF LoopInv
    <2>5. CASE p.left >= FrameSize(f) /\ ~bad
      <3>1. /\ r \in LoopStates /\ r.left = p.left - FrameSize(f) /\ r.parsed = i
            /\ r.open = p.open /\ r.out = p.out /\ r.stop = "no"
        BY <1>2, <1>3, <1>5, <2>5, ShiftIs
      <3>2. Messages(p.out, p.open.frames, i)
        BY <1>1, <2>1, MessagesLater
      <3>3. Ready(r, i)
        <4> HIDE DEF r
        <4> QED
          BY <2>1, <3>1, <3>2 DEF Ready
      <3>4. ~(p.left < f.header) /\ ~(p.left < FrameSize(f))
        BY <1>2, <1>3, <2>5
      <3>5. CASE i = overBudget
        <4>1. q = Stopped(r, "error")
          BY <1>5, <2>5, <3>4, <3>5 DEF ParseFrame
        <4>2. Handled(q, r, i) /\ q.stop = "error"
          <5> HIDE DEF q, r
          <5> QED
            BY <1>1, <2>2, <3>1, <3>3, <4>1, StopHandles, StoppedIs
        <4> HIDE DEF q, r
        <4> QED
          BY <1>1, <4>2 DEF Handled, LoopInv
      <3>6. CASE i # overBudget
        <4> DEFINE quits == i = quitAt
        <4>1. q = HandleFrame(r, f, i, quits)
          BY <1>5, <2>5, <3>4, <3>6 DEF ParseFrame
        <4>2. Handled(q, r, i)
          <5>1. quits \in BOOLEAN
            OBVIOUS
          <5> HIDE DEF q, r, quits
          <5> QED
            BY <3>3, <4>1, <5>1, FrameHandles
        <4>3. q.left <= BytesUpTo(Len(sent)) - BytesUpTo(i)
          <5>1. BytesUpTo(i) = BytesUpTo(i - 1) + FrameSize(f)
            BY <1>1, BytesUpToOneMore
          <5>2. BytesUpTo(i - 1) \in Nat /\ BytesUpTo(Len(sent)) \in Nat
            <6>1. i - 1 \in 0..Len(sent) /\ Len(sent) \in 0..Len(sent)
              OBVIOUS
            <6> QED
              BY <6>1, BytesUpToType
          <5>3. q.left = p.left - FrameSize(f)
            BY <3>1, <4>2 DEF Handled
          <5> HIDE DEF q, f
          <5> QED
            BY <1>2, <1>3, <2>1, <5>1, <5>2, <5>3
        <4> HIDE DEF q, r
        <4> QED
          BY <1>1, <4>2, <4>3 DEF Handled, LoopInv
      <3> QED
        BY <3>5, <3>6
    <2> QED
      BY <1>2, <1>3, <2>3, <2>4, <2>5
  <1> QED
    BY <1>4, <1>5

LEMMA LoopKeeps ==
  ASSUME sent \in Seq(Frames), parsed \in Nat, parsed <= Len(sent),
         NEW bytes, NEW overBudget, NEW quitAt, LoopInv(Start(bytes), parsed)
  PROVE  LoopInv(ParseFrames(bytes, overBudget, quitAt), Len(sent))
  <1> DEFINE n == Len(sent)
  <1>1. n \in Nat
    OBVIOUS
  <1>2. PICK g : /\ Turns(g, n, bytes, overBudget, quitAt)
                 /\ ParseFrames(bytes, overBudget, quitAt) = g[n]
    BY <1>1, ParseFramesIs
  <1> DEFINE T == {k \in parsed..n : ~LoopInv(g[k], k)}
  <1>3. T = {}
    <2> SUFFICES ASSUME T # {} PROVE FALSE
      OBVIOUS
    <2>1. T \subseteq Nat
      BY <1>1
    <2>2. PICK k \in T : \A m \in T : k <= m
      <3> HIDE DEF T
      <3> QED
        BY <2>1, LeastOf
    <2>3. k \in parsed..n /\ ~LoopInv(g[k], k)
      BY <2>2
    <2>4. k # parsed
      BY <1>2, <2>3 DEF Turns
    <2>5. k - 1 \in parsed..n /\ ~(k <= k - 1) /\ k \in 1..Len(sent)
      BY <2>3, <2>4
    <2>6. LoopInv(g[k - 1], k - 1)
      BY <2>2, <2>5
    <2>7. g[k] = ParseFrame(g[k - 1], k, overBudget, quitAt)
      BY <1>2, <2>3, <2>4 DEF Turns
    <2> QED
      BY <2>3, <2>5, <2>6, <2>7, TurnKeeps
  <1>4. n \in parsed..n
    BY <1>1
  <1> QED
    BY <1>2, <1>3, <1>4

-----------------------------------------------------------------------------
(* The invariant.                                                          *)

LEMMA InitInv == ParserInit => IInv
  <1> SUFFICES ASSUME ParserInit PROVE IInv
    OBVIOUS
  <1>1. Typed
    <2>1. /\ parserTimer \in BOOLEAN /\ closed \in BOOLEAN /\ finished \in BOOLEAN
      BY Zenon DEF ParserInit
    <2>2. /\ sent \in Seq(Frames) /\ fragment \in Seq(Nat) /\ delivered \in Seq(Seq(Nat))
          /\ parsed <= Len(sent)
      BY DEF ParserInit
    <2>3. /\ parsed \in Nat /\ inBuffer \in Nat /\ fragmentFrames \in Nat
          /\ fragmentBytes \in Nat /\ timerAge \in Nat /\ frameAge \in Nat
          /\ cause = "none"
      BY DEF ParserInit
    <2> QED
      BY <2>1, <2>2, <2>3 DEF Typed
  <1>2. Made(delivered, fragment, parsed, cause)
    <2>1. FlattenSeq(<< >>) \o << >> = DataFrames(sent, 0)
      BY FlattenEmpty, DataFramesNone
    <2>2. Len(<< >>) = 0
      OBVIOUS
    <2> QED
      BY <2>1, <2>2, ToSetEmpty DEF ParserInit, Made, Messages, Shaped, Unended
  <1>3. Held(Opened(fragment, fragmentFrames, fragmentBytes))
    BY NoMessageHeld DEF ParserInit, NoMessage
  <1>4. BufferInv
    <2>1. BytesUpTo(Len(sent)) = BytesUpTo(parsed)
      BY DEF ParserInit
    <2>2. sent \in Seq(Frames) /\ parsed \in 0..Len(sent)
      BY DEF ParserInit
    <2>3. BytesUpTo(parsed) \in Nat
      BY <2>2, BytesUpToType
    <2> QED
      BY <2>1, <2>3 DEF ParserInit, BufferInv
  <1>5. TimerInv
    BY Limits DEF ParserInit, TimerInv
  <1> QED
    BY <1>1, <1>2, <1>3, <1>4, <1>5 DEF ParserInit, IInv

\* Frames that are sent, and everything but a chunk, leave what was made.
LEMMA MadeStays ==
  ASSUME IInv, \A i \in 1..parsed : sent'[i] = sent[i], sent' \in Seq(Frames),
         parsed' = parsed, delivered' = delivered, UNCHANGED message,
         cause' = cause \/ (cause = "none" /\ cause' \in {"overflow", "deadline", "other"})
  PROVE  /\ Made(delivered, fragment, parsed, cause)'
         /\ Held(Opened(fragment, fragmentFrames, fragmentBytes))'
  <1>1. /\ Made(delivered, fragment, parsed, cause) /\ parsed \in Nat
        /\ fragment' = fragment /\ fragmentFrames' = fragmentFrames
        /\ fragmentBytes' = fragmentBytes
    BY DEF IInv, Typed, message
  <1>2. DataFrames(sent', parsed) = DataFrames(sent, parsed)
    BY <1>1, DataFramesSame
  <1>3. FlattenSeq(delivered) \o fragment = DataFrames(sent', parsed) \/ cause = "error"
    BY <1>1, <1>2 DEF Made
  <1>4. \A m \in ToSet(delivered) \cup {fragment} : \A k \in 1..Len(m) :
          /\ m[k] \in 1..parsed /\ sent'[m[k]] = sent[m[k]]
    BY <1>1 DEF Made, Messages, Shaped
  <1>5. Messages(delivered, fragment, parsed)'
    <2>1. ASSUME NEW m \in ToSet(delivered) \cup {fragment}, Shaped(m, parsed)
          PROVE  \A k \in 1..Len(m) :
                   m[k] \in 1..parsed /\ sent'[m[k]].op = IF k = 1 THEN "binary" ELSE "continuation"
      BY <1>4, <2>1 DEF Shaped
    <2>2. ASSUME NEW m \in ToSet(delivered), Ended(m)
          PROVE  \A k \in 1..Len(m) : sent'[m[k]].fin <=> k = Len(m)
      BY <1>4, <2>2 DEF Ended
    <2>3. Unended(fragment) => \A k \in 1..Len(fragment) : ~sent'[fragment[k]].fin
      BY <1>4 DEF Unended
    <2>4. /\ Shaped(fragment, parsed) /\ Unended(fragment)
          /\ \A w \in ToSet(delivered) : Shaped(w, parsed) /\ Ended(w)
      BY <1>1 DEF Made, Messages
    <2>5. Shaped(fragment, parsed)' /\ Unended(fragment)'
      BY <1>1, <2>1, <2>3, <2>4 DEF Shaped, Unended
    <2>6. \A w \in ToSet(delivered) : Shaped(w, parsed)' /\ Ended(w)'
      BY <1>1, <2>1, <2>2, <2>4 DEF Shaped, Ended
    <2> QED
      BY <1>1, <2>5, <2>6 DEF Messages
  <1>6. Made(delivered, fragment, parsed, cause)'
    <2>1. cause = "close frame" => sent'[parsed].op = "close"
      <3>1. parsed # 0 => sent'[parsed] = sent[parsed]
        BY <1>1
      <3> QED
        BY <1>1, <3>1 DEF Made
    <2> QED
      BY <1>1, <1>3, <1>5, <2>1 DEF Made
  <1>7. Lengths(fragment)' = Lengths(fragment)
    <2>1. fragment \in Seq(Nat)
      BY DEF IInv, Typed
    <2>2. \A k \in DOMAIN fragment : sent'[fragment[k]] = sent[fragment[k]]
      BY <1>4, <2>1
    <2> QED
      BY <1>1, <2>2 DEF Lengths
  <1>8. Held(Opened(fragment, fragmentFrames, fragmentBytes))'
    BY <1>1, <1>7 DEF IInv, Held, Opened
  <1> QED
    BY <1>6, <1>8

\* A connection that is closed holds nothing more.
LEMMA ClosedTimers ==
  ASSUME Typed, TimerInv, closed' = TRUE, parserTimer' = FALSE, frameAge' = frameAge
  PROVE  BufferInv' /\ TimerInv'
  BY DEF Typed, TimerInv, BufferInv

\* Whatever closes it but the parser leaves the frames alone.
LEMMA CloseInv ==
  ASSUME IInv, NEW why \in {"overflow", "deadline", "other"}, ~closed, CloseHere(why),
         UNCHANGED <<stream, message, frameAge, delivered>>
  PROVE  IInv'
  <1>1. /\ sent' = sent /\ parsed' = parsed /\ inBuffer' = inBuffer
        /\ frameAge' = frameAge /\ delivered' = delivered /\ UNCHANGED message
    BY DEF stream
  <1>2. /\ closed' = TRUE /\ finished' = TRUE /\ cause' = why
        /\ parserTimer' = FALSE /\ timerAge' = 0
    BY DEF CloseHere
  <1>3. Typed'
    BY <1>1, <1>2 DEF IInv, Typed, message
  <1>4. BufferInv' /\ TimerInv'
    BY <1>1, <1>2, ClosedTimers DEF IInv
  <1>5. /\ Made(delivered, fragment, parsed, cause)'
        /\ Held(Opened(fragment, fragmentFrames, fragmentBytes))'
    BY <1>1, <1>2, <1>3, MadeStays DEF IInv, Typed
  <1> QED
    BY <1>2, <1>3, <1>4, <1>5 DEF IInv

LEMMA SocketClosedInv == ASSUME IInv, SocketClosed PROVE IInv'
  <1>1. /\ sent' = sent /\ parsed' = parsed /\ inBuffer' = inBuffer
        /\ frameAge' = frameAge /\ delivered' = delivered /\ UNCHANGED message
    BY DEF SocketClosed, stream
  <1>2. /\ closed' = TRUE /\ finished' = TRUE /\ cause' = cause
        /\ parserTimer' = FALSE /\ timerAge' = 0
    BY DEF SocketClosed
  <1>3. Typed'
    BY <1>1, <1>2 DEF IInv, Typed, message
  <1>4. BufferInv' /\ TimerInv'
    BY <1>1, <1>2, ClosedTimers DEF IInv
  <1>5. /\ Made(delivered, fragment, parsed, cause)'
        /\ Held(Opened(fragment, fragmentFrames, fragmentBytes))'
    BY <1>1, <1>2, <1>3, MadeStays DEF IInv, Typed
  <1> QED
    BY <1>2, <1>3, <1>4, <1>5 DEF IInv

LEMMA ElapseInv == ASSUME IInv, ParserElapse PROVE IInv'
  <1>1. /\ sent' = sent /\ parsed' = parsed /\ inBuffer' = inBuffer
        /\ delivered' = delivered /\ UNCHANGED message
    BY DEF ParserElapse, stream
  <1>2. /\ closed' = closed /\ finished' = finished /\ cause' = cause
        /\ parserTimer' = parserTimer /\ ~closed /\ parserTimer
        /\ timerAge < ParserTimeout /\ timerAge' = timerAge + 1 /\ frameAge' = frameAge + 1
    BY DEF ParserElapse, closing
  <1>3. Typed'
    BY <1>1, <1>2 DEF IInv, Typed, message
  <1>4. TimerInv'
    BY <1>1, <1>2, Limits DEF IInv, Typed, TimerInv
  <1>5. BufferInv'
    BY <1>1, <1>2 DEF IInv, BufferInv, BytesUpTo, Waits
  <1>6. /\ Made(delivered, fragment, parsed, cause)'
        /\ Held(Opened(fragment, fragmentFrames, fragmentBytes))'
    BY <1>1, <1>2, <1>3, MadeStays DEF IInv, Typed
  <1> QED
    BY <1>2, <1>3, <1>4, <1>5, <1>6 DEF IInv

LEMMA BrowserSendsInv == ASSUME IInv, NEW f \in Frames, BrowserSends(f) PROVE IInv'
  <1>1. /\ sent' = Append(sent, f) /\ parsed' = parsed /\ inBuffer' = inBuffer
        /\ delivered' = delivered /\ UNCHANGED message
    BY DEF BrowserSends
  <1>2. /\ closed' = closed /\ finished' = finished /\ cause' = cause
        /\ parserTimer' = parserTimer /\ timerAge' = timerAge /\ frameAge' = frameAge
    BY DEF BrowserSends, closing, clocks
  <1>3. /\ sent \in Seq(Frames) /\ parsed \in Nat /\ parsed <= Len(sent) /\ inBuffer \in Nat
    BY DEF IInv, Typed
  <1>4. /\ sent' \in Seq(Frames) /\ Len(sent') = Len(sent) + 1
        /\ \A i \in 1..Len(sent) : sent'[i] = sent[i]
        /\ sent'[Len(sent) + 1] = f
    BY <1>1, <1>3
  <1>5. Typed'
    <2>1. parsed' <= Len(sent')
      BY <1>1, <1>3, <1>4
    <2> QED
      BY <1>1, <1>2, <1>3, <1>4, <2>1 DEF IInv, Typed, message
  <1>6. TimerInv'
    BY <1>1, <1>2 DEF IInv, TimerInv
  <1>7. BufferInv'
    <2>1. \A n \in 0..Len(sent) : BytesUpTo(n)' = BytesUpTo(n)
      <3> SUFFICES ASSUME NEW n \in 0..Len(sent) PROVE BytesUpTo(n)' = BytesUpTo(n)
        OBVIOUS
      <3>1. [i \in 1..n |-> FrameSize(sent'[i])] = [i \in 1..n |-> FrameSize(sent[i])]
        BY <1>4
      <3> QED
        BY <3>1 DEF BytesUpTo
    <2>2. BytesUpTo(Len(sent))' = BytesUpTo(Len(sent)) + FrameSize(f)
      <3> DEFINE s == [i \in 1..Len(sent) |-> FrameSize(sent[i])]
                 t == [i \in 1..(Len(sent) + 1) |-> FrameSize(sent'[i])]
      <3>1. /\ Len(s) \in Nat /\ Len(t) = Len(s) + 1 /\ t[Len(t)] = FrameSize(f)
            /\ \A k \in 1..Len(s) : t[k] = s[k]
        BY <1>3, <1>4
      <3>2. BytesUpTo(Len(sent)) = Total(s) /\ BytesUpTo(Len(sent))' = Total(t)
        BY <1>4 DEF BytesUpTo
      <3> HIDE DEF s, t
      <3> QED
        BY <3>1, <3>2, TotalOneMore
    <2>3. /\ BytesUpTo(parsed) \in Nat /\ BytesUpTo(Len(sent)) \in Nat
          /\ FrameSize(f) \in Nat
      <3>1. parsed \in 0..Len(sent) /\ Len(sent) \in 0..Len(sent)
        BY <1>3
      <3> QED
        BY <1>3, <3>1, BytesUpToType, FrameFacts
    <2>4. BytesUpTo(parsed)' = BytesUpTo(parsed)
      BY <1>1, <1>3, <2>1 DEF BytesUpTo
    <2>5. parsed < Len(sent) => sent'[parsed + 1] = sent[parsed + 1]
      BY <1>3, <1>4
    <2> QED
      BY <1>1, <1>2, <1>3, <1>4, <2>2, <2>3, <2>4, <2>5 DEF IInv, BufferInv, Waits
  <1>8. /\ Made(delivered, fragment, parsed, cause)'
        /\ Held(Opened(fragment, fragmentFrames, fragmentBytes))'
    <2>1. \A i \in 1..parsed : sent'[i] = sent[i]
      BY <1>3, <1>4
    <2> QED
      BY <1>1, <1>2, <1>4, <2>1, MadeStays
  <1> QED
    BY <1>2, <1>5, <1>6, <1>7, <1>8 DEF IInv

LEMMA StartInv ==
  ASSUME IInv, ~closed, NEW n \in Nat,
         inBuffer + n <= BytesUpTo(Len(sent)) - BytesUpTo(parsed)
  PROVE  LoopInv(Start(inBuffer + n), parsed)
  <1> DEFINE bytes == inBuffer + n
             o == Opened(fragment, fragmentFrames, fragmentBytes)
             p == Start(bytes)
  <1>1. /\ bytes \in Nat /\ parsed \in Nat /\ fragment \in Seq(Nat) /\ fragmentFrames \in Nat
        /\ fragmentBytes \in Nat /\ delivered \in Seq(Seq(Nat)) /\ cause = "none"
    BY DEF IInv, Typed
  <1>2. o \in [frames : Seq(Nat), count : Nat, bytes : Nat] /\ o.frames = fragment
    BY <1>1 DEF Opened
  <1>3. Held(o) /\ Made(delivered, fragment, parsed, "none")
    BY <1>1 DEF IInv
  <1>4. /\ p \in LoopStates /\ p.left = bytes /\ p.parsed = parsed /\ p.open = o
        /\ p.out = delivered /\ p.stop = "no"
    <2> HIDE DEF bytes, o
    <2>1. Start(bytes) = [left |-> bytes, parsed |-> parsed, open |-> o, out |-> delivered,
                          stop |-> "no"]
      BY DEF Start, o
    <2> QED
      BY <1>1, <1>2, <2>1 DEF LoopStates, Stops
  <1>5. Made(p.out, p.open.frames, p.parsed, p.stop)
    <2> HIDE DEF p, o
    <2> QED
      BY <1>2, <1>3, <1>4 DEF Made
  <1> SUFFICES LoopInv(p, parsed)
    OBVIOUS
  <1>6. p.left <= BytesUpTo(Len(sent)) - BytesUpTo(parsed)
    BY <1>4
  <1> HIDE DEF p, o
  <1> QED
    BY <1>1, <1>3, <1>4, <1>5, <1>6 DEF LoopInv

\* The buffer never holds more than the largest frame while one waits: the test
\* behind the loop of #parseFrames finds nothing.
LEMMA NeverOverfull ==
  ASSUME Typed, NEW p, LoopInv(p, Len(sent)), p.stop \in {"no", "wait"}
  PROVE  /\ p.left > 0 => p.stop = "wait"
         /\ ~Overfull(p, p.left > 0)
  <1>1. p.left \in Nat /\ Len(sent) \in Nat /\ p.parsed \in Nat /\ sent \in Seq(Frames)
    <2>1. p \in LoopStates /\ sent \in Seq(Frames)
      BY DEF LoopInv, Typed
    <2> QED
      BY <2>1 DEF LoopStates
  <1>2. CASE p.stop = "no"
    <2>1. p.parsed = Len(sent)
      BY <1>2 DEF LoopInv
    <2>2. BytesUpTo(Len(sent)) \in Nat
      <3>1. Len(sent) \in 0..Len(sent)
        BY <1>1
      <3> QED
        BY <1>1, <3>1, BytesUpToType
    <2>3. p.left <= BytesUpTo(Len(sent)) - BytesUpTo(Len(sent))
      BY <1>2, <2>1 DEF LoopInv
    <2>4. ~(p.left > 0)
      BY <1>1, <2>2, <2>3
    <2> QED
      BY <2>4 DEF Overfull
  <1>3. CASE p.stop = "wait"
    <2> DEFINE f == sent[p.parsed + 1]
    <2>1. p.parsed < Len(sent) /\ Waits(p.left, f)
      BY <1>3 DEF LoopInv
    <2>2. f \in Frames
      BY <1>1, <2>1
    <2>3. /\ f.header \in Nat /\ f.len \in Nat /\ f.header + MaskBytes <= MaxOverhead
      BY <2>2, FrameFacts
    <2> HIDE DEF f
    <2>4. p.left <= MaxFrameBytes + MaxOverhead
      <3>1. CASE p.left < f.header
        BY <1>1, <2>3, <3>1, Limits
      <3>2. CASE p.left >= f.header
        <4>1. p.left < f.header + MaskBytes + f.len /\ f.len <= MaxFrameBytes
          BY <2>1, <2>3, <3>2, Limits DEF Waits, TooLong, FrameSize
        <4> QED
          BY <1>1, <2>3, <4>1, Limits
      <3> QED
        BY <1>1, <2>3, <3>1, <3>2
    <2> QED
      BY <1>1, <1>3, <2>4, Limits DEF Overfull
  <1> QED
    BY <1>2, <1>3

LEMMA AfterLoopInv ==
  ASSUME IInv, ~closed, sent' = sent, NEW p, LoopInv(p, Len(sent)), AfterLoop(p)
  PROVE  IInv'
  <1> DEFINE waiting == p.left > 0 /\ p.stop \in {"no", "wait"}
             why == IF Overfull(p, waiting) THEN "error" ELSE p.stop
  <1>1. /\ Typed /\ TimerInv /\ cause = "none" /\ sent \in Seq(Frames) /\ Len(sent) \in Nat
    BY DEF IInv, Typed
  <1>2. /\ p \in LoopStates /\ p.parsed <= Len(sent) /\ p.left \in Nat /\ p.parsed \in Nat
        /\ p.open \in OpenMessages /\ p.out \in Seq(Seq(Nat)) /\ p.stop \in Stops
    <2>1. p \in LoopStates /\ p.parsed <= Len(sent)
      BY DEF LoopInv
    <2> QED
      BY <2>1 DEF LoopStates, OpenMessages
  <1>3. p.open.frames \in Seq(Nat) /\ p.open.count \in Nat /\ p.open.bytes \in Nat
    BY <1>2 DEF OpenMessages
  <1>4. /\ parsed' = p.parsed /\ inBuffer' = p.left
        /\ fragment' = p.open.frames /\ fragmentFrames' = p.open.count
        /\ fragmentBytes' = p.open.bytes /\ delivered' = p.out
        /\ frameAge' = IF waiting /\ p.parsed = parsed THEN frameAge ELSE 0
    BY DEF AfterLoop
  <1>5. /\ p.stop \in {"no", "wait"} => ~Overfull(p, p.left > 0) /\ (p.left > 0 => p.stop = "wait")
        /\ ~Overfull(p, FALSE)
    BY <1>1, NeverOverfull DEF Overfull
  <1>6. why = p.stop
    BY <1>5
  <1>7. \/ /\ p.stop \in {"no", "wait"} /\ SetParserDeadline(waiting)
           /\ closed' = closed /\ finished' = finished /\ cause' = "none"
        \/ /\ p.stop = "close frame" /\ closed' = TRUE /\ cause' = p.stop
           /\ parserTimer' = FALSE /\ timerAge' = 0 /\ finished' = finished
        \/ /\ p.stop \in {"session", "error"} /\ closed' = TRUE /\ finished' = TRUE
           /\ cause' = p.stop /\ parserTimer' = FALSE /\ timerAge' = 0
    <2> HIDE DEF waiting
    <2> QED
      BY <1>1, <1>6 DEF AfterLoop, closing, CloseHere, waiting
  <1> HIDE DEF waiting, why
  <1>8. /\ parserTimer' \in BOOLEAN /\ timerAge' \in Nat /\ frameAge' \in Nat
        /\ closed' \in BOOLEAN /\ finished' \in BOOLEAN
    <2>1. timerAge \in Nat /\ frameAge \in Nat /\ closed \in BOOLEAN /\ finished \in BOOLEAN
      BY <1>1 DEF Typed
    <2>2. frameAge' \in Nat
      BY <1>4, <2>1
    <2>3. timerAge' \in Nat
      <3>1. SetParserDeadline(waiting) => timerAge' = timerAge \/ timerAge' = 0
        BY Zenon DEF SetParserDeadline
      <3>2. SetParserDeadline(waiting) \/ timerAge' = 0
        BY <1>7, Zenon
      <3>3. timerAge' = timerAge \/ timerAge' = 0
        BY <3>1, <3>2, Zenon
      <3> QED
        BY <2>1, <3>3
    <2>4. parserTimer' \in BOOLEAN
      <3>1. waiting \in BOOLEAN
        BY DEF waiting
      <3> QED
        BY <1>7, <3>1, Zenon DEF SetParserDeadline
    <2> QED
      BY <1>7, <2>1, <2>2, <2>3, <2>4
  <1>9. Typed'
    BY <1>1, <1>2, <1>3, <1>4, <1>7, <1>8 DEF Typed
  <1>10. Made(delivered, fragment, parsed, cause)'
    <2>1. Made(p.out, p.open.frames, p.parsed, cause')
      BY <1>7 DEF LoopInv, Made
    <2> QED
      BY <1>4, <2>1 DEF Made, Messages, Shaped, Ended, Unended
  <1>11. Held(Opened(fragment, fragmentFrames, fragmentBytes))'
    <2>1. Held(p.open)
      BY DEF LoopInv
    <2>2. Lengths(fragment)' = Lengths(p.open.frames)
      BY <1>4 DEF Lengths
    <2> QED
      BY <1>4, <2>1, <2>2 DEF Held, Opened
  <1>12. BufferInv'
    <2> SUFFICES ASSUME ~closed' PROVE BufferInv'
      BY DEF BufferInv
    <2>1. p.stop \in {"no", "wait"}
      BY <1>7
    <2>2. /\ p.left <= BytesUpTo(Len(sent)) - BytesUpTo(p.parsed)
          /\ p.stop = "wait" => p.parsed < Len(sent) /\ Waits(p.left, sent[p.parsed + 1])
      BY <2>1 DEF LoopInv
    <2>3. /\ BytesUpTo(Len(sent))' = BytesUpTo(Len(sent))
          /\ BytesUpTo(parsed)' = BytesUpTo(p.parsed)
      BY <1>4 DEF BytesUpTo
    <2> QED
      BY <1>4, <1>5, <2>1, <2>2, <2>3 DEF BufferInv, Waits
  <1>13. TimerInv'
    <2>1. /\ timerAge \in Nat /\ frameAge \in Nat
          /\ frameAge <= ParserTimeout /\ ParserTimeout \in Nat
          /\ parserTimer => frameAge <= timerAge /\ timerAge <= ParserTimeout
          /\ ~parserTimer => frameAge = 0
      BY <1>1, Limits DEF Typed, TimerInv
    <2>2. CASE p.stop \in {"no", "wait"}
      <3>1. waiting <=> p.left > 0
        BY <2>2 DEF waiting
      <3>2. /\ parserTimer' <=> waiting
            /\ timerAge' = IF waiting /\ parserTimer THEN timerAge ELSE 0
            /\ closed' = closed
        <4>1. SetParserDeadline(waiting) /\ closed' = closed
          BY <1>7, <2>2
        <4> QED
          BY <4>1, Zenon DEF SetParserDeadline
      <3> QED
        BY <1>4, <2>1, <3>1, <3>2 DEF TimerInv
    <2>3. CASE p.stop \notin {"no", "wait"}
      <3>1. closed' /\ ~parserTimer' /\ frameAge' = 0
        BY <1>4, <1>7, <2>3 DEF waiting
      <3> QED
        BY <2>1, <3>1 DEF TimerInv
    <2> QED
      BY <2>2, <2>3
  <1> QED
    BY <1>7, <1>9, <1>10, <1>11, <1>12, <1>13 DEF IInv

LEMMA DataInv == ASSUME IInv, NEW n \in 1..InFlight, Data(n) PROVE IInv'
  <1>1. CASE CloseHere("overflow") /\ UNCHANGED <<stream, message, frameAge, delivered>>
    BY <1>1, CloseInv DEF Data
  <1>2. ASSUME NEW overBudget, NEW quitAt, UNCHANGED sent,
               AfterLoop(ParseFrames(inBuffer + n, overBudget, quitAt))
        PROVE  IInv'
    <2>1. /\ sent \in Seq(Frames) /\ parsed \in Nat /\ parsed <= Len(sent) /\ inBuffer \in Nat
      BY DEF IInv, Typed
    <2>2. BytesUpTo(parsed) \in Nat /\ BytesUpTo(Len(sent)) \in Nat
      <3>1. parsed \in 0..Len(sent) /\ Len(sent) \in 0..Len(sent)
        BY <2>1
      <3> QED
        BY <2>1, <3>1, BytesUpToType
    <2>3. n \in Nat /\ inBuffer + n <= BytesUpTo(Len(sent)) - BytesUpTo(parsed)
      BY <2>1, <2>2 DEF InFlight
    <2>4. ~closed
      BY DEF Data
    <2>5. LoopInv(Start(inBuffer + n), parsed)
      BY <2>3, <2>4, StartInv
    <2>6. LoopInv(ParseFrames(inBuffer + n, overBudget, quitAt), Len(sent))
      BY <2>1, <2>5, LoopKeeps
    <2> QED
      BY <1>2, <2>4, <2>6, AfterLoopInv
  <1> QED
    BY <1>1, <1>2 DEF Data

\* Every step keeps the invariant.
LEMMA NextInv == IInv /\ [ParserNext]_parserVars => IInv'
  <1> SUFFICES ASSUME IInv, [ParserNext]_parserVars PROVE IInv'
    OBVIOUS
  <1>1. ASSUME NEW f \in Frames, BrowserSends(f) PROVE IInv'
    BY <1>1, BrowserSendsInv
  <1>2. ASSUME NEW n \in 1..InFlight, Data(n) PROVE IInv'
    BY <1>2, DataInv
  <1>3. CASE ParserDeadline
    <2>1. ~closed
      BY <1>3 DEF ParserDeadline, IInv, TimerInv
    <2> QED
      BY <1>3, <2>1, CloseInv DEF ParserDeadline
  <1>4. CASE Close
    BY <1>4, CloseInv DEF Close
  <1>5. CASE SocketClosed
    BY <1>5, SocketClosedInv
  <1>6. CASE ParserElapse
    BY <1>6, ElapseInv
  <1>7. CASE UNCHANGED parserVars
    <2>1. /\ sent' = sent /\ parsed' = parsed /\ inBuffer' = inBuffer
          /\ delivered' = delivered /\ UNCHANGED message
          /\ closed' = closed /\ finished' = finished /\ cause' = cause
          /\ parserTimer' = parserTimer /\ timerAge' = timerAge /\ frameAge' = frameAge
      BY <1>7 DEF parserVars, stream, closing, clocks
    <2>2. Typed'
      BY <2>1 DEF IInv, Typed, message
    <2>3. TimerInv'
      BY <2>1 DEF IInv, TimerInv
    <2>4. BufferInv'
      BY <2>1 DEF IInv, BufferInv, BytesUpTo, Waits
    <2>5. /\ Made(delivered, fragment, parsed, cause)'
          /\ Held(Opened(fragment, fragmentFrames, fragmentBytes))'
      BY <2>1, <2>2, MadeStays DEF IInv, Typed
    <2> QED
      BY <2>1, <2>2, <2>3, <2>4, <2>5 DEF IInv
  <1> QED
    BY <1>1, <1>2, <1>3, <1>4, <1>5, <1>6, <1>7 DEF ParserNext

\* The invariant holds in every reachable state.
THEOREM InvariantHolds == ParserSpec => []IInv
  BY InitInv, NextInv, PTL DEF ParserSpec

\* However the frames are cut into chunks, the messages are the data frames in the
\* order they were sent, and the frame that closes the connection is the last one
\* handled (#handleFrame, #parseFrames).
THEOREM WholeMessages == ParserSpec => []MessagesWhole
  <1>1. IInv => MessagesWhole
    BY DEF IInv, Made, Messages, Shaped, Ended, Unended, MessagesWhole
  <1> QED
    BY <1>1, InvariantHolds, PTL

\* What an open connection holds is within the limits, and counted as it is
\* (#checkContinuationBudget, #checkContinuationBytes, #parseFrames, #onData).
THEOREM BoundedMemory == ParserSpec => []MemoryBounded
  <1>1. IInv => MemoryBounded
    <2> SUFFICES ASSUME IInv, ~closed PROVE MemoryBounded
      BY DEF MemoryBounded
    <2> DEFINE o == Opened(fragment, fragmentFrames, fragmentBytes)
    <2>1. o.frames = fragment /\ o.count = fragmentFrames /\ o.bytes = fragmentBytes
      BY DEF Opened
    <2>2. Held(o) /\ BufferInv
      BY DEF IInv
    <2>3. Lengths(fragment) = [k \in DOMAIN fragment |-> sent[fragment[k]].len]
      BY DEF Lengths
    <2> HIDE DEF o
    <2>4. /\ fragmentBytes = Total([k \in DOMAIN fragment |-> sent[fragment[k]].len])
          /\ fragmentBytes <= MaxContinuationBytes /\ fragmentBytes <= MaxFrameBytes
          /\ fragmentFrames <= MaxContinuationFrames
          /\ fragment # << >> => fragmentFrames = Len(fragment) - 1
      BY <2>1, <2>2, <2>3 DEF Held
    <2>5. ASSUME inBuffer > 0
          PROVE  LET f == sent[parsed + 1]
                 IN  /\ inBuffer < FrameSize(f)
                     /\ inBuffer >= f.header => f.valid /\ f.len <= MaxFrameBytes
      <3> DEFINE f == sent[parsed + 1]
      <3>1. parsed < Len(sent) /\ Waits(inBuffer, f)
        BY <2>2, <2>5 DEF BufferInv
      <3>2. f \in Frames /\ f.len \in Nat
        <4>1. sent \in Seq(Frames) /\ parsed \in Nat
          BY DEF IInv, Typed
        <4>2. f \in Frames
          BY <3>1, <4>1
        <4> QED
          BY <4>2, FrameFacts
      <3> HIDE DEF f
      <3> QED
        BY <3>1, <3>2, Limits DEF Waits, BadHeader, TooLong, f
    <2> QED
      BY <2>4, <2>5 DEF MemoryBounded
  <1> QED
    BY <1>1, InvariantHolds, PTL

\* The deadline runs exactly while an open connection waits (#setParserDeadline).
THEOREM DeadlineRuns == ParserSpec => []DeadlineWhileWaiting
  <1>1. IInv => DeadlineWhileWaiting
    BY DEF IInv, TimerInv, DeadlineWhileWaiting
  <1> QED
    BY <1>1, InvariantHolds, PTL

\* No frame stays incomplete for longer than the deadline (gateway.ts:774).
THEOREM NoneOverstays == ParserSpec => []NoFrameOverstays
  <1>1. IInv => NoFrameOverstays
    BY DEF IInv, TimerInv, NoFrameOverstays
  <1> QED
    BY <1>1, InvariantHolds, PTL

=============================================================================
