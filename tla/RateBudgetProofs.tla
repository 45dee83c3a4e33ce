-------------------------- MODULE RateBudgetProofs --------------------------
(***************************************************************************)
(* Proofs about RateBudget: for any limits, weights and times, the uses of *)
(* any second stay within twice the limits.  What a counter forgets when   *)
(* its window ends is kept by the invariant: the uses before the current   *)
(* window are those of one earlier window, within the limits, and older    *)
(* ones that are a whole window away.                                      *)
(***************************************************************************)
EXTENDS RateBudget, SequenceTheorems, TLAPS

\* How many uses came before the counters' window.
Past == Len(log) - uses

\* The history is in the order of time, and its totals only grow.
Ordered ==
  /\ \A i \in DOMAIN log : log[i].at <= now
  /\ \A i, j \in 0 .. Len(log) : i <= j => TotalOf(log, i) <= TotalOf(log, j)

\* The counters are those of the last uses, all others came before the window.
Counted ==
  /\ Past \in 0 .. Len(log)
  /\ TotalOf(log, Len(log)) - TotalOf(log, Past) = weight
  /\ \A i \in 1 .. Past : log[i].at <= windowStarted

\* The uses before the window are one more window's, and older ones.
OneWindowBack ==
  \E older \in 0 .. Past :
    /\ Past - older <= MaxUses
    /\ TotalOf(log, Past) - TotalOf(log, older) <= MaxWeight
    /\ \A i \in 1 .. older : log[i].at + Window <= windowStarted

IInv == BudgetTypeOK /\ Ordered /\ Counted /\ OneWindowBack /\ SlidingBound

LEMMA Constants ==
  /\ Window \in Nat /\ Window > 0 /\ MaxUses \in Nat /\ MaxUses > 0
  /\ MaxWeight \in Nat /\ MaxWeight > 0 /\ Weights \subseteq Nat /\ MaxTime \in Nat
BY BudgetAssumption DEF BudgetAssumption

LEMMA Entries ==
  ASSUME BudgetTypeOK
  PROVE  \A i \in 1 .. Len(log) : log[i].at \in Nat /\ log[i].total \in Nat
<1> SUFFICES ASSUME NEW i \in 1 .. Len(log) PROVE log[i] \in [at : Nat, total : Nat]
  OBVIOUS
<1>1. log \in Seq([at : Nat, total : Nat])
  BY DEF BudgetTypeOK
<1> QED  BY <1>1, ElementOfSeq

LEMMA Totals == ASSUME BudgetTypeOK, NEW i \in 0 .. Len(log) PROVE TotalOf(log, i) \in Nat
<1>1. Len(log) \in Nat
  BY DEF BudgetTypeOK
<1> QED  BY <1>1, Entries DEF TotalOf

LEMMA Initially == BudgetInit => IInv
<1> SUFFICES ASSUME BudgetInit PROVE IInv
  OBVIOUS
<1>1. BudgetTypeOK
  BY Constants DEF BudgetInit, BudgetTypeOK
<1>2. Len(log) = 0 /\ DOMAIN log = {} /\ uses = 0 /\ weight = 0
  BY DEF BudgetInit
<1>3. Ordered /\ Counted /\ SlidingBound
  BY <1>2 DEF Ordered, Counted, Past, SlidingBound, TotalOf
<1>4. OneWindowBack
  <2>1. 0 \in 0 .. Past /\ Past = 0
    BY <1>2 DEF Past
  <2> QED  BY <1>2, <2>1, Constants DEF OneWindowBack, TotalOf
<1> QED  BY <1>1, <1>3, <1>4 DEF IInv

\* A use finds the counters as they are, or reset: in both cases the uses that
\* they count, and those of one window before, lie behind a whole window.
LEMMA CountsFit ==
  ASSUME IInv
  PROVE  /\ Counts.start \in windowStarted .. now
         /\ Counts.uses \in 0 .. MaxUses /\ Counts.weight \in 0 .. MaxWeight
         /\ Counts.uses \in 0 .. Len(log)
         /\ TotalOf(log, Len(log)) - TotalOf(log, Len(log) - Counts.uses) = Counts.weight
         /\ \A i \in 1 .. Len(log) - Counts.uses : log[i].at <= Counts.start
         /\ \E older \in 0 .. Len(log) - Counts.uses :
              /\ Len(log) - Counts.uses - older <= MaxUses
              /\ TotalOf(log, Len(log) - Counts.uses) - TotalOf(log, older) <= MaxWeight
              /\ \A i \in 1 .. older : log[i].at + Window <= Counts.start
<1> USE Constants
<1>1. CASE ~Expired
  <2>1. Counts = [start |-> windowStarted, uses |-> uses, weight |-> weight]
    BY <1>1 DEF Counts
  <2>2. Len(log) \in Nat
    BY DEF IInv, BudgetTypeOK
  <2> QED  BY <2>1, <2>2 DEF IInv, BudgetTypeOK, Counted, OneWindowBack, Past
<1>2. CASE Expired
  <2>1. Counts = [start |-> now, uses |-> 0, weight |-> 0]
    BY <1>2 DEF Counts
  <2>2. Len(log) \in Nat /\ now \in Nat /\ windowStarted \in 0 .. now /\ windowStarted + Window <= now
    BY <1>2 DEF IInv, BudgetTypeOK, Expired
  <2>3. \A i \in 1 .. Len(log) : log[i].at <= now /\ log[i].at \in Nat
    <3>1. DOMAIN log = 1 .. Len(log)
      BY DEF IInv, BudgetTypeOK
    <3> QED  BY <3>1, Entries DEF IInv, Ordered
  <2>4. Past \in 0 .. Len(log) /\ Len(log) - Past <= MaxUses
    BY <2>2 DEF IInv, BudgetTypeOK, Counted, Past
  <2>5. TotalOf(log, Len(log)) - TotalOf(log, Past) <= MaxWeight
    BY DEF IInv, BudgetTypeOK, Counted
  <2>6. \A i \in 1 .. Past : log[i].at + Window <= now
    BY <2>2, <2>3, <2>4 DEF IInv, Counted
  <2>7. TotalOf(log, Len(log)) \in Nat
    BY <2>2, Totals DEF IInv
  <2> QED  BY <2>1, <2>2, <2>3, <2>4, <2>5, <2>6, <2>7
<1> QED  BY <1>1, <1>2

\* A use that is refused changes the counters at most.
LEMMA RefusedStep ==
  ASSUME IInv, NEW w \in Weights, Consume(w), ~Granted(w)
  PROVE  IInv'
<1> USE Constants
<1>1. /\ windowStarted' = Counts.start /\ uses' = Counts.uses /\ weight' = Counts.weight
      /\ log' = log /\ now' = now /\ refused' = w
  BY DEF Consume
<1>2. BudgetTypeOK'
  BY <1>1, CountsFit DEF IInv, BudgetTypeOK
<1>3. Past' = Len(log) - Counts.uses /\ \A i : TotalOf(log', i) = TotalOf(log, i)
  BY <1>1 DEF Past, TotalOf
<1>4. Len(log) \in Nat
  BY DEF IInv, BudgetTypeOK
<1>5. Counted' /\ OneWindowBack'
  BY <1>1, <1>3, <1>4, CountsFit DEF Counted, OneWindowBack
<1>6. Ordered' /\ SlidingBound'
  BY <1>1, <1>3 DEF IInv, Ordered, SlidingBound
<1> QED  BY <1>2, <1>5, <1>6 DEF IInv

LEMMA GrantedStep ==
  ASSUME IInv, NEW w \in Weights, Consume(w), Granted(w)
  PROVE  IInv'
<1> DEFINE n == Len(log)
           c == Counts
           past == n - c.uses
<1> USE Constants
<1>1. /\ windowStarted' = c.start /\ uses' = c.uses + 1 /\ weight' = c.weight + w
      /\ log' = Append(log, [at |-> now, total |-> TotalOf(log, n) + w]) /\ now' = now
      /\ refused' = refused
  BY DEF Consume
<1>2. n \in Nat /\ w \in Nat /\ log \in Seq([at : Nat, total : Nat]) /\ now \in Nat
  BY DEF IInv, BudgetTypeOK
<1>3. \A i \in 0 .. n : TotalOf(log, i) \in Nat
  BY Totals DEF IInv
<1>4. c.uses + 1 <= MaxUses /\ c.weight + w <= MaxWeight
  BY DEF Granted
<1>5. /\ Len(log') = n + 1 /\ DOMAIN log' = 1 .. n + 1 /\ DOMAIN log = 1 .. n
      /\ \A i \in 1 .. n : log'[i] = log[i]
      /\ log'[n + 1] = [at |-> now, total |-> TotalOf(log, n) + w]
  BY <1>1, <1>2
<1>6. /\ \A i \in 0 .. n : TotalOf(log', i) = TotalOf(log, i)
      /\ TotalOf(log', n + 1) = TotalOf(log, n) + w
  BY <1>2, <1>5 DEF TotalOf
<1>7. /\ c.start \in windowStarted .. now /\ windowStarted \in Nat
      /\ c.uses \in Nat /\ c.uses <= n /\ c.weight \in Nat /\ past \in 0 .. n
  BY <1>2, CountsFit DEF IInv, BudgetTypeOK
<1>8. TotalOf(log, n) - TotalOf(log, past) = c.weight /\ \A i \in 1 .. past : log[i].at <= c.start
  BY CountsFit
<1>9. PICK older \in 0 .. past :
        /\ past - older <= MaxUses
        /\ TotalOf(log, past) - TotalOf(log, older) <= MaxWeight
        /\ \A i \in 1 .. older : log[i].at + Window <= c.start
  BY CountsFit
<1>10. Past' = past
  <2>1. Len(log') = n + 1 /\ uses' = c.uses + 1 /\ n \in Nat /\ c.uses \in Nat
    BY <1>1, <1>2, <1>5, <1>7
  <2> HIDE DEF n, c
  <2>2. Len(log') - uses' = n - c.uses
    BY <2>1
  <2> QED  BY <2>2 DEF Past
<1>11. /\ \A i \in 1 .. n : log[i].at \in Nat /\ log[i].at <= now
       /\ \A i, j \in 0 .. n : i <= j => TotalOf(log, i) <= TotalOf(log, j)
       /\ \A i, j \in 1 .. n :
            i <= j /\ log[j].at - log[i].at < Window =>
              j - i + 1 <= 2 * MaxUses /\ TotalOf(log, j) - TotalOf(log, i - 1) <= 2 * MaxWeight
  <2>1. \A i \in 1 .. n : log[i].at \in Nat /\ log[i].at <= now
    BY Entries, <1>5 DEF IInv, Ordered
  <2>2. \A i, j \in 0 .. n : i <= j => TotalOf(log, i) <= TotalOf(log, j)
    BY DEF IInv, Ordered
  <2>3. \A i, j \in 1 .. n :
          i <= j /\ log[j].at - log[i].at < Window =>
            j - i + 1 <= 2 * MaxUses /\ TotalOf(log, j) - TotalOf(log, i - 1) <= 2 * MaxWeight
    <3>1. SlidingBound
      BY DEF IInv
    <3> QED  BY <3>1, <1>5 DEF SlidingBound
  <2> QED  BY <2>1, <2>2, <2>3
<1>12. BudgetTypeOK'
  <2>1. [at |-> now, total |-> TotalOf(log, n) + w] \in [at : Nat, total : Nat]
    <3>1. TotalOf(log, n) + w \in Nat
      BY <1>2, <1>3
    <3> QED  BY <3>1, <1>2
  <2>2. log' \in Seq([at : Nat, total : Nat])
    BY <1>1, <1>2, <2>1, AppendProperties
  <2>3. now' \in 0 .. MaxTime /\ windowStarted' \in 0 .. now' /\ refused' \in Weights \cup {-1}
    BY <1>1, <1>2, <1>7 DEF IInv, BudgetTypeOK
  <2>4. uses' \in 0 .. MaxUses /\ weight' \in 0 .. MaxWeight
    BY <1>1, <1>2, <1>4, <1>7, SMTT(60)
  <2> QED  BY <2>2, <2>3, <2>4 DEF BudgetTypeOK
<1> HIDE DEF n, c, past
<1>13. Ordered'
  <2>1. \A i \in DOMAIN log' : log'[i].at <= now'
    BY <1>1, <1>2, <1>5, <1>11
  <2>2. \A i, j \in 0 .. n + 1 : i <= j => TotalOf(log', i) <= TotalOf(log', j)
    BY <1>2, <1>3, <1>6, <1>11
  <2> QED  BY <2>1, <2>2, <1>5 DEF Ordered
<1>14. Counted'
  <2>1. TotalOf(log', Len(log')) - TotalOf(log', Past') = weight'
    BY <1>1, <1>2, <1>3, <1>5, <1>6, <1>7, <1>8, <1>10
  <2>2. \A i \in 1 .. Past' : log'[i].at <= windowStarted'
    BY <1>1, <1>2, <1>5, <1>7, <1>8, <1>10, SMTT(60)
  <2> QED  BY <2>1, <2>2, <1>2, <1>5, <1>7, <1>10 DEF Counted
<1>15. OneWindowBack'
  <2>1. TotalOf(log', Past') = TotalOf(log, past) /\ TotalOf(log', older) = TotalOf(log, older)
    BY <1>2, <1>6, <1>7, <1>10
  <2>2. \A i \in 1 .. older : log'[i].at + Window <= windowStarted'
    BY <1>1, <1>2, <1>5, <1>7, <1>9
  <2> QED  BY <2>1, <2>2, <1>9, <1>10 DEF OneWindowBack
<1>16. SlidingBound'
  <2> SUFFICES ASSUME NEW i \in 1 .. n + 1, NEW j \in 1 .. n + 1,
                      i <= j, log'[j].at - log'[i].at < Window
               PROVE  /\ j - i + 1 <= 2 * MaxUses
                      /\ TotalOf(log', j) - TotalOf(log', i - 1) <= 2 * MaxWeight
    BY <1>5 DEF SlidingBound
  <2>1. CASE j \in 1 .. n
    <3>1. i \in 1 .. n /\ log'[j] = log[j] /\ log'[i] = log[i]
      BY <2>1, <1>2, <1>5
    <3>2. TotalOf(log', j) = TotalOf(log, j) /\ TotalOf(log', i - 1) = TotalOf(log, i - 1)
      BY <2>1, <3>1, <1>2, <1>6
    <3> QED  BY <2>1, <3>1, <3>2, <1>11
  <2>2. CASE j = n + 1
    <3>1. i > older
      <4> SUFFICES ASSUME i \in 1 .. older PROVE FALSE
        BY <1>2, <1>7
      <4>1. log[i].at + Window <= c.start /\ c.start <= now /\ c.start \in Nat
        BY <1>7, <1>9
      <4>2. log'[i] = log[i] /\ log[i].at \in Nat /\ log'[j].at = now
        BY <2>2, <1>2, <1>5, <1>7, <1>11
      <4> QED  BY <4>1, <4>2, <1>2, SMTT(60)
    <3>2. TotalOf(log, older) <= TotalOf(log, i - 1)
      BY <3>1, <1>2, <1>7, <1>11
    <3>3. TotalOf(log', j) = TotalOf(log, n) + w /\ TotalOf(log', i - 1) = TotalOf(log, i - 1)
      BY <2>2, <1>2, <1>6
    <3>4. TotalOf(log, i - 1) \in Nat /\ TotalOf(log, older) \in Nat
          /\ TotalOf(log, n) \in Nat /\ TotalOf(log, past) \in Nat
      BY <1>2, <1>3, <1>7
    <3>5. TotalOf(log', j) - TotalOf(log', i - 1) <= 2 * MaxWeight
      BY <3>2, <3>3, <3>4, <1>2, <1>4, <1>7, <1>8, <1>9, SMTT(60)
    <3>6. past = n - c.uses
      BY DEF past
    <3>7. j - i + 1 <= 2 * MaxUses
      BY <2>2, <3>1, <3>6, <1>2, <1>4, <1>7, <1>9, SMTT(60)
    <3> QED  BY <3>5, <3>7
  <2> QED  BY <2>1, <2>2, <1>2
<1> QED  BY <1>12, <1>13, <1>14, <1>15, <1>16 DEF IInv

LEMMA NextStep == IInv /\ [BudgetNext]_budgetVars => IInv'
<1> SUFFICES ASSUME IInv, [BudgetNext]_budgetVars PROVE IInv'
  OBVIOUS
<1> USE Constants
<1>1. CASE BudgetElapse
  <2>1. BudgetTypeOK'
    BY <1>1 DEF BudgetElapse, IInv, BudgetTypeOK
  <2>2. Ordered'
    <3>1. DOMAIN log = 1 .. Len(log)
      BY DEF IInv, BudgetTypeOK
    <3> QED  BY <1>1, <3>1, Entries DEF BudgetElapse, IInv, BudgetTypeOK, Ordered
  <2>3. Counted' /\ OneWindowBack' /\ SlidingBound'
    BY <1>1 DEF BudgetElapse, IInv, Counted, OneWindowBack, SlidingBound, TotalOf, Past
  <2> QED  BY <2>1, <2>2, <2>3 DEF IInv
<1>2. ASSUME NEW w \in Weights, Consume(w) PROVE IInv'
  BY <1>2, RefusedStep, GrantedStep
<1>3. CASE UNCHANGED budgetVars
  BY <1>3 DEF budgetVars, IInv, BudgetTypeOK, Ordered, Counted, OneWindowBack, SlidingBound, TotalOf, Past
<1> QED  BY <1>1, <1>2, <1>3 DEF BudgetNext

\* The inductive invariant holds of both budgets, for any limits and weights.
THEOREM BudgetInvariant == BudgetSpec => []IInv
<1> QED  BY Initially, NextStep, PTL DEF BudgetSpec

\* No second lets more than twice the limits through, at any rate of uses.
THEOREM SlidingHolds == BudgetSpec => []SlidingBound
<1>1. IInv => SlidingBound
  BY DEF IInv
<1> QED  BY <1>1, BudgetInvariant, PTL
=============================================================================
