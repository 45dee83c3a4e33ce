----------------------------- MODULE RateBudget -----------------------------
(***************************************************************************)
(* The per-second budgets of server/gateway.ts: RateLimiter (messages and  *)
(* bytes of a session, in either direction) and FrameBudget (frames and    *)
(* control frames of a WebSocket).  Both count in fixed windows that start *)
(* with the first use after the last one ended, and both have two          *)
(* counters: one counts the uses, the other adds up a weight, the bytes of *)
(* a message or 1 for a control frame and 0 for another frame.  A refusal  *)
(* is the last use, since it closes the session.                           *)
(*                                                                         *)
(* Date.now() is taken to advance with time; the code does not guard       *)
(* against a clock that is set back or forward.                            *)
(***************************************************************************)
EXTENDS Integers, Sequences

CONSTANTS
  Window,      \* 1000 ms, in steps of the clock
  MaxUses,     \* maxMessagesPerSecond, maxFramesPerSecond
  MaxWeight,   \* maxBytesPerSecond, maxControlFramesPerSecond
  Weights,     \* the weights a use may have
  MaxTime      \* bound: steps of the clock

ASSUME BudgetAssumption ==
  /\ Window \in Nat \ {0} /\ MaxUses \in Nat \ {0} /\ MaxWeight \in Nat \ {0}
  /\ Weights \subseteq Nat /\ MaxTime \in Nat

VARIABLES
  now, windowStarted,
  uses, weight,      \* messages and bytes, or frames and controlFrames
  refused,           \* weight of the use that was refused, -1 if none was
  log                \* history: the uses that were granted, with the weight up to each

budgetVars == <<now, windowStarted, uses, weight, refused, log>>

BudgetInit ==
  /\ now = 0 /\ windowStarted = 0
  /\ uses = 0 /\ weight = 0 /\ refused = -1 /\ log = << >>

BudgetElapse ==
  /\ now < MaxTime /\ refused = -1
  /\ now' = now + 1
  /\ UNCHANGED <<windowStarted, uses, weight, refused, log>>

Expired == now - windowStarted >= Window

\* Mutated form of Counts: the new window is not remembered as started.
CountsKeepStart ==
  IF Expired THEN [start |-> windowStarted, uses |-> 0, weight |-> 0]
             ELSE [start |-> windowStarted, uses |-> uses, weight |-> weight]

\* The counters as a use finds them: reset when their window is over.
Counts ==
  IF Expired THEN [start |-> now, uses |-> 0, weight |-> 0]
             ELSE [start |-> windowStarted, uses |-> uses, weight |-> weight]

\* The weight of the first i uses.
TotalOf(s, i) == IF i = 0 THEN 0 ELSE s[i].total

Granted(w) == Counts.uses + 1 <= MaxUses /\ Counts.weight + w <= MaxWeight

\* consume().
Consume(w) ==
  /\ refused = -1
  /\ windowStarted' = Counts.start
  /\ IF Granted(w)
       THEN /\ uses' = Counts.uses + 1 /\ weight' = Counts.weight + w
            /\ log' = Append(log, [at |-> now, total |-> TotalOf(log, Len(log)) + w])
            /\ UNCHANGED refused
       ELSE /\ uses' = Counts.uses /\ weight' = Counts.weight
            /\ refused' = w
            /\ UNCHANGED log
  /\ UNCHANGED now

BudgetNext == BudgetElapse \/ \E w \in Weights : Consume(w)

BudgetSpec == BudgetInit /\ [][BudgetNext]_budgetVars

-----------------------------------------------------------------------------
(* Properties.                                                             *)

\* The type invariant; the counters stay within their limits.
BudgetTypeOK ==
  /\ now \in 0..MaxTime /\ windowStarted \in 0..now
  /\ uses \in 0..MaxUses /\ weight \in 0..MaxWeight
  /\ refused \in Weights \cup {-1}
  /\ log \in Seq([at : Nat, total : Nat])

\* Fixed windows let through at most twice the limit in any second, which is
\* what a session has to be able to take (RateLimiter, FrameBudget): of uses
\* less than a second apart, and of what they weigh together.
SlidingBound ==
  \A i, j \in DOMAIN log :
    i <= j /\ log[j].at - log[i].at < Window =>
      /\ j - i + 1 <= 2 * MaxUses
      /\ TotalOf(log, j) - TotalOf(log, i - 1) <= 2 * MaxWeight
=============================================================================
