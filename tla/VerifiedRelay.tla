--------------------------- MODULE VerifiedRelay ---------------------------
(***************************************************************************)
(* What a bridge session promises to the two ends of the client-to-target  *)
(* direction: a first-in first-out channel behind a gate.  The gate opens  *)
(* once, and only towards a genuine target; what was taken before is       *)
(* delivered when it opens.  The session may end at any time: if it ends   *)
(* while a genuine target's gate opens, a first part of the held payloads  *)
(* may have been delivered.                                                *)
(***************************************************************************)
EXTENDS Integers, Sequences

CONSTANT Payloads

VARIABLES
  phase,      \* "held", "open" or "ended"
  genuine,    \* what the target really is
  taken,      \* payloads accepted from the browser
  delivered   \* payloads written to the target

relayVars == <<phase, genuine, taken, delivered>>

Init ==
  /\ phase = "held" /\ genuine \in BOOLEAN
  /\ taken = << >> /\ delivered = << >>

Hold(p) ==
  /\ phase = "held"
  /\ taken' = Append(taken, p)
  /\ UNCHANGED <<phase, genuine, delivered>>

Open ==
  /\ phase = "held" /\ genuine
  /\ phase' = "open" /\ delivered' = taken
  /\ UNCHANGED <<genuine, taken>>

Pass(p) ==
  /\ phase = "open"
  /\ taken' = Append(taken, p) /\ delivered' = Append(delivered, p)
  /\ UNCHANGED <<phase, genuine>>

End ==
  /\ phase # "ended" /\ phase' = "ended"
  /\ \/ UNCHANGED delivered
     \/ /\ phase = "held" /\ genuine
        /\ \E k \in 0..Len(taken) : delivered' = SubSeq(taken, 1, k)
  /\ UNCHANGED <<genuine, taken>>

Next == Open \/ End \/ \E p \in Payloads : Hold(p) \/ Pass(p)

Spec == Init /\ [][Next]_relayVars

\* The gate does not stay shut: it opens or the session ends.
Settles == phase = "held" ~> phase # "held"

=============================================================================
