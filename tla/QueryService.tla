---------------------------- MODULE QueryService ----------------------------
(***************************************************************************)
(* What a query promises its owner, whoever walks down the name for it: it *)
(* ends with one callback, or by an exception, if it ends; where no        *)
(* Interest is lost and nothing is forged it only ends in success; and a   *)
(* success names the zone responsible for what was asked.                  *)
(***************************************************************************)
VARIABLES
  faulty,    \* Interests may be lost, signatures refused, answers wrong
  right,     \* the zone responsible for the record asked for
  outcome,   \* "new", "running", "succeeded", "failed" or "threw"
  answer     \* the zone reported, once succeeded

vars == <<faulty, right, outcome, answer>>

Ended == {"succeeded", "failed", "threw"}

Init == outcome = "new" /\ answer = right

Start ==
  /\ outcome = "new" /\ outcome' = "running"
  /\ UNCHANGED answer

Succeed ==
  /\ outcome = "running" /\ outcome' = "succeeded"
  /\ answer' = right

Fail ==
  /\ faulty /\ outcome = "running" /\ outcome' = "failed"
  /\ UNCHANGED answer

Throw ==
  /\ faulty /\ outcome = "running" /\ outcome' = "threw"
  /\ UNCHANGED answer

Next == (Start \/ Succeed \/ Fail \/ Throw) /\ UNCHANGED <<faulty, right>>

Spec == Init /\ [][Next]_vars

(* A query that was started ends. *)
EndsOnce == outcome = "running" ~> outcome \in Ended
=============================================================================
