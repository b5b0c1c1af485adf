------------------------------ MODULE Results -------------------------------
(***************************************************************************)
(* What a query promises: the results file receives every row of the       *)
(* answer, one at a time and each once, nothing else, and the query comes  *)
(* to an end when it has them all.                                         *)
(***************************************************************************)
EXTENDS Sequences

VARIABLES
  expected,   \* the rows of the answer
  written,    \* the rows of the results file, in order
  outcome     \* "running" or "over"

vars == <<expected, written, outcome>>

Written == {written[i] : i \in DOMAIN written}

Init == written = << >> /\ outcome = "running"

Write ==
  /\ outcome = "running"
  /\ \E r \in expected \ Written : written' = Append(written, r)
  /\ UNCHANGED <<expected, outcome>>

End ==
  /\ outcome = "running"
  /\ Written = expected
  /\ outcome' = "over"
  /\ UNCHANGED <<expected, written>>

Next == Write \/ End

Safety   == Init /\ [][Next]_vars
Progress == <>(outcome = "over")

Spec == Safety /\ Progress
=============================================================================
