--------------------------- MODULE PrunePromise -----------------------------
(***************************************************************************)
(* What the pruning phase promises the matching phase, however it does it: *)
(* it only ever takes cells out of the patterns' bitmats, never one that   *)
(* takes part in a solution, and it comes to an end, with the answer that  *)
(* there are no results only if there are none.                            *)
(***************************************************************************)
CONSTANTS TP   \* the triple patterns

VARIABLES
  needed,   \* needed[t]: the cells of pattern t that take part in a solution
  kept,     \* kept[t]: the cells its bitmat still holds
  outcome   \* "running", "some" or "none"

vars == <<needed, kept, outcome>>

Init ==
  /\ \A t \in TP : needed[t] \subseteq kept[t]
  /\ outcome = "running"

\* Any number of patterns lose cells that are not needed.
Drop ==
  /\ outcome = "running"
  /\ \A t \in TP : needed[t] \subseteq kept'[t] /\ kept'[t] \subseteq kept[t]
  /\ outcome' \in {"running", "some"}
  /\ UNCHANGED needed

GiveUp ==
  /\ outcome = "running"
  /\ \A t \in TP : needed[t] = {}
  /\ outcome' = "none"
  /\ UNCHANGED <<needed, kept>>

Next == Drop \/ GiveUp

Safety   == Init /\ [][Next]_vars
Progress == <>(outcome # "running")

Spec == Safety /\ Progress
=============================================================================
