------------------------------- MODULE Query --------------------------------
(***************************************************************************)
(* The join query as parse_query_and_build_graph reads it: one triple      *)
(* pattern per line, each position a positive id (fixed), a negative       *)
(* number (a join variable) or 0 (a variable that occurs once).            *)
(***************************************************************************)
EXTENDS Integers, Sequences, FiniteSets

CONSTANTS
  Query,   \* the lines: a sequence of [sub, pred, obj] records
  NULL     \* a null pointer

ASSUME QueryAssumption ==
  /\ Query \in Seq([sub : Int, pred : Int, obj : Int])
  /\ Query # << >>

\* The TP nodes, numbered in the order of the query file.
TP == DOMAIN Query

Fields == {"sub", "pred", "obj"}

\* The join variables (JVAR nodes), by their negative number.
Jvar == {j \in {Query[t][f] : t \in TP, f \in Fields} : j < 0}

\* tp->numjvars and tp->numvars.
NumJvars(t) == Cardinality({f \in Fields : Query[t][f] < 0})
NumVars(t)  == Cardinality({f \in Fields : Query[t][f] <= 0})

\* The position of pattern t that prune_for_jvar joins on for variable j: it
\* tests the subject first, then the object, then the predicate.
PosOf(t, j) ==
  IF Query[t].sub = j THEN "SUB" ELSE IF Query[t].obj = j THEN "OBJ" ELSE "PRED"

Mentions(t, j) == \E f \in Fields : Query[t][f] = j

----------------------------------------------------------------------------
(* The shape of a query: no code looks at it, theorems do.                 *)

\* A pattern with a variable in a set and one outside it.
Crosses(t, C) == \E i \in C, j \in Jvar \ C : Mentions(t, i) /\ Mentions(t, j)

\* The query falls apart where any pattern with two variables is taken out.
Acyclic ==
  \A t \in TP : \A i, j \in Jvar : i # j /\ Mentions(t, i) /\ Mentions(t, j) =>
    \E C \in SUBSET Jvar : i \in C /\ j \notin C /\ \A u \in TP \ {t} : ~Crosses(u, C)
=============================================================================
