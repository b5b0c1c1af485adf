------------------------------ MODULE MCPrune -------------------------------
(***************************************************************************)
(* Instances of Prune for TLC: queries, and the plans that loading and     *)
(* planning make of a set of stores.                                       *)
(***************************************************************************)
EXTENDS Prune, Load

CONSTANTS
  Stores,   \* the data sets
  Folds     \* which plans to take: "disk" all, "complete" or "exact" those
            \* whose folds, as the loader wrote them, are so

Pattern(s, p, o) == [sub |-> s, pred |-> p, obj |-> o]

\* ?x 1 ?a . ?a 2 ?b . ?b 1 ?y
ChainQuery == <<Pattern(0, 1, -1), Pattern(-1, 2, -2), Pattern(-2, 1, 0)>>

\* ?a 1 ?b . ?b 2 ?c . ?c 1 ?a
TriangleQuery == <<Pattern(-1, 1, -2), Pattern(-2, 2, -3), Pattern(-3, 1, -1)>>

\* ?a 2 ?b . ?x 1 ?a . ?b 1 ?y
SubjectFirstQuery == <<Pattern(-1, 2, -2), Pattern(0, 1, -1), Pattern(-2, 1, 0)>>

\* ?a 2 ?b . ?b 2 ?c . ?c 2 ?a, each variable first met in a pattern of its own
GuardedTriangleQuery ==
  <<Pattern(0, 1, -1), Pattern(0, 1, -2), Pattern(0, 1, -3),
    Pattern(-1, 2, -2), Pattern(-2, 2, -3), Pattern(-3, 2, -1)>>

\* ?r 1 ?a . ?r 1 ?b . ?a 3 1 . ?b 2 ?y . ?b 1 ?z
BranchQuery ==
  <<Pattern(-1, 1, -2), Pattern(-1, 1, -3), Pattern(-2, 3, 1), Pattern(-3, 2, 0),
    Pattern(-3, 1, 0)>>

Triples(p, rel) == {<<c[1], p, c[2]>> : c \in rel}

\* A predicate that is in no query and makes every id occur in the data.
Filler == Triples(NumPreds, {<<s, 1>> : s \in 1 .. NumSubs} \cup {<<1, o>> : o \in 1 .. NumObjs})

Accepted(p) == CASE Folds = "disk"     -> TRUE
                 [] Folds = "complete" -> FoldsComplete(p)
                 [] Folds = "exact"    -> FoldsExact(p)

Counted == {<<s, TripleCounts(s)>> : s \in {x \in Stores : WellFormed(x)}}

StorePlans ==
  LET planned == {c \in Counted : InitTpNodes(c[2])}
      trees   == {<<root, SpanningTree(AdjJvars, root)>> : root \in Jvar}
      Of(n)   == LET roots == RootJvars(n)
                 IN {PlanOf(c[1], t[1], t[2]) : c \in {x \in planned : x[2] = n},
                                                t \in {x \in trees : x[1] \in roots}}
  IN UNION {Of(n) : n \in {c[2] : c \in planned}}

SelectedPlans == {p \in StorePlans : Accepted(p)}
=============================================================================
