------------------------------- MODULE MCQuery ------------------------------
(***************************************************************************)
(* Instances of QueryRun for TLC: the stores and plans of MCSmall, with    *)
(* the pattern graph of QueryGraph to walk.                                *)
(***************************************************************************)
EXTENDS QueryRun, MCSmall

\* By another name each, so that TLC computes them once.
PatternTrees == TreesOfTPs
Neighbours   == AdjTPs
TPNodes      == TPsOfJvar

\* 2 ?p ?b . 3 ?p ?c . 1 ?p ?x . ?b 1 ?y . ?c 1 ?z
FreeObjectQuery ==
  <<Pattern(2, -1, -2), Pattern(3, -1, -3), Pattern(1, -1, 0), Pattern(-2, 1, 0), Pattern(-3, 1, 0)>>

\* ?a 1 ?b . ?b 2 ?c . ?c 1 ?a . ?a 2 1 . 1 2 ?c
FixedTriangleQuery == TriangleQuery \o <<Pattern(-1, 2, 1), Pattern(1, 2, -3)>>

\* ?a 1 ?b . ?b 2 ?c . ?c 3 ?v . ?a 4 ?d . ?a 5 ?w . ?d 6 ?e . ?d 7 ?x . ?e 8 ?f . ?f 9 ?y
BranchedTreeQuery ==
  <<Pattern(-1, 1, -2), Pattern(-2, 2, -3), Pattern(-3, 3, 0), Pattern(-1, 4, -4), Pattern(-1, 5, 0),
    Pattern(-4, 6, -5), Pattern(-4, 7, 0), Pattern(-5, 8, -6), Pattern(-6, 9, 0)>>

\* 1 ?p 2 . 3 ?p ?x
FilteredQuery == <<Pattern(1, -1, 2), Pattern(3, -1, 0)>>

\* Predicate 1 relates everything, so the walk never starts at its pattern.
DenseStores ==
  {Filler \cup Triples(1, (1 .. NumSubs) \X (1 .. NumObjs)) \cup Triples(2, q) : q \in Relations}

\* In its only answers ?a to ?f are 1; the other triples pass some of the joins.
\* By predicate, the objects of each subject.
BranchedTreeStore ==
  LET objects == << <<{1}, {3}, {3}>>, <<{1}, {2}, {2}>>, <<1 .. 2, {}, {3}>>,
                    <<1 .. 2, {}, {3}>>, <<{1}, {}, 2 .. 3>>, <<{1}, {2}, {}>>,
                    <<{1}, {2}, {3}>>, <<{1}, {2}, {}>>, <<{1}, {}, 1 .. 2>> >>
      Related(p) == UNION {{s} \X objects[p][s] : s \in 1 .. 3}
  IN {Filler \cup UNION {Triples(p, Related(p)) : p \in DOMAIN objects}}

\* Object 2 is related to subject 1 by predicates 1 and 3, not by 2.
FilteredStore == {Filler \cup Triples(1, {<<1, 2>>}) \cup Triples(2, {<<2, 2>>, <<3, 1>>})}

\* What the stack may hold: a triple of another pattern.
SomeTriple == {[sub |-> 2, pred |-> 2, obj |-> 2]}

\* The file of an earlier query is not looked at: it is empty.
Empty == {0}

\* A row is made of triples of the data.
RowsAreData == RowsStored(Stores)
=============================================================================
