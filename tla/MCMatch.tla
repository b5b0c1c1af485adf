------------------------------- MODULE MCMatch ------------------------------
(***************************************************************************)
(* Match by itself for TLC: over all small bitmats, not only over those    *)
(* that pruning leaves.                                                    *)
(***************************************************************************)
EXTENDS Match, QueryGraph

CONSTANTS
  Ids,       \* the subjects and objects
  MaxCells   \* the most cells of a bitmat

Pattern(s, p, o) == [sub |-> s, pred |-> p, obj |-> o]

\* ?a 1 ?b . ?c 2 ?a . ?b 1 ?c . ?a 3 ?e . ?e 3 ?y
TailedTriangle ==
  <<Pattern(-1, 1, -2), Pattern(-3, 2, -1), Pattern(-2, 1, -3), Pattern(-1, 3, -4),
    Pattern(-4, 3, 0)>>

\* By another name each, so that TLC computes them once.
PatternTrees == TreesOfTPs
Neighbours   == AdjTPs

\* Every small relation of each predicate, the empty one as pruning may leave it.
Relations == {r \in SUBSET (Ids \X Ids) : Cardinality(r) <= MaxCells}

Unpruned(rel) ==
  [dimension |-> [t \in TP |-> "SPO"],
   bm        |-> [t \in TP |-> rel[Query[t].pred]],
   objfold   |-> [t \in TP |-> {c[2] : c \in rel[Query[t].pred]}]]

SmallInput == {Unpruned(rel) : rel \in [1 .. NumPreds -> Relations]}

SmallInit == pruned \in SmallInput /\ Idle

SmallSpec == SmallInit /\ [][Next]_vars
=============================================================================
