-------------------------------- MODULE Load --------------------------------
(***************************************************************************)
(* From the stored bitmats to the bitmats of a query's patterns: which of  *)
(* the four stores a pattern is read from and what it holds then           *)
(* (init_tp_nodes_new, populate_all_tp_bitmats).                           *)
(***************************************************************************)
EXTENDS QueryGraph, Store

\* The dimension a pattern is loaded in, given the order of the variables: a
\* pattern whose subject and object are both join variables is loaded by the
\* first of them in that order.
LoadedDimension(store, order, t) ==
  LET tp == Query[t] IN
  CASE tp.pred > 0 /\ tp.sub > 0 -> "PSO"
    [] tp.pred > 0 /\ tp.sub <= 0 /\ tp.obj > 0 -> "POS"
    [] tp.pred > 0 /\ tp.sub < 0 /\ tp.obj < 0 ->
         LET first == CHOOSE i \in DOMAIN order :
                        /\ Mentions(t, order[i])
                        /\ \A m \in 1 .. i - 1 : ~Mentions(t, order[m])
         IN IF order[first] = tp.sub THEN "SPO" ELSE "OPS"
    [] tp.pred > 0 /\ tp.sub < 0 /\ tp.obj = 0 -> "SPO"
    [] tp.pred > 0 /\ tp.sub = 0 /\ tp.obj < 0 -> "OPS"
    [] tp.pred <= 0 /\ tp.sub > 0 /\ tp.obj > 0 ->
         IF TripleCount(store, "PSO", tp.sub) < TripleCount(store, "POS", tp.obj)
         THEN "PSO" ELSE "POS"
    [] tp.pred <= 0 /\ tp.sub > 0 /\ tp.obj <= 0 -> "PSO"
    [] tp.pred <= 0 /\ tp.sub <= 0 /\ tp.obj > 0 -> "POS"

\* What the pattern's bitmat and folds are once it is loaded in dimension dim.
LoadedPattern(store, t, dim) ==
  LET tp == Query[t]
      b  == CASE dim \in {"SPO", "OPS"} -> tp.pred
              [] dim = "PSO" -> tp.sub
              [] dim = "POS" -> tp.obj
      other == IF dim = "PSO" THEN tp.obj ELSE tp.sub
  IN CASE dim \in {"SPO", "OPS"} -> LoadFromDumpFile(store, dim, b)
       [] dim \in {"PSO", "POS"} /\ tp.pred > 0 -> AddRow(store, dim, b, tp.pred)
       [] dim \in {"PSO", "POS"} /\ tp.pred <= 0 /\ other > 0 -> FilteredLoad(store, dim, b, other)
       [] OTHER -> PopulateObjfold(LoadFromDumpFile(store, dim, b))

----------------------------------------------------------------------------
(* All of them.                                                            *)

\* num_triples when build_jvar_tree looks for the least pattern.
TripleCounts(store) ==
  [t \in TP |->
     IF t \in LoadedLater
     THEN TripleCount(store, "SPO", Query[t].pred)
     ELSE LET dim == LoadedDimension(store, << >>, t)
          IN Cardinality(LoadedPattern(store, t, dim).bm)]

\* init_tp_nodes_new found something for every pattern.
InitTpNodes(count) == \A t \in TP : count[t] > 0

\* The bitmats and the variable order the pruning phase starts from, given the
\* spanning tree of root.
PlanOf(store, root, kids) ==
  LET order  == TreeBfs(kids, root)
      dim    == [t \in TP |-> LoadedDimension(store, order, t)]
      loaded == [t \in TP |-> LoadedPattern(store, t, dim[t])]
  IN [dimension  |-> dim,
      bm         |-> [t \in TP |-> loaded[t].bm],
      fold       |-> [x \in TP \X Axis |-> loaded[x[1]][x[2]]],
      jvarsitr2  |-> order,
      leaf_nodes |-> LeafNodes(kids, root)]
=============================================================================
