----------------------------- MODULE QueryGraph -----------------------------
(***************************************************************************)
(* The graph of a query (build_graph_new) and the order in which its join  *)
(* variables are pruned (build_jvar_tree, spanning_tree, tree_bfs).        *)
(***************************************************************************)
EXTENDS Query, SequencesExt

TPSeq == [t \in TP |-> t]

\* The numbers of a set, ascending; the elements of a sequence at some of its places.
InOrder(S) ==
  [i \in 1 .. Cardinality(S) |-> CHOOSE n \in S : Cardinality({m \in S : m < n}) = i - 1]

AtPlaces(seq, places) ==
  LET order == InOrder(places) IN [i \in 1 .. Cardinality(places) |-> seq[order[i]]]

\* The JVAR nodes in the order parse_query_and_build_graph meets them: by
\* pattern, and within one by subject, predicate, object.
JvarSeq ==
  LET mentioned == FlattenSeq([t \in TP |-> <<Query[t].sub, Query[t].pred, Query[t].obj>>])
      First(i)  == mentioned[i] < 0 /\ \A m \in 1 .. i - 1 : mentioned[m] # mentioned[i]
  IN AtPlaces(mentioned, {i \in DOMAIN mentioned : First(i)})

\* TP <-> jvar edges: the TP nodes of a variable, the variables of a TP node.
TPsOfJvar == [j \in Jvar |-> InOrder({t \in TP : Mentions(t, j)})]
JvarsOfTP == [t \in TP |-> AtPlaces(JvarSeq, {i \in DOMAIN JvarSeq : Mentions(t, JvarSeq[i])})]

\* jvar - jvar edges, one per pattern two variables share (so with repeats).
AdjJvars ==
  LET Others(vars, j) == AtPlaces(vars, {i \in DOMAIN vars : vars[i] # j})
  IN [j \in Jvar |->
        FlattenSeq([i \in DOMAIN TPsOfJvar[j] |-> Others(JvarsOfTP[TPsOfJvar[j][i]], j)])]

\* TP - TP edges: at most one for two patterns, however much they share.
SharesVar(t, u) ==
  \/ Query[t].sub < 0 /\ Query[t].sub = Query[u].sub
  \/ Query[t].pred < 0 /\ Query[t].pred = Query[u].pred
  \/ Query[t].obj < 0 /\ Query[t].obj = Query[u].obj
  \/ Query[t].sub < 0 /\ Query[t].sub = Query[u].obj
  \/ Query[t].obj < 0 /\ Query[t].obj = Query[u].sub

AdjTPs == [t \in TP |-> InOrder({u \in TP : u # t /\ SharesVar(t, u)})]

----------------------------------------------------------------------------
(* spanning_tree: depth first, a node is coloured when it is first seen.   *)

\* One step of the recursion: the top call goes into its first neighbour that is
\* not coloured yet, or returns.
DepthFirstStep(adj, st) ==
  LET n     == Last(st.calls)
      white == {i \in DOMAIN adj[n] : adj[n][i] \notin st.black}
      next  == adj[n][Min(white)]
  IN IF white = {} THEN [st EXCEPT !.calls = Front(@)]
     ELSE [black |-> st.black \cup {next},
           kids  |-> [st.kids EXCEPT ![n] = Append(@, next)],
           calls |-> Append(st.calls, next)]

\* The states of the recursion.  Every node is entered and left at most once.
Walk(adj, root) ==
  LET walk[i \in 0 .. 2 * Cardinality(DOMAIN adj)] ==
        IF i = 0
        THEN [black |-> {root}, kids |-> [n \in DOMAIN adj |-> << >>], calls |-> <<root>>]
        ELSE LET st == walk[i - 1] IN IF st.calls = << >> THEN st ELSE DepthFirstStep(adj, st)
  IN walk

\* For each node, its children in the spanning tree (tree_edges_map).
SpanningTree(adj, root) == Walk(adj, root)[2 * Cardinality(DOMAIN adj)].kids

\* What it leaves in tree_edges_map for the patterns: a node's parent, if it has one,
\* then its children.
PatternTree(s) ==
  LET kids == SpanningTree(AdjTPs, s)
  IN [t \in TP |-> InOrder({u \in TP : t \in Range(kids[u])}) \o kids[t]]

TreesOfTPs == [s \in TP |-> PatternTree(s)]

\* tree_bfs: the nodes of the tree in breadth-first order, and its leaves.
Queues(kids, root) ==
  LET queue[i \in 0 .. Cardinality(DOMAIN kids)] ==
        IF i = 0 THEN <<root>>
        ELSE LET q == queue[i - 1] IN IF i > Len(q) THEN q ELSE q \o kids[q[i]]
  IN queue

TreeBfs(kids, root) == Queues(kids, root)[Cardinality(DOMAIN kids)]

\* Mutant: a node with one child is a leaf.
LeafNodesEarly(kids, root) ==
  {n \in Range(TreeBfs(kids, root)) : Len(kids[n]) <= 1}

LeafNodes(kids, root) ==
  {n \in Range(TreeBfs(kids, root)) : kids[n] = << >>}

----------------------------------------------------------------------------
(* build_jvar_tree: the variable to start from, given the triple counts.   *)

\* The patterns whose bitmat init_tp_nodes_new leaves for later: it reads only
\* their count, four bytes of it into the eight of an uninitialized num_triples.
LoadedLater == {t \in TP : Query[t].pred > 0 /\ Query[t].sub < 0 /\ Query[t].obj < 0}

\* The first node of a sequence with the least count; NULL if it is empty.  A
\* node with stale upper bytes is never less than another; at the head of the
\* list its count is cut to the four bytes of min_triples.
MinTP(nodes, count, stale) ==
  LET candidates == {i \in DOMAIN nodes : i = 1 \/ nodes[i] \notin stale}
  IN IF nodes = << >> THEN NULL
     ELSE nodes[CHOOSE i \in candidates :
                  \A m \in candidates :
                    \/ count[nodes[i]] < count[nodes[m]]
                    \/ count[nodes[i]] = count[nodes[m]] /\ i <= m]

(***************************************************************************)
(* The position value on which the least pattern and its least neighbour   *)
(* agree.  Equal values are taken for a shared variable without a look at  *)
(* their sign: two free variables (0), or two fixed ids, agree as well.    *)
(***************************************************************************)
SharedValue(t, u) ==
  IF Query[t].sub \in {Query[u].sub, Query[u].obj}      THEN Query[t].sub
  ELSE IF Query[t].obj \in {Query[u].sub, Query[u].obj} THEN Query[t].obj
  ELSE IF Query[t].pred = Query[u].pred                 THEN Query[t].pred
  ELSE NULL

\* NULL when the code runs off the end of a list: no neighbour, or a shared
\* value that is no join variable.
RootJvar(count, stale) ==
  LET t == MinTP(TPSeq, count, stale)
      u == MinTP(AdjTPs[t], count, stale)
  IN IF u = NULL THEN NULL
     ELSE IF SharedValue(t, u) \in Jvar THEN SharedValue(t, u) ELSE NULL

\* The variables it may start from, whatever the stale bytes are.
RootJvars(count) == {RootJvar(count, stale) : stale \in SUBSET LoadedLater} \ {NULL}
=============================================================================
