-------------------------------- MODULE Match -------------------------------
(***************************************************************************)
(* The matching phase (get_start_node_subgraph_matching,                   *)
(* match_query_graph, match_triples_in_row, check_back_edges,              *)
(* explore_other_nodes): a backtracking walk over the patterns that maps   *)
(* each to a triple of its pruned bitmat and writes a row for every        *)
(* complete mapping.                                                       *)
(*                                                                         *)
(* The recursion is a stack of frames, one per running call of             *)
(* match_query_graph: the pattern it is at, the parent it was given, and   *)
(* the cells of the bitmat it still has to try.  The mapping of patterns   *)
(* to triples and the set of unvisited patterns are global and restored by *)
(* hand, or not at all.                                                    *)
(***************************************************************************)
EXTENDS Query, BitMat, Functions

CONSTANTS
  Adj,         \* nextTP: the neighbours of each pattern, in list order
  TreeEdges,   \* TreeEdges[s][t]: tree_edges_map[t], for the tree rooted at s
  Junk         \* the triples that may be found in uninitialized memory

Id     == Nat \ {0}
Triple == [sub : Id, pred : Id, obj : Id]

ASSUME MatchAssumption ==
  /\ Adj \in [TP -> Seq(TP)]
  /\ \A t \in TP : \A i \in DOMAIN Adj[t] : Adj[t][i] # t
  /\ TreeEdges \in [TP -> [TP -> Seq(TP)]]
  /\ Junk \subseteq Triple
  /\ NULL \notin TP \cup Triple \cup Fields

VARIABLES
  pruned,     \* the bitmats as pruning left them; never changes here
  stray,      \* patterns whose unset bitmat2 looks like one
  maps,       \* q_to_gr_node_map: the triple of each mapped pattern, or NULL
  unvisited,  \* patterns seen from a mapped one and not mapped themselves
  stack,      \* the running calls, the last one on top
  rows,       \* the lines of the results file
  phase       \* "idle", "match", "done"; "crash" and "abort" end the program

vars == <<pruned, stray, maps, unvisited, stack, rows, phase>>

Top   == stack[Len(stack)]
Below == stack[Len(stack) - 1]

\* The patterns a mapping m has a triple for.
Mapped(m) == {t \in TP : m[t] # NULL}

----------------------------------------------------------------------------
(* The triples of a pattern.                                               *)

\* add_row sets single_row.
SingleRow(t) == Query[t].pred > 0 /\ (Query[t].sub > 0 \/ Query[t].obj > 0)

\* Mutant: columns numbered from 0.
TripleFromZero(dim, t, c) ==
  CASE dim = "SPO" -> [sub |-> c[1], pred |-> Query[t].pred, obj |-> c[2] - 1]
    [] dim = "OPS" -> [sub |-> c[2] - 1, pred |-> Query[t].pred, obj |-> c[1]]
    [] dim = "PSO" -> [sub |-> Query[t].sub, pred |-> c[1], obj |-> c[2] - 1]
    [] dim = "POS" -> [sub |-> c[2] - 1, pred |-> c[1], obj |-> Query[t].obj]

\* The triple a cell stands for; the positions that are no axis are fixed.
TripleOf(dim, t, c) ==
  CASE dim = "SPO" -> [sub |-> c[1], pred |-> Query[t].pred, obj |-> c[2]]
    [] dim = "OPS" -> [sub |-> c[2], pred |-> Query[t].pred, obj |-> c[1]]
    [] dim = "PSO" -> [sub |-> Query[t].sub, pred |-> c[1], obj |-> c[2]]
    [] dim = "POS" -> [sub |-> c[2], pred |-> c[1], obj |-> Query[t].obj]

\* The cell of a list that comes first, by row and then by column.
FirstOf(cells) ==
  CHOOSE c \in cells : \A d \in cells : c[1] < d[1] \/ (c[1] = d[1] /\ c[2] <= d[2])

----------------------------------------------------------------------------
(* Edges between patterns.                                                 *)

(***************************************************************************)
(* edgetype: the position of t and the position of u on which two          *)
(* neighbours are taken to agree.  build_graph_new gives two patterns one  *)
(* edge, whatever else they share.                                         *)
(***************************************************************************)
Edge(t, u) ==
  LET Same(f, g) == Query[t][f] < 0 /\ Query[t][f] = Query[u][g]
  IN IF Same("sub", "sub") THEN <<"sub", "sub">>
     ELSE IF Same("pred", "pred") THEN <<"pred", "pred">>
     ELSE IF Same("obj", "obj") THEN <<"obj", "obj">>
     ELSE IF Same("sub", "obj") THEN <<"sub", "obj">>
     ELSE <<"obj", "sub">>

\* Mutant: the neighbour's field is taken to be that of t.
RequiredSameField(m, t, f) ==
  {m[u][f] : u \in {x \in Mapped(m) \cap Range(Adj[t]) : Edge(t, x)[1] = f}}

\* sub_pos, pred_pos, obj_pos: the ids the mapped neighbours of t ask for in
\* field f.
Required(m, t, f) ==
  {m[u][Edge(t, u)[2]] : u \in {x \in Mapped(m) \cap Range(Adj[t]) : Edge(t, x)[1] = f}}

\* "FATAL ERROR.. this kind of thing should have never happened"
Conflict(m, t) == \E f \in Fields : \E x, y \in Required(m, t, f) : x # y

\* The field the search for triples goes by, NULL if there is none.
Focus(m, t) ==
  IF Required(m, t, "pred") # {} THEN "pred"
  ELSE IF Required(m, t, "sub") # {} THEN "sub"
  ELSE IF Required(m, t, "obj") # {} THEN "obj" ELSE NULL

FocusId(m, t) == CHOOSE x \in Required(m, t, Focus(m, t)) : TRUE

FocusAxis(m, t) ==
  JoinAxis(pruned.dimension[t],
           [sub |-> "SUB", pred |-> "PRED", obj |-> "OBJ"][Focus(m, t)])

\* bitmat2, the transposed bitmat, is made for patterns with two join variables.
ByColumn(m, t) == Focus(m, t) # NULL /\ FocusAxis(m, t) = "objfold"

\* The assert(0) of match_query_graph: a single row without the id asked for.  For
\* an id beyond the array a byte behind it is read, taken here to have no bit set.
AssertFails(m, t) ==
  /\ ~Conflict(m, t)
  /\ ByColumn(m, t) /\ SingleRow(t)
  /\ FocusId(m, t) \notin pruned.objfold[t]

(***************************************************************************)
(* The cells match_query_graph tries for t.  A row, or a column with the   *)
(* help of bitmat2, is looked up; that of a single row is looked up in its *)
(* object fold and not in the row; without bitmat2 all cells are tried.    *)
(* bitmat2.dimension is never set then: if it happens to be one that is    *)
(* tested for, the empty bitmat2 is searched.                              *)
(***************************************************************************)
Candidates(m, t) ==
  IF Conflict(m, t) THEN {}
  ELSE IF Focus(m, t) = NULL THEN pruned.bm[t]
  ELSE IF ~ByColumn(m, t) \/ NumJvars(t) = 2
       THEN {c \in pruned.bm[t] : Coord(c, FocusAxis(m, t)) = FocusId(m, t)}
  ELSE IF SingleRow(t)
       THEN {<<Query[t].pred, FocusId(m, t)>>}
  ELSE IF t \in stray THEN {} ELSE pruned.bm[t]

\* Whether only triples with the id asked for are tried.
LookedUp(m, t) == ~ByColumn(m, t) \/ NumJvars(t) = 2 \/ SingleRow(t)

\* match_triples_in_row has no case for the dimensions of the bitmat2 of a PSO
\* or POS bitmat and leaves the triple as it finds it.
TriplesOf(m, t, c) ==
  IF ByColumn(m, t) /\ NumJvars(t) = 2 /\ pruned.dimension[t] \in {"PSO", "POS"}
  THEN Junk ELSE {TripleOf(pruned.dimension[t], t, c)}

\* Mutant: the list pointer never moves on.
ComparedFirst(m, t) ==
  {Adj[t][i] : i \in {k \in DOMAIN Adj[t] : k = 1 /\ Adj[t][k] \in Mapped(m)}}

(***************************************************************************)
(* check_back_edges: the triple agrees with those of the mapped            *)
(* neighbours.  The list pointer moves on only past a mapped one, so the   *)
(* neighbours behind the first unmapped one are never looked at.           *)
(***************************************************************************)
Compared(m, t) ==
  {Adj[t][i] : i \in {k \in DOMAIN Adj[t] : \A l \in 1 .. k : Adj[t][l] \in Mapped(m)}}

\* Mutant: no check.
CheckNothing(m, t, tr) == TRUE

CheckBackEdges(m, t, tr) ==
  \A u \in Compared(m, t) : tr[Edge(t, u)[1]] = m[u][Edge(t, u)[2]]

----------------------------------------------------------------------------
Frame == [node : TP, parent : TP \cup {NULL}, todo : SUBSET (Id \X Id)]

\* The dimension of a pattern's bitmat leaves out a fixed position only.
Oriented(dim, t) ==
  CASE dim \in {"SPO", "OPS"} -> Query[t].pred > 0
    [] dim = "PSO" -> Query[t].sub > 0
    [] dim = "POS" -> Query[t].obj > 0

Input == {p \in [dimension : [TP -> Dimension],
                 bm        : [TP -> SUBSET (Id \X Id)],
                 objfold   : [TP -> SUBSET Nat]] :
            \A t \in TP : Oriented(p.dimension[t], t)}

TypeOK ==
  /\ pruned \in Input
  /\ stray \subseteq TP
  /\ maps \in [TP -> Triple \cup {NULL}]
  /\ unvisited \subseteq TP
  /\ stack \in Seq(Frame)
  /\ rows \in Seq([TP -> Triple])
  /\ phase \in {"idle", "match", "done", "crash", "abort"}

Idle ==
  /\ stray = {}
  /\ maps = [t \in TP |-> NULL]
  /\ unvisited = {}
  /\ stack = << >>
  /\ rows = << >>
  /\ phase = "idle"

Init == pruned \in Input /\ Idle

----------------------------------------------------------------------------
(* The first call.                                                         *)

\* Patterns whose search by column meets an unset bitmat2.
WithoutBitmat2 == {t \in TP : NumJvars(t) = 1 /\ Query[t].pred = 0}

\* The pattern with the fewest triples, the first of them.
Begin ==
  /\ phase = "idle"
  /\ \A t \in TP : pruned.bm[t] # {}
  /\ \E t \in TP :
       /\ \A u \in TP : \/ Cardinality(pruned.bm[t]) < Cardinality(pruned.bm[u])
                        \/ Cardinality(pruned.bm[t]) = Cardinality(pruned.bm[u]) /\ t <= u
       /\ stack' = << [node |-> t, parent |-> NULL, todo |-> pruned.bm[t]] >>
  /\ stray' \in SUBSET WithoutBitmat2
  /\ phase' = "match"
  /\ UNCHANGED <<pruned, maps, unvisited, rows>>

\* A pattern without triples: no start node, and main dereferences it.
BeginNowhere ==
  /\ phase = "idle"
  /\ \E t \in TP : pruned.bm[t] = {}
  /\ phase' = "crash"
  /\ UNCHANGED <<pruned, stray, maps, unvisited, stack, rows>>

----------------------------------------------------------------------------
(* One triple of match_triples_in_row (or of the single-row branches).     *)

Trying == phase = "match" /\ Top.todo # {}

\* The stack once the first cell of the top frame is off the list.
Rest == [stack EXCEPT ![Len(stack)].todo = @ \ {FirstOf(@)}]

\* Mutant: a pattern short.
LastButOne == Len(stack) = Len(Query) - 1

LastNode == Len(stack) = Len(Query)

\* The triple that cell gives is one the neighbours accept, or not.
Agreeing == {tr \in TriplesOf(maps, Top.node, FirstOf(Top.todo)) :
               CheckBackEdges(maps, Top.node, tr)}

\* The mappings it extends maps to.
Extended == {[maps EXCEPT ![Top.node] = tr] : tr \in Agreeing}

MismatchedTriple ==
  /\ Trying
  /\ \E tr \in TriplesOf(maps, Top.node, FirstOf(Top.todo)) : tr \notin Agreeing
  /\ stack' = Rest
  /\ UNCHANGED <<pruned, stray, maps, unvisited, rows, phase>>

WriteRow ==
  /\ Trying /\ LastNode
  /\ \E m \in Extended : rows' = Append(rows, m)
  /\ stack' = Rest
  /\ UNCHANGED <<pruned, stray, maps, unvisited, phase>>

----------------------------------------------------------------------------
(* explore_other_nodes: the pattern to go on with once one is mapped.      *)

\* u is the first pattern in a list that is in S.
FirstIn(u, list, S) ==
  u \in S /\ \E i \in DOMAIN list : list[i] = u /\ \A k \in 1 .. i - 1 : list[k] \notin S

Unmapped(m) == TP \ Mapped(m)

\* The neighbours of t in the spanning tree: its parent there, its children.
Tree(t) == TreeEdges[stack[1].node][t]

Children(t) == Range(Adj[t]) \cap Range(Tree(t))

\* Every unmapped neighbour of the pattern just mapped is now unvisited.
Waiting(m) == unvisited \cup (Range(Adj[Top.node]) \ Mapped(m))

\* If none is left, a neighbour of each mapped pattern.
Refilled(m) ==
  IF Waiting(m) # {} THEN Waiting(m)
  ELSE {u \in TP : \E t \in Mapped(m) : FirstIn(u, Adj[t], Unmapped(m))}

\* Mutant: u stays unvisited.
VisitKeeping(u, parent, m, waiting) ==
  /\ unvisited' = waiting
  /\ maps' = m
  /\ stack' = Append(Rest, [node |-> u, parent |-> parent, todo |-> Candidates(m, u)])
  /\ phase' = IF AssertFails(m, u) THEN "abort" ELSE "match"
  /\ UNCHANGED <<pruned, stray, rows>>

\* Mutant: the caller tries its triple again.
VisitRetrying(u, parent, m, waiting) ==
  /\ unvisited' = waiting \ {u}
  /\ maps' = m
  /\ stack' = Append(stack, [node |-> u, parent |-> parent, todo |-> Candidates(m, u)])
  /\ phase' = IF AssertFails(m, u) THEN "abort" ELSE "match"
  /\ UNCHANGED <<pruned, stray, rows>>

\* Going on with u: it is visited now, and match_query_graph is called for it.
Visit(u, parent, m, waiting) ==
  /\ unvisited' = waiting \ {u}
  /\ maps' = m
  /\ stack' = Append(Rest, [node |-> u, parent |-> parent, todo |-> Candidates(m, u)])
  /\ phase' = IF AssertFails(m, u) THEN "abort" ELSE "match"
  /\ UNCHANGED <<pruned, stray, rows>>

ExploreChild ==
  /\ Trying /\ ~LastNode
  /\ \E m \in Extended : \E u \in TP :
       /\ FirstIn(u, Adj[Top.node], Children(Top.node) \cap Unmapped(m))
       /\ Visit(u, Top.node, m, Waiting(m))

ExploreSibling ==
  /\ Trying /\ ~LastNode
  /\ Top.parent # NULL
  /\ \E m \in Extended : \E u \in TP :
       /\ Children(Top.node) \subseteq Mapped(m)
       /\ FirstIn(u, Tree(Top.parent), Unmapped(m))
       /\ Visit(u, Top.parent, m, Waiting(m))

\* The first of the unvisited patterns, which the code goes on using after it
\* took it out of the set.
ExploreUnvisited ==
  /\ Trying /\ ~LastNode
  /\ \E m \in Extended : \E u \in Refilled(m) :
       /\ Children(Top.node) \subseteq Mapped(m)
       /\ Top.parent # NULL => Range(Tree(Top.parent)) \subseteq Mapped(m)
       /\ \A v \in Refilled(m) : u <= v
       /\ Visit(u, NULL, m, Refilled(m))

\* Mutant: the caller's pattern stays in the map.
ReturnMapped ==
  /\ phase = "match" /\ Top.todo = {}
  /\ stack' = [i \in 1 .. Len(stack) - 1 |-> stack[i]]
  /\ phase' = IF Len(stack) = 1 THEN "done" ELSE "match"
  /\ UNCHANGED <<pruned, stray, maps, unvisited, rows>>

\* No cell is left: the caller takes its pattern out of the map and goes on.
Return ==
  /\ phase = "match" /\ Top.todo = {}
  /\ stack' = [i \in 1 .. Len(stack) - 1 |-> stack[i]]
  /\ maps' = IF Len(stack) = 1 THEN maps ELSE [maps EXCEPT ![Below.node] = NULL]
  /\ phase' = IF Len(stack) = 1 THEN "done" ELSE "match"
  /\ UNCHANGED <<pruned, stray, unvisited, rows>>

Next ==
  \/ Begin \/ BeginNowhere
  \/ MismatchedTriple \/ WriteRow
  \/ ExploreChild \/ ExploreSibling \/ ExploreUnvisited
  \/ Return

Spec == Init /\ [][Next]_vars

----------------------------------------------------------------------------
(* Properties.                                                             *)

\* The patterns with a triple are those of the callers: every path back out of
\* match_query_graph restores q_to_gr_node_map.
MapsRestored ==
  phase = "match" => Mapped(maps) = {stack[i].node : i \in 1 .. Len(stack) - 1}

\* No pattern is matched inside its own call, or waits to be: unvisited, which
\* backtracking does not restore, never leads back to a mapped pattern.
VisitedOnce ==
  /\ \A i, k \in DOMAIN stack : stack[i].node = stack[k].node => i = k
  /\ \A i \in DOMAIN stack : stack[i].node \notin unvisited

\* No row is written twice, whichever way the walk backtracked in between.
RowsOnce == \A i, k \in DOMAIN rows : rows[i] = rows[k] => i = k

\* A single row is never asked for an id it does not have: pruning left its
\* neighbours no other one.
AssertHolds == phase # "abort"

(***************************************************************************)
(* In the order this walk takes, a mapped neighbour that check_back_edges  *)
(* does not look at is one the triples were looked up by: no edge of the   *)
(* query goes unchecked.  It depends on the graph, on the orientation of   *)
(* the bitmats and on what pruning left in them: an acyclic query needs    *)
(* that every triple has one that agrees in each neighbour (MatchJoins);   *)
(* the run back_edge has bitmats that are not that well pruned.            *)
(***************************************************************************)
BackEdgesSeen ==
  phase = "match" =>
    LET t == Top.node
    IN \A u \in (Mapped(maps) \cap Range(Adj[t])) \ Compared(maps, t) :
         Edge(t, u)[1] = Focus(maps, t) /\ LookedUp(maps, t)

(***************************************************************************)
(* The rows are the ways to take a triple of each bitmat so that patterns  *)
(* with an edge agree, each written once: matching needs nothing of        *)
(* pruning for that, and nothing is lost to the order of the walk.         *)
(***************************************************************************)
Joins ==
  LET triples == [t \in TP |-> {TripleOf(pruned.dimension[t], t, c) : c \in pruned.bm[t]}]
      agree(r) == \A t \in TP : \A u \in Range(Adj[t]) : r[t][Edge(t, u)[1]] = r[u][Edge(t, u)[2]]
  IN {r \in [TP -> UNION Range(triples)] : (\A t \in TP : r[t] \in triples[t]) /\ agree(r)}

RowsAreJoins ==
  phase = "done" => LET js == Joins IN Range(rows) = js /\ Len(rows) = Cardinality(js)

\* "this kind of thing should have never happened": the mapped neighbours of a
\* pattern agree on the ids they ask it for.
NeverFatal == phase = "match" => ~Conflict(maps, Top.node)
=============================================================================
