------------------------------ MODULE QueryRun ------------------------------
(***************************************************************************)
(* A query from its loaded bitmats to its result count (main): the pruning *)
(* phase of Prune, then the matching phase of Match over what it left, and *)
(* at the end the number of lines of the results file.                     *)
(***************************************************************************)
EXTENDS Prune, Sequences

CONSTANTS
  Adj, TreeEdges, Junk,   \* see Match
  EarlierLines            \* what may be at outfile[0] before: a number of
                          \* lines, or NULL for no file

ASSUME GraphAssumption ==
  /\ Adj \in [TP -> Seq(TP)]
  /\ \A t \in TP : \A i \in DOMAIN Adj[t] : Adj[t][i] # t
  /\ TreeEdges \in [TP -> [TP -> Seq(TP)]]
  /\ Junk \subseteq [sub : Nat \ {0}, pred : Nat \ {0}, obj : Nat \ {0}]
  /\ NULL \notin TP \cup [sub : Nat \ {0}, pred : Nat \ {0}, obj : Nat \ {0}] \cup Fields

ASSUME EarlierAssumption == EarlierLines \subseteq Nat \cup {NULL}

VARIABLES
  stray, maps, unvisited, stack, rows, phase,   \* see Match
  lines,      \* the lines of the results file, NULL if there is none
  reported,   \* the "Number of results" printed last, NULL before
  expected    \* history: the rows of the answer, over the bitmats as loaded

matchVars == <<stray, maps, unvisited, stack, rows, phase>>
runVars   == <<vars, matchVars, lines, reported, expected>>

M == INSTANCE Match WITH
       pruned <- [dimension |-> plan.dimension,
                  bm        |-> bm,
                  objfold   |-> [t \in TP |-> fold[<<t, "objfold">>]]]

\* The ways to take a triple of each set, one pattern after the other.
Combined(fits) ==
  LET found[n \in 0 .. Len(Query)] ==
        IF n = 0 THEN {<< >>} ELSE {Append(r, tr) : r \in found[n - 1], tr \in fits[n]}
  IN found[Len(Query)]

\* The rows that a binding of the join variables stands for, and all of them.
RowsOf(sol) ==
  Combined([t \in TP |-> {M!TripleOf(plan.dimension[t], t, c) :
                            c \in {x \in plan.bm[t] : Matches(x, t, sol)}}])

Answer == UNION {RowsOf(sol) : sol \in answers}

RunInit ==
  /\ Init
  /\ M!Idle
  /\ lines \in EarlierLines
  /\ reported = NULL
  /\ expected = Answer

----------------------------------------------------------------------------
\* The pruning phase has the bitmats to itself.
PruneStep ==
  /\ Next /\ pc \notin Returned
  /\ UNCHANGED <<matchVars, lines, reported, expected>>

\* prune_result is true: fopen(outfile[0], "w") empties the file, every row is
\* a line of it.
MatchStep ==
  /\ pc = "true"
  /\ UNCHANGED <<vars, reported, expected>>
  /\ M!Next
  /\ lines' = Len(rows')

\* No results: main prints 0, and reads whatever file is there. The lines of the
\* file are counted in either case.
Over == pc = "false" \/ phase = "done"

CountLines ==
  /\ Over /\ reported = NULL /\ lines # NULL
  /\ reported' = lines
  /\ UNCHANGED <<vars, matchVars, lines, expected>>

Ended == /\ \/ pc = "crash" \/ phase \in {"crash", "abort"} \/ reported # NULL
            \/ pc = "false" /\ lines = NULL  \* feof(NULL)
         /\ UNCHANGED runVars

RunNext == PruneStep \/ MatchStep \/ CountLines \/ Ended

\* One thread.
RunSpec == RunInit /\ [][RunNext]_runVars /\ WF_runVars(RunNext)

----------------------------------------------------------------------------
(* Properties.                                                             *)

\* The assertion of match_query_graph on the object fold of a single row holds
\* of what pruning leaves.
AssertHolds == M!AssertHolds

\* No edge to a mapped neighbour goes unchecked where check_back_edges does not look
\* at it: the order of the walk sees to that or, in an acyclic query, pruning.
BackEdgesSeen == M!BackEdgesSeen

\* The mapped neighbours of a pattern agree on what they ask it for.
NeverFatal == M!NeverFatal

\* Every row of the results file is a row of the answer: it "prints the entire
\* triple values" of bindings that agree on each join variable.
RowsAreAnswers == \A i \in DOMAIN rows : rows[i] \in expected

\* The triples of a row are triples of the data: "the output result prints the
\* entire triple values".
RowsStored(stores) ==
  \A i \in DOMAIN rows : \E store \in stores : \A t \in TP :
    <<rows[i][t].sub, rows[i][t].pred, rows[i][t].obj>> \in store

(***************************************************************************)
(* A query implements Results, whatever pruning deletes and in whatever    *)
(* order the patterns are walked.                                          *)
(***************************************************************************)
Promised == INSTANCE Results WITH written <- rows,
                                  outcome <- IF Over THEN "over" ELSE "running"

KeepsResults == Promised!Spec
=============================================================================
