---------------------------- MODULE QueryProofs ------------------------------
(***************************************************************************)
(* Proofs about a whole query (QueryRun): what PruneSound proves of the    *)
(* pruning phase alone still holds while the results are made, and what    *)
(* pruning hands over is what MatchJoins takes, so that the rows a user    *)
(* sees, and their number, are those of the answer.                        *)
(***************************************************************************)
EXTENDS QueryRun, PruneReduce

\* The proofs about matching, of the bitmats as they are.
J == INSTANCE MatchJoins WITH
       pruned <- [dimension |-> plan.dimension,
                  bm        |-> bm,
                  objfold   |-> [t \in TP |-> fold[<<t, "objfold">>]]]

----------------------------------------------------------------------------
(* A step of a query is a step of the pruning phase, or leaves it alone.   *)

LEMMA RunInitPrunes == RunInit => Init
BY DEF RunInit

LEMMA RunStepPrunes ==
  ASSUME [RunNext]_runVars
  PROVE  [Next]_vars
<1>1. CASE PruneStep
  BY <1>1 DEF PruneStep
<1>2. CASE MatchStep
  BY <1>2 DEF MatchStep
<1>3. CASE CountLines
  BY <1>3 DEF CountLines
<1>4. CASE Ended
  BY <1>4 DEF Ended, runVars
<1>5. CASE UNCHANGED runVars
  BY <1>5 DEF runVars
<1>. QED
  BY <1>1, <1>2, <1>3, <1>4, <1>5 DEF RunNext

\* The pruning phase of a query behaves as Prune says, what follows included.
THEOREM RunPrunes == RunSpec => Init /\ [][Next]_vars
BY RunInitPrunes, RunStepPrunes, PTL DEF RunSpec

\* The state of the pruning phase stays sound to the end of the query.
LEMMA RunSound ==
  ASSUME CompleteFolds, PartialLastByte
  PROVE  RunSpec => []Sound
<1>1. Init => Sound
  BY InitSound
<1>2. Sound /\ [Next]_vars => Sound'
  BY NextSound
<1>. QED
  BY <1>1, <1>2, RunPrunes, PTL

\* No triple of an answer is cleared from its bitmat before the walk that prints
\* the results is over: match_query_graph only reads the bitmats.
THEOREM QueryLosesNothing ==
  ASSUME CompleteFolds, PartialLastByte
  PROVE  RunSpec => []NoAnswerLost
<1>1. Sound => NoAnswerLost
  BY DEF Sound
<1>. QED
  BY <1>1, RunSound, PTL

----------------------------------------------------------------------------
(* The rows of the answer.                                                 *)

\* A query without bindings has no rows, and what it is asked for never changes.
RowsNeedBindings == answers = {} => expected = {}

LEMMA NoBindingNoRow ==
  ASSUME answers = {}
  PROVE  Answer = {}
BY DEF Answer

LEMMA RunFrame ==
  ASSUME [RunNext]_runVars
  PROVE  answers' = answers /\ expected' = expected
<1>1. CASE PruneStep
  <2>1. expected' = expected /\ Next
    BY <1>1 DEF PruneStep
  <2>2. answers' = answers
    BY <2>1 DEF Next, EnterNode, SkipLeaf, JoinFirst, JoinAnd, UnfoldUnchanged,
       UnfoldFoldOnly, UnfoldCells, UnfoldReloadsNothing, TryAgain, ReturnTrue,
       FixAllTpBitmats, Finished, fixed, vars
  <2>. QED
    BY <2>1, <2>2
<1>2. CASE MatchStep
  BY <1>2 DEF MatchStep, vars
<1>3. CASE CountLines
  BY <1>3 DEF CountLines, vars
<1>4. CASE Ended \/ UNCHANGED runVars
  BY <1>4 DEF Ended, runVars, vars
<1>. QED
  BY <1>1, <1>2, <1>3, <1>4 DEF RunNext

\* main prints "0" for a query that pruning gave up only if no row answers it.
THEOREM ZeroIsTrue ==
  ASSUME CompleteFolds, PartialLastByte
  PROVE  RunSpec => [](pc = "false" => expected = {})
<1>1. RunInit => RowsNeedBindings
  BY NoBindingNoRow DEF RunInit, RowsNeedBindings
<1>2. RowsNeedBindings /\ [RunNext]_runVars => RowsNeedBindings'
  BY RunFrame DEF RowsNeedBindings
<1>3. RowsNeedBindings /\ Sound => (pc = "false" => expected = {})
  BY DEF RowsNeedBindings, Sound, EmptyMeansNoAnswer
<1>. QED
  BY <1>1, <1>2, <1>3, RunSound, PTL DEF RunSpec

----------------------------------------------------------------------------
(***************************************************************************)
(* What pruning hands over.                                                *)
(***************************************************************************)

\* A variable is in one position of a pattern.
OnePlace == \A t \in TP : \A f, g \in Fields : Query[t][f] < 0 /\ Query[t][f] = Query[t][g] => f = g

\* What init_tp_nodes_new and populate_all_tp_bitmats leave: a pattern has a variable
\* and is in a bitmat of its cells; one with a fixed predicate and a fixed end is a
\* row of that predicate.
Fetched ==
  \A p \in Plans : \A t \in TP :
    /\ JvarsOf(t) # {}
    /\ p.bm[t] \subseteq J!Id \X J!Id
    /\ J!Oriented(p.dimension[t], t)
    /\ J!SingleRow(t) => /\ p.dimension[t] \in {"PSO", "POS"}
                         /\ \A c \in p.bm[t] : c[1] = Query[t].pred

\* The field of a triple that holds a variable is where pruning looks for it.
LEMMA TripleField ==
  ASSUME plan \in Plans, OnePlace, Fetched, NEW t \in TP, NEW f \in Fields, Query[t][f] < 0, NEW c
  PROVE  /\ J!TripleOf(plan.dimension[t], t, c)[f] = Coord(c, AxisOf(t, Query[t][f]))
         /\ Query[t][f] \in JvarsOf(t)
<1>1. PosOf(t, Query[t][f]) = J!PosName(f)
  BY DEF OnePlace, PosOf, J!PosName, Fields
<1>2. plan.dimension[t] \in Dimension /\ J!Oriented(plan.dimension[t], t)
  BY PruneAssumption DEF Plan, Fetched
<1>3. J!Fields = Fields /\ t \in J!TP /\ plan.dimension[t] \in J!Dimension
  BY <1>2 DEF J!TP, TP, J!Fields, Fields, J!Dimension, Dimension
<1>4. J!TripleOf(plan.dimension[t], t, c)[f] = J!Coord(c, J!JoinAxis(plan.dimension[t], J!PosName(f)))
  <2>1. ASSUME NEW dim \in J!Dimension, J!Oriented(dim, t)
        PROVE  J!TripleOf(dim, t, c)[f] = J!Coord(c, J!JoinAxis(dim, J!PosName(f)))
    BY <1>3, <2>1, J!FieldOfTriple, QueryAssumption, SizesAssumption, GraphAssumption, SMTT(60)
       DEF J!TP, TP, J!Triple, J!Id
  <2>. QED
    BY <1>2, <1>3, <2>1
<1>. QED
  BY <1>1, <1>4 DEF J!Coord, J!JoinAxis, Coord, AxisOf, JoinAxis, JvarsOf, Jvar, Mentions

\* Neighbours share a variable, in the fields of their edge.
LEMMA EdgesShare ==
  ASSUME J!GraphOfQuery, OnePlace, NEW t \in TP, NEW u \in J!Range(Adj[t])
  PROVE  /\ u \in TP
         /\ Query[t][J!Edge(t, u)[1]] < 0
         /\ Query[t][J!Edge(t, u)[1]] = Query[u][J!Edge(t, u)[2]]
         /\ J!Edge(t, u)[1] \in Fields /\ J!Edge(t, u)[2] \in Fields
<1>1. u \in TP /\ u # t
  BY J!AdjType, QueryAssumption, SizesAssumption, GraphAssumption
     DEF J!TP, TP, J!Triple, J!Id, J!Fields, Fields
<1>2. PICK f \in Fields, g \in Fields : Query[t][f] < 0 /\ Query[t][f] = Query[u][g]
  BY <1>1 DEF J!GraphOfQuery, J!Share, J!TP, TP, J!Fields, Fields
<1>3. (f = "pred") <=> (g = "pred")
  <2>1. Query[t][f] \in Jvar /\ Mentions(t, Query[t][f]) /\ Mentions(u, Query[t][f])
    BY <1>1, <1>2 DEF Jvar, Mentions
  <2>2. PosOf(t, Query[t][f]) = "PRED" <=> f = "pred"
    BY <1>2 DEF OnePlace, PosOf, Fields
  <2>3. PosOf(u, Query[t][f]) = "PRED" <=> g = "pred"
    BY <1>1, <1>2 DEF OnePlace, PosOf, Fields
  <2>. QED
    BY <1>1, <2>1, <2>2, <2>3, NoMixedPredicateJoin
<1>. QED
  BY <1>1, <1>2, <1>3 DEF J!Edge, Fields

\* Pruning keeps to the form of bitmats that matching takes.
LEMMA HandedInput ==
  ASSUME Agree, Fetched
  PROVE  [dimension |-> plan.dimension, bm |-> bm,
          objfold |-> [t \in TP |-> fold[<<t, "objfold">>]]] \in J!Input
<1>1. /\ plan \in Plans /\ bm \in [TP -> SUBSET Cell] /\ fold \in [TP \X Axis -> SUBSET Nat]
      /\ \A t \in TP : bm[t] \subseteq plan.bm[t]
  BY DEF Agree, Reload, Shrink, Shape, TypeOK, CellsLoaded
<1>2. plan.dimension \in [TP -> Dimension]
  BY <1>1, PruneAssumption DEF Plan
<1>3. bm \in [TP -> SUBSET (J!Id \X J!Id)] /\ \A t \in TP : J!Oriented(plan.dimension[t], t)
  BY <1>1 DEF Fetched
<1>4. [t \in TP |-> fold[<<t, "objfold">>]] \in [TP -> SUBSET Nat]
  BY <1>1 DEF Axis
<1>. QED
  BY <1>2, <1>3, <1>4 DEF J!Input, J!TP, TP, J!Dimension, Dimension

\* A single row has one variable, no other free position, and its columns are the
\* ids of the variable.
LEMMA SingleVariable ==
  ASSUME plan \in Plans, OnePlace, Fetched, NEW t \in TP, J!SingleRow(t), NEW j \in JvarsOf(t)
  PROVE  /\ NumJvars(t) = 1 /\ UnfoldsNow(t)
         /\ AxisOf(t, j) = "objfold" /\ PosOf(t, j) # "PRED"
<1>1. PICK f \in Fields : Query[t][f] = j /\ j < 0
  BY DEF JvarsOf, Jvar, Mentions
<1>2. /\ Query[t].pred > 0 /\ (Query[t].sub > 0 \/ Query[t].obj > 0)
      /\ Query[t].sub \in Int /\ Query[t].pred \in Int /\ Query[t].obj \in Int
  <2>1. Query[t] \in [sub : Int, pred : Int, obj : Int]
    BY QueryAssumption, SeqElement DEF TP
  <2>. QED
    BY <2>1 DEF J!SingleRow
<1>3. {g \in Fields : Query[t][g] < 0} = {f} /\ {g \in Fields : Query[t][g] <= 0} = {f}
  BY <1>1, <1>2 DEF Fields
<1>4. NumJvars(t) = 1 /\ NumVars(t) = 1
  BY <1>3, FS_Singleton DEF NumJvars, NumVars
<1>5. PosOf(t, j) # "PRED"
  BY <1>1, <1>2 DEF PosOf, Fields
<1>6. plan.dimension[t] \in {"PSO", "POS"}
  BY DEF Fetched
<1>. QED
  BY <1>4, <1>5, <1>6 DEF UnfoldsNow, AxisOf, JoinAxis

\* What is left of a single row when pruning returns is its predicate's row, with
\* its fold in step.
LEMMA HandedTidy ==
  ASSUME Bound, pc = "true", OnePlace, Fetched
  PROVE  J!SingleRowsTidy
<1>1. plan \in Plans /\ CellsLoaded
  BY DEF Bound, Agree, Reload, Shrink, Shape
<1>2. SUFFICES ASSUME NEW t \in TP, J!SingleRow(t)
               PROVE  /\ \A c \in bm[t] : c[1] = Query[t].pred
                      /\ fold[<<t, "objfold">>] = {c[2] : c \in bm[t]}
  BY DEF J!SingleRowsTidy, J!TP, TP
<1>3. PICK j \in JvarsOf(t) : TRUE
  BY <1>1 DEF Fetched
<1>4. fold[<<t, AxisOf(t, j)>>] = Bindings(t, j) /\ AxisOf(t, j) = "objfold"
  BY <1>1, <1>2, <1>3, SingleVariable DEF Bound, SinglesExact
<1>5. Bindings(t, j) = {c[2] : c \in bm[t]}
  BY <1>4 DEF Bindings, SimpleFold, Coord
<1>. QED
  BY <1>1, <1>2, <1>4, <1>5 DEF CellsLoaded, Fetched

\* The variable of a single row is nowhere an object in ids that no unfold clears.
\* The row is asked for every id of a neighbour, and must be as long.
RowsReach ==
  \A t, u \in TP : J!SingleRow(t) =>
    \A j \in JvarsOf(t) : j \in JvarsOf(u) => Overhang(u, j) = {}

\* So it is where unfolds clear every such id, or the variable is in one position only.
LEMMA TailReaches == CommonTail => RowsReach
BY NoOverhang DEF RowsReach

LEMMA OnePositionReaches ==
  ASSUME \A t \in TP : J!SingleRow(t) => \A j \in JvarsOf(t) : ~SOVar(j)
  PROVE  RowsReach
BY DEF RowsReach, Overhang

\* Its neighbours have left only ids it has.
LEMMA HandedKnown ==
  ASSUME Bound, pc = "true", RowsReach, OnePlace, Fetched, J!GraphOfQuery
  PROVE  J!NeighboursKnown
<1>1. plan \in Plans
  BY DEF Bound, Agree, Reload, Shrink, Shape
<1>2. SUFFICES ASSUME NEW t \in TP, J!SingleRow(t), NEW u \in J!Range(Adj[t]), NEW c \in bm[u]
               PROVE  J!TripleOf(plan.dimension[u], u, c)[J!Edge(t, u)[2]] \in fold[<<t, "objfold">>]
  BY DEF J!NeighboursKnown, J!Triples, J!TP, TP
<1>. DEFINE f == J!Edge(t, u)[1]
            g == J!Edge(t, u)[2]
            j == Query[t][f]
<1>3. u \in TP /\ Query[t][f] < 0 /\ Query[u][g] = j /\ f \in Fields /\ g \in Fields
  BY EdgesShare
<1>. HIDE DEF f, g
<1>4. /\ J!TripleOf(plan.dimension[u], u, c)[g] = Coord(c, AxisOf(u, j))
      /\ j \in JvarsOf(u) /\ j \in JvarsOf(t)
  BY <1>1, <1>3, TripleField
<1>. HIDE DEF j
<1>5. UnfoldsNow(t) /\ AxisOf(t, j) = "objfold" /\ PosOf(t, j) # "PRED"
  BY <1>1, <1>2, <1>4, SingleVariable
<1>6. PosOf(u, j) # "PRED"
  BY <1>3, <1>4, <1>5, JvarsOfJvar, NoMixedPredicateJoin
<1>7. Bindings(u, j) \subseteq fold[<<t, "objfold">>]
  <2>1. Bindings(u, j) \subseteq fold[<<t, "objfold">>] \cup Overhang(u, j)
    BY <1>3, <1>4, <1>5, <1>6, LeftInFold
  <2>2. Overhang(u, j) = {}
    BY <1>2, <1>3, <1>4 DEF RowsReach
  <2>. QED
    BY <2>1, <2>2
<1>. QED
  BY <1>4, <1>7 DEF Bindings, SimpleFold, g

----------------------------------------------------------------------------
(***************************************************************************)
(* From pruning to matching.                                               *)
(***************************************************************************)

\* The queries and the data the theorems below are about, cyclic queries included.
Handed == Loaded /\ RowsReach /\ AllOrdered /\ OnePlace /\ Fetched /\ J!GraphOfQuery

\* Until pruning returns true matching waits, and from then on it is all there is.
LEMMA MatchWaits ==
  ASSUME [RunNext]_runVars, pc # "true"
  PROVE  UNCHANGED matchVars
BY DEF RunNext, PruneStep, MatchStep, CountLines, Ended, runVars

LEMMA MatchRuns ==
  ASSUME [RunNext]_runVars, pc = "true"
  PROVE  UNCHANGED vars /\ (UNCHANGED matchVars \/ M!Next)
BY DEF RunNext, PruneStep, MatchStep, CountLines, Ended, runVars, Returned

\* The two instances of Match have the same steps.
LEMMA SameSteps == M!Next <=> J!Next
BY ZenonT(30) DEF M!Next, J!Next, M!TP, J!TP, M!Fields, J!Fields, M!NumJvars, J!NumJvars, M!Coord, J!Coord,
   M!JoinAxis, J!JoinAxis, M!Range, J!Range, M!Mapped, J!Mapped, M!SingleRow, J!SingleRow,
   M!Edge, J!Edge, M!Required, J!Required, M!Conflict, J!Conflict, M!Focus, J!Focus,
   M!FocusId, J!FocusId, M!FocusAxis, J!FocusAxis, M!ByColumn, J!ByColumn,
   M!AssertFails, J!AssertFails, M!Candidates, J!Candidates, M!TripleOf, J!TripleOf,
   M!TriplesOf, J!TriplesOf, M!FirstOf, J!FirstOf, M!Compared, J!Compared,
   M!CheckBackEdges, J!CheckBackEdges, M!Top, J!Top, M!Below, J!Below, M!Trying, J!Trying,
   M!Rest, J!Rest, M!LastNode, J!LastNode, M!Agreeing, J!Agreeing, M!Extended, J!Extended,
   M!FirstIn, J!FirstIn, M!Unmapped, J!Unmapped, M!Tree, J!Tree,
   M!Children, J!Children, M!Waiting, J!Waiting, M!Refilled, J!Refilled, M!Visit, J!Visit,
   M!Cardinality, J!Cardinality, M!NumVars, J!NumVars, M!Begin, J!Begin,
   M!BeginNowhere, J!BeginNowhere, M!MismatchedTriple, J!MismatchedTriple,
   M!WriteRow, J!WriteRow, M!ExploreChild, J!ExploreChild, M!ExploreSibling, J!ExploreSibling,
   M!ExploreUnvisited, J!ExploreUnvisited, M!Return, J!Return,
   M!WithoutBitmat2, J!WithoutBitmat2

LEMMA MatchSteps ==
  ASSUME [RunNext]_runVars, pc = "true"
  PROVE  [J!Next]_(J!vars) /\ pc' = "true"
<1>1. UNCHANGED vars /\ (UNCHANGED matchVars \/ J!Next)
  BY MatchRuns, SameSteps
<1>2. UNCHANGED <<plan, bm, fold, pc>>
  BY <1>1 DEF vars
<1>3. UNCHANGED matchVars => UNCHANGED J!vars
  BY <1>2 DEF J!vars, matchVars
<1>. QED
  BY <1>1, <1>2, <1>3

LEMMA IdleStays ==
  ASSUME [RunNext]_runVars, pc # "true", J!Idle
  PROVE  J!Idle'
BY MatchWaits DEF matchVars, J!Idle

LEMMA RunStocked ==
  ASSUME Loaded, AllOrdered
  PROVE  RunSpec => []Stocked
<1>1. Init => Stocked
  BY InitStocked
<1>2. Stocked /\ [Next]_vars => Stocked'
  BY NextStocked
<1>. QED
  BY <1>1, <1>2, RunPrunes, PTL

LEMMA RunIdle == RunInit => J!Idle
BY DEF RunInit, M!Idle, J!Idle, M!TP, J!TP

\* Where matching begins.
LEMMA Begins ==
  ASSUME Handed, Stocked, pc = "true", J!Idle
  PROVE  J!Init /\ J!SingleRowsTidy /\ J!NeighboursKnown
<1>1. Bound /\ Agree
  BY DEF Stocked, Bound
<1>. QED
  BY <1>1, HandedInput, HandedTidy, HandedKnown DEF Handed, J!Init

\* Matching has a pattern to start from: none is left without a triple, and main
\* does not dereference the start node of an empty result.
THEOREM WalkHasStart ==
  ASSUME Loaded, AllOrdered, Fetched
  PROVE  RunSpec => [](phase # "crash")
<1>1. RunInit => phase # "crash"
  BY RunIdle DEF J!Idle
<1>2. Stocked /\ phase # "crash" /\ [RunNext]_runVars => (phase # "crash")'
  <2>. SUFFICES ASSUME Stocked, phase # "crash", [RunNext]_runVars, phase' = "crash"
                PROVE  FALSE
    OBVIOUS
  <2>1. pc = "true" /\ M!Next
    BY MatchWaits, MatchRuns DEF matchVars
  <2>2. M!BeginNowhere
    BY <2>1 DEF M!Next, M!Begin, M!MismatchedTriple, M!WriteRow, M!ExploreChild,
       M!ExploreSibling, M!ExploreUnvisited, M!Visit, M!Return
  <2>3. PICK t \in TP : bm[t] = {}
    BY <2>2 DEF M!BeginNowhere, M!TP, TP
  <2>4. plan \in Plans
    BY DEF Stocked, Bound, Agree, Reload, Shrink, Shape
  <2>. QED
    BY <2>1, <2>3, <2>4, LeftSome DEF Fetched
<1>. QED
  BY <1>1, <1>2, RunStocked, PTL DEF RunSpec

\* assert(0) on a single row without the id it is asked for is never reached:
\* pruning left its neighbours, in a cyclic query too, only ids that it has.
THEOREM AssertionHolds ==
  ASSUME Handed, J!PredicateJoinsAlone
  PROVE  RunSpec => []AssertHolds
<1>. DEFINE Walk == J!Idle \/ (pc = "true" /\ J!RealInv)
<1>1. RunInit => Walk
  BY RunIdle
<1>2. Stocked /\ pc = "true" /\ J!Idle => J!RealInv
  BY Begins, J!InitReal, QueryAssumption, SizesAssumption, GraphAssumption
     DEF J!TP, TP, J!Triple, J!Id, J!Fields, Fields
<1>3. pc = "true" /\ J!RealInv /\ [RunNext]_runVars => pc' = "true" /\ J!RealInv'
  BY MatchSteps, J!NextReal, QueryAssumption, SizesAssumption, GraphAssumption
     DEF J!TP, TP, J!Triple, J!Id, J!Fields, Fields
<1>4. Stocked /\ Walk /\ [RunNext]_runVars => Walk'
  BY <1>2, <1>3, IdleStays
<1>5. Walk => AssertHolds
  BY DEF J!Idle, J!RealInv, J!AssertHolds, AssertHolds, M!AssertHolds
<1>. HIDE DEF Walk
<1>. QED
  BY <1>1, <1>4, <1>5, RunStocked, PTL DEF RunSpec, Handed

----------------------------------------------------------------------------
(***************************************************************************)
(* The rows a binding stands for: a triple that fits it for each pattern.  *)
(***************************************************************************)
Fitting(sol) == [t \in TP |-> {M!TripleOf(plan.dimension[t], t, c) :
                                 c \in {x \in plan.bm[t] : Matches(x, t, sol)}}]

\* The ways to take one element of each of the first n sets.
Ways(fits, n) == {r \in [1 .. n -> UNION {fits[t] : t \in TP}] : \A i \in 1 .. n : r[i] \in fits[i]}

Longer(S, xs) == {Append(r, x) : r \in S, x \in xs}

LEMMA PatternsFrom1 == TP = 1 .. Len(Query) /\ Len(Query) \in Nat \ {0}
<1>1. Query \in Seq([sub : Int, pred : Int, obj : Int]) /\ Query # << >>
  BY QueryAssumption
<1>. QED
  BY <1>1 DEF TP

LEMMA EmptyWay ==
  ASSUME NEW fits
  PROVE  Ways(fits, 0) = {<< >>}
<1>. DEFINE U == UNION {fits[t] : t \in TP}
<1>1. \A r : r \in [1 .. 0 -> U] <=> r = << >>
  <2>1. 1 .. 0 = {}
    OBVIOUS
  <2>2. << >> \in [1 .. 0 -> U]
    BY <2>1
  <2>3. ASSUME NEW r \in [1 .. 0 -> U] PROVE r = << >>
    BY <2>1, <2>3
  <2>. QED
    BY <2>2, <2>3
<1>2. Ways(fits, 0) = {r \in [1 .. 0 -> U] : \A i \in 1 .. 0 : r[i] \in fits[i]}
  BY DEF Ways
<1>3. \A i : i \notin 1 .. 0
  OBVIOUS
<1>. HIDE DEF U
<1>. QED
  BY <1>1, <1>2, <1>3

LEMMA LongerWays ==
  ASSUME NEW fits, NEW n \in TP
  PROVE  Ways(fits, n) = Longer(Ways(fits, n - 1), fits[n])
<1>. DEFINE U == UNION {fits[t] : t \in TP}
            L == {r \in [1 .. n -> U] : \A i \in 1 .. n : r[i] \in fits[i]}
            S == {r \in [1 .. n - 1 -> U] : \A i \in 1 .. n - 1 : r[i] \in fits[i]}
<1>1. Ways(fits, n) = L /\ Ways(fits, n - 1) = S
  BY DEF Ways
<1>2. n \in Nat \ {0} /\ n - 1 \in Nat /\ fits[n] \subseteq U
  BY PatternsFrom1
<1>. HIDE DEF U
<1>3. ASSUME NEW r \in S, NEW tr \in fits[n]
      PROVE  Append(r, tr) \in L
  <2>1. r \in Seq(U) /\ Len(r) = n - 1 /\ tr \in U
    BY <1>2, <1>3
  <2>2. Append(r, tr) \in Seq(U) /\ Len(Append(r, tr)) = n
    BY <1>2, <2>1
  <2>3. \A i \in 1 .. n : Append(r, tr)[i] = IF i = n THEN tr ELSE r[i]
    BY <1>2, <2>1
  <2>4. Append(r, tr) \in [1 .. n -> U]
    <3>1. \A s \in Seq(U) : s \in [1 .. Len(s) -> U]
      OBVIOUS
    <3>. QED
      BY <2>2, <3>1
  <2>5. \A i \in 1 .. n : i # n => i \in 1 .. n - 1
    BY <1>2
  <2>. QED
    BY <1>3, <2>3, <2>4, <2>5
<1>4. ASSUME NEW r \in L
      PROVE  \E q \in S, tr \in fits[n] : r = Append(q, tr)
  <2>. DEFINE q == [i \in 1 .. n - 1 |-> r[i]]
  <2>1. \A i \in 1 .. n - 1 : i \in 1 .. n
    BY <1>2
  <2>2. q \in S
    BY <2>1
  <2>3. n \in 1 .. n /\ r[n] \in fits[n] /\ r[n] \in U
    BY <1>2
  <2>4. q \in Seq(U) /\ Len(q) = n - 1
    BY <1>2, <2>2
  <2>5. r \in Seq(U) /\ Len(r) = n
    BY <1>2
  <2>6. Append(q, r[n]) \in Seq(U) /\ Len(Append(q, r[n])) = n
    BY <1>2, <2>3, <2>4
  <2>7. \A i \in 1 .. n : Append(q, r[n])[i] = r[i]
    <3>1. \A i \in 1 .. n : i = n \/ i \in 1 .. n - 1
      BY <1>2
    <3>2. \A i \in 1 .. n - 1 : q[i] = r[i]
      OBVIOUS
    <3>. HIDE DEF q
    <3>. QED
      BY <1>2, <2>3, <2>4, <3>1, <3>2
  <2>. HIDE DEF q
  <2>8. r = Append(q, r[n])
    BY <2>5, <2>6, <2>7
  <2>. QED
    BY <2>2, <2>3, <2>8
<1>. HIDE DEF L, S
<1>5. \A x : x \in Longer(S, fits[n]) <=> \E q \in S : \E tr \in fits[n] : x = Append(q, tr)
  BY DEF Longer
<1>6. L = Longer(S, fits[n])
  BY <1>3, <1>4, <1>5
<1>. QED
  BY <1>1, <1>6

LEMMA RowsOfAre ==
  ASSUME NEW sol
  PROVE  RowsOf(sol) = Ways(Fitting(sol), Len(Query))
<1>. DEFINE fits == Fitting(sol)
            found[n \in 0 .. Len(Query)] ==
              IF n = 0 THEN {<< >>} ELSE {Append(r, tr) : r \in found[n - 1], tr \in fits[n]}
            Grown(f) == [n \in 0 .. Len(Query) |->
              IF n = 0 THEN {<< >>} ELSE Longer(f[n - 1], fits[n])]
            all == [n \in 0 .. Len(Query) |-> Ways(fits, n)]
<1>1. RowsOf(sol) = found[Len(Query)]
  BY DEF RowsOf, Combined, Fitting
<1>2. found = CHOOSE f : f = Grown(f)
  BY DEF Longer
<1>. HIDE DEF fits, found
<1>3. ASSUME NEW f, f = Grown(f)
      PROVE  f[Len(Query)] = Ways(fits, Len(Query))
  <2>1. \A n \in 0 .. Len(Query) :
          f[n] = IF n = 0 THEN {<< >>} ELSE Longer(f[n - 1], fits[n])
    BY <1>3
  <2>. DEFINE T == {n \in 0 .. Len(Query) : f[n] # Ways(fits, n)}
  <2>2. CASE T = {}
    <3>1. Len(Query) \in 0 .. Len(Query)
      BY PatternsFrom1
    <3>. QED
      BY <2>2, <3>1
  <2>3. CASE T # {}
    <3>1. T \in SUBSET Nat
      OBVIOUS
    <3>2. PICK n \in T : \A m \in T : n <= m
      BY <2>3, <3>1, LeastNat
    <3>3. n # 0
      BY <2>1, <3>2, EmptyWay
    <3>4. n \in TP /\ n - 1 \in 0 .. Len(Query) /\ ~(n <= n - 1)
      BY <3>2, <3>3, PatternsFrom1
    <3>5. f[n - 1] = Ways(fits, n - 1)
      BY <3>2, <3>4
    <3>6. f[n] = Longer(Ways(fits, n - 1), fits[n])
      BY <2>1, <3>2, <3>3, <3>5
    <3>. QED
      BY <3>2, <3>4, <3>6, LongerWays
  <2>. QED
    BY <2>2, <2>3
<1>4. all = Grown(all)
  <2>1. ASSUME NEW n \in 0 .. Len(Query), n # 0
        PROVE  Ways(fits, n) = Longer(all[n - 1], fits[n])
    <3>1. n \in TP /\ n - 1 \in 0 .. Len(Query)
      BY <2>1, PatternsFrom1
    <3>2. all[n - 1] = Ways(fits, n - 1)
      BY <3>1
    <3>. QED
      BY <3>1, <3>2, LongerWays
  <2>. QED
    BY <2>1, EmptyWay
<1>. HIDE DEF Grown, all
<1>5. found = Grown(found)
  BY <1>2, <1>4
<1>. QED
  BY <1>1, <1>3, <1>5 DEF fits

----------------------------------------------------------------------------
(***************************************************************************)
(* Rows and joins.                                                         *)
(***************************************************************************)

\* What is asked of a query is a matter of the bitmats as they were loaded.
Told == expected = Answer /\ answers = Solutions

LEMMA StillTold ==
  ASSUME Told, [RunNext]_runVars
  PROVE  Told'
<1>1. plan' = plan
  BY RunStepPrunes DEF Next, EnterNode, SkipLeaf, JoinFirst, JoinAnd, UnfoldUnchanged, UnfoldFoldOnly,
     UnfoldCells, UnfoldReloadsNothing, TryAgain, ReturnTrue, FixAllTpBitmats, Finished, fixed, vars
<1>2. answers' = answers /\ expected' = expected
  BY RunFrame
<1>3. Solutions' = Solutions
  BY <1>1, PlanFrame DEF Solutions, LoadedIds, Matches
<1>4. \A sol : RowsOf(sol)' = RowsOf(sol)
  <2>1. \A c, t, sol : Matches(c, t, sol)' = Matches(c, t, sol)
    BY <1>1, PlanFrame DEF Matches
  <2>. QED
    BY <1>1, <2>1 DEF RowsOf
<1>5. Answer' = Answer
  BY <1>2, <1>4 DEF Answer
<1>. QED
  BY <1>2, <1>3, <1>5 DEF Told

LEMMA SameTriples == \A dim, t, c : M!TripleOf(dim, t, c) = J!TripleOf(dim, t, c)
BY DEF M!TripleOf, J!TripleOf

\* Triples that agree on the edges agree on the variables.
LEMMA VariablesAgree ==
  ASSUME Handed, J!SharedOnce, NEW r, J!IsJoin(r),
         NEW t \in TP, NEW f \in Fields, NEW u \in TP, NEW g \in Fields,
         Query[t][f] < 0, Query[t][f] = Query[u][g]
  PROVE  r[t][f] = r[u][g]
<1>1. t = u => f = g
  BY DEF Handed, OnePlace
<1>2. t # u => u \in J!Range(Adj[t]) /\ J!Edge(t, u) = <<f, g>>
  BY DEF Handed, J!GraphOfQuery, J!SharedOnce, J!Share, J!TP, TP, J!Fields, Fields
<1>3. u \in J!Range(Adj[t]) => r[t][J!Edge(t, u)[1]] = r[u][J!Edge(t, u)[2]]
  BY DEF J!IsJoin, J!TP, TP
<1>4. t = u => r[t][f] = r[u][g]
  BY <1>1
<1>5. t # u => r[t][f] = r[u][g]
  BY <1>2, <1>3
<1>. QED
  BY <1>4, <1>5

\* A join of what pruning leaves is a row of the answer: in an S-O join too, since
\* none but common ids are left there.
LEMMA JoinIsAnswer ==
  ASSUME Handed, J!SharedOnce, Bound, pc = "true", Told, NEW r, J!IsJoin(r)
  PROVE  r \in expected
<1>. DEFINE cell == [t \in TP |-> CHOOSE c \in bm[t] : r[t] = J!TripleOf(plan.dimension[t], t, c)]
            At(j, p) == p \in TP \X Fields /\ Query[p[1]][p[2]] = j
            sol == [j \in Jvar |-> LET p == CHOOSE p : At(j, p) IN r[p[1]][p[2]]]
<1>1. plan \in Plans /\ OnePlace /\ Fetched /\ \A t \in TP : bm[t] \subseteq plan.bm[t]
  BY DEF Handed, Bound, Agree, Reload, Shrink, Shape, CellsLoaded
<1>2. ASSUME NEW t \in TP
      PROVE  cell[t] \in bm[t] /\ r[t] = J!TripleOf(plan.dimension[t], t, cell[t])
  <2>1. \E c \in bm[t] : r[t] = J!TripleOf(plan.dimension[t], t, c)
    BY DEF J!IsJoin, J!Triples, J!TP, TP
  <2>. QED
    BY <2>1
<1>. HIDE DEF cell
<1>3. ASSUME NEW t \in TP, NEW f \in Fields, Query[t][f] < 0
      PROVE  r[t][f] = Coord(cell[t], AxisOf(t, Query[t][f]))
  BY <1>1, <1>2, <1>3, TripleField
<1>4. ASSUME NEW j \in Jvar
      PROVE  \E t \in TP : \E f \in Fields : Query[t][f] = j /\ j < 0 /\ sol[j] = r[t][f]
  <2>. DEFINE p == CHOOSE p : At(j, p)
  <2>1. PICK t \in TP, f \in Fields : Query[t][f] = j
    BY DEF Jvar
  <2>2. At(j, <<t, f>>)
    BY <2>1
  <2>3. At(j, p)
    BY <2>2
  <2>. HIDE DEF p
  <2>4. sol[j] = r[p[1]][p[2]]
    BY DEF p
  <2>5. p[1] \in TP /\ p[2] \in Fields /\ Query[p[1]][p[2]] = j /\ j < 0
    BY <2>3 DEF Jvar
  <2>. QED
    BY <2>4, <2>5
<1>. HIDE DEF sol
<1>5. ASSUME NEW t \in TP, NEW j \in JvarsOf(t)
      PROVE  sol[j] = Coord(cell[t], AxisOf(t, j))
  <2>1. PICK f \in Fields : Query[t][f] = j /\ j \in Jvar
    BY DEF JvarsOf, Mentions
  <2>2. PICK u \in TP, g \in Fields : Query[u][g] = j /\ j < 0 /\ sol[j] = r[u][g]
    BY <1>4, <2>1
  <2>3. Query[u][g] < 0 /\ Query[u][g] = Query[t][f]
    BY <2>1, <2>2
  <2>4. r[u][g] = r[t][f]
    BY <2>1, <2>2, <2>3, VariablesAgree
  <2>. QED
    BY <1>3, <2>1, <2>2, <2>4
<1>6. ASSUME NEW j \in Jvar
      PROVE  sol[j] \in LoadedIds /\ (SOVar(j) => sol[j] <= NumCommSO)
  <2>1. \A t \in TP : j \in JvarsOf(t) => sol[j] \in Bindings(t, j)
    BY <1>2, <1>5 DEF Bindings, SimpleFold
  <2>2. PICK t \in TP : j \in JvarsOf(t)
    BY <1>4 DEF JvarsOf, Mentions
  <2>3. sol[j] \in SimpleFold(plan.bm[t], AxisOf(t, j)) /\ AxisOf(t, j) \in Axis
    BY <1>1, <2>1, <2>2, AxisOfType DEF Bindings, SimpleFold
  <2>4. ASSUME SOVar(j) PROVE sol[j] <= NumCommSO
    <3>1. PICK u \in TP : Mentions(u, j) /\ PosOf(u, j) = "SUB"
      BY <2>4 DEF SOVar
    <3>2. j \in JvarsOf(u)
      BY <3>1 DEF JvarsOf
    <3>3. Bindings(u, j) \subseteq CommonIds \cup Overhang(u, j)
      BY <2>4, <3>1, <3>2, LeftCommon
    <3>4. Overhang(u, j) = {}
      BY <3>1 DEF Overhang
    <3>. QED
      BY <2>1, <3>2, <3>3, <3>4 DEF CommonIds
  <2>. QED
    BY <2>3, <2>4 DEF LoadedIds
<1>7. ASSUME NEW t \in TP
      PROVE  cell[t] \in plan.bm[t] /\ Matches(cell[t], t, sol)
  BY <1>1, <1>2, <1>5 DEF Matches
<1>8. sol \in [Jvar -> LoadedIds]
  BY <1>6 DEF sol
<1>9. sol \in answers
  BY <1>6, <1>7, <1>8 DEF Told, Solutions
<1>10. \A t \in TP : r[t] \in Fitting(sol)[t]
  BY <1>2, <1>7, SameTriples DEF Fitting
<1>11. r \in Ways(Fitting(sol), Len(Query))
  <2>1. r \in [TP -> UNION {Fitting(sol)[t] : t \in TP}]
    BY <1>10 DEF J!IsJoin, J!TP, TP
  <2>. QED
    BY <1>10, <2>1, PatternsFrom1 DEF Ways
<1>. QED
  BY <1>9, <1>11, RowsOfAre DEF Told, Answer

\* A row of the answer is a join of the bitmats as long as no triple of it is lost.
LEMMA AnswerIsJoin ==
  ASSUME Handed, Agree, NoAnswerLost, Told, NEW r \in expected
  PROVE  J!IsJoin(r)
<1>1. plan \in Plans /\ OnePlace /\ Fetched
  BY DEF Handed, Agree, Reload, Shrink, Shape
<1>2. PICK sol \in answers : r \in Ways(Fitting(sol), Len(Query))
  BY RowsOfAre DEF Told, Answer
<1>3. r \in [TP -> UNION {Fitting(sol)[t] : t \in TP}] /\ \A t \in TP : r[t] \in Fitting(sol)[t]
  BY <1>2, PatternsFrom1 DEF Ways
<1>4. ASSUME NEW t \in TP
      PROVE  \E c \in bm[t] : r[t] = J!TripleOf(plan.dimension[t], t, c) /\ Matches(c, t, sol)
  BY <1>2, <1>3, SameTriples DEF Fitting, NoAnswerLost
<1>5. ASSUME NEW t \in TP, NEW f \in Fields, Query[t][f] < 0
      PROVE  r[t][f] = sol[Query[t][f]]
  BY <1>1, <1>4, <1>5, TripleField DEF Matches
<1>6. \A t \in TP : r[t] \in J!Triples(t)
  BY <1>4 DEF J!Triples
<1>7. \A t \in TP : r[t] \in J!Triple
  BY <1>1, <1>6, HandedInput, J!TriplesType, QueryAssumption, SizesAssumption, GraphAssumption
     DEF J!TP, TP, J!Triple, J!Id, J!Fields, Fields
<1>8. \A t \in TP : \A u \in J!Range(Adj[t]) : r[t][J!Edge(t, u)[1]] = r[u][J!Edge(t, u)[2]]
  BY <1>1, <1>5, EdgesShare DEF Handed
<1>. QED
  BY <1>3, <1>6, <1>7, <1>8 DEF J!IsJoin, J!TP, TP

LEMMA SameConflict == \A t : M!Conflict(maps, t) <=> J!Conflict(maps, t)
BY DEF M!Conflict, J!Conflict, M!Required, J!Required, M!Mapped, J!Mapped, M!Edge, J!Edge,
   M!Range, J!Range, M!Fields, J!Fields, M!TP, J!TP

LEMMA SameBackEdges == BackEdgesSeen <=> J!BackEdgesSeen
BY DEF BackEdgesSeen, M!BackEdgesSeen, J!BackEdgesSeen, M!LookedUp, J!LookedUp, M!TP, J!TP,
   M!Fields, J!Fields, M!NumJvars, J!NumJvars, M!Coord, J!Coord, M!JoinAxis, J!JoinAxis, M!Range, J!Range,
   M!Mapped, J!Mapped, M!SingleRow, J!SingleRow, M!Edge, J!Edge, M!Required, J!Required,
   M!Conflict, J!Conflict, M!Focus, J!Focus, M!FocusId, J!FocusId, M!FocusAxis, J!FocusAxis,
   M!ByColumn, J!ByColumn, M!Compared, J!Compared, M!Top, J!Top, M!Cardinality, J!Cardinality

----------------------------------------------------------------------------
(***************************************************************************)
(* The results of a query.                                                 *)
(***************************************************************************)

\* Pruning and matching, as far as the theorems below need them.
Reliable == Stocked /\ Sound /\ Told

LEMMA RunReliable ==
  ASSUME Handed, PartialLastByte
  PROVE  RunSpec => []Reliable
<1>1. CompleteFolds
  BY DEF Handed, Loaded, Assumed
<1>2. RunInit => Told
  BY DEF RunInit, Init, Told
<1>3. Told /\ [RunNext]_runVars => Told'
  BY StillTold
<1>4. RunSpec => []Told
  BY <1>2, <1>3, PTL DEF RunSpec
<1>5. RunSpec => []Stocked
  BY RunStocked DEF Handed
<1>6. RunSpec => []Sound
  BY <1>1, RunSound
<1>. QED
  BY <1>4, <1>5, <1>6, PTL DEF Reliable

\* The walk keeps to joins.
Joining == J!Idle \/ (pc = "true" /\ J!JoinInv)

LEMMA RunJoins ==
  ASSUME Handed, J!SharedOnce, J!PredicateJoinsAlone
  PROVE  RunSpec /\ []BackEdgesSeen => [](Stocked /\ Joining)
<1>1. RunInit => Joining
  BY RunIdle DEF Joining
<1>2. J!EdgesMeet
  BY J!SharedEdges, QueryAssumption, SizesAssumption, GraphAssumption
     DEF Handed, J!TP, TP, J!Triple, J!Id, J!Fields, Fields
<1>3. Stocked /\ pc = "true" /\ J!Idle => J!JoinInv
  BY Begins, J!InitJoin, QueryAssumption, SizesAssumption, GraphAssumption
     DEF J!TP, TP, J!Triple, J!Id, J!Fields, Fields
<1>4. pc = "true" /\ J!JoinInv /\ J!BackEdgesSeen /\ [RunNext]_runVars => pc' = "true" /\ J!JoinInv'
  BY <1>2, MatchSteps, J!NextJoin, QueryAssumption, SizesAssumption, GraphAssumption
     DEF J!TP, TP, J!Triple, J!Id, J!Fields, Fields
<1>5. Stocked /\ Joining /\ J!BackEdgesSeen /\ [RunNext]_runVars => Joining'
  BY <1>3, <1>4, IdleStays DEF Joining
<1>6. BackEdgesSeen <=> J!BackEdgesSeen
  BY SameBackEdges
<1>7. RunSpec => []Stocked
  BY RunStocked DEF Handed
<1>. QED
  BY <1>1, <1>5, <1>6, <1>7, PTL DEF RunSpec

\* "FATAL ERROR.. this kind of thing should have never happened" is not printed, in
\* a query whose patterns share one variable each at most and whose back edges
\* the walk sees.
THEOREM NoFatalInQuery ==
  ASSUME Handed, J!SharedOnce, J!PredicateJoinsAlone
  PROVE  RunSpec /\ []BackEdgesSeen => []NeverFatal
<1>1. Joining => NeverFatal
  <2>1. SUFFICES ASSUME J!JoinInv, phase = "match" PROVE ~J!Conflict(maps, J!Top.node)
    BY SameConflict DEF Joining, J!Idle, NeverFatal, M!NeverFatal, M!Top, J!Top
  <2>2. J!Top.node \in TP /\ J!Fits(maps)
    BY <2>1, J!TopType, QueryAssumption, SizesAssumption, GraphAssumption
       DEF J!JoinInv, J!Inv, J!PhaseOK, J!MapsFit, J!Frame, J!TP, TP, J!Triple, J!Id, J!Fields, Fields
  <2>. QED
    BY <2>2, J!FitsNoConflict, QueryAssumption, SizesAssumption, GraphAssumption
       DEF Handed, J!TP, TP, J!Triple, J!Id, J!Fields, Fields
<1>. QED
  BY <1>1, RunJoins, PTL

\* Every row of the results file is a row of the answer over the bitmats as they
\* were loaded, in a query whose back edges the walk sees.
THEOREM RowsAnswer ==
  ASSUME Handed, PartialLastByte, J!SharedOnce, J!PredicateJoinsAlone
  PROVE  RunSpec /\ []BackEdgesSeen => []RowsAreAnswers
<1>1. Reliable /\ Joining => RowsAreAnswers
  <2>1. CASE J!Idle
    BY <2>1 DEF J!Idle, RowsAreAnswers
  <2>2. CASE pc = "true" /\ J!JoinInv
    BY <2>2, JoinIsAnswer DEF Reliable, Stocked, J!JoinInv, J!RowsFit, RowsAreAnswers
  <2>. QED
    BY <2>1, <2>2 DEF Joining
<1>. QED
  BY <1>1, RunJoins, RunReliable, PTL

----------------------------------------------------------------------------
(***************************************************************************)
(* All the rows, each once.                                                *)
(***************************************************************************)

\* The walk has every join ahead of it or in the file, and none there twice.
Completing == J!Idle \/ (pc = "true" /\ stray = {} /\ J!AheadInv /\ J!OnceInv)

\* No unset bitmat2 is taken for one.
LEMMA StrayStays ==
  ASSUME J!WithoutBitmat2 = {}, stray = {}, [J!Next]_(J!vars)
  PROVE  stray' = {}
BY DEF J!Next, J!vars, J!Begin, J!BeginNowhere, J!MismatchedTriple, J!WriteRow, J!ExploreChild,
   J!ExploreSibling, J!ExploreUnvisited, J!Visit, J!Return

LEMMA RunCompletes ==
  ASSUME Handed, J!EdgesMeet, J!PredicateJoinsAlone, J!WithoutBitmat2 = {}
  PROVE  RunSpec => [](Stocked /\ Completing)
<1>1. RunInit => Completing
  BY RunIdle DEF Completing
<1>2. Stocked /\ pc = "true" /\ J!Idle => stray = {} /\ J!AheadInv /\ J!OnceInv
  BY Begins, J!InitAhead, J!InitOnce, QueryAssumption, SizesAssumption, GraphAssumption
     DEF J!Idle, J!TP, TP, J!Triple, J!Id, J!Fields, Fields
<1>3. pc = "true" /\ stray = {} /\ J!AheadInv /\ J!OnceInv /\ [RunNext]_runVars
        => pc' = "true" /\ stray' = {} /\ J!AheadInv' /\ J!OnceInv'
  <2>1. ASSUME stray = {}, J!AheadInv, J!OnceInv, [J!Next]_(J!vars)
        PROVE  J!AheadInv' /\ J!OnceInv'
    BY <2>1, J!NextAhead, J!NextOnce, QueryAssumption, SizesAssumption, GraphAssumption
       DEF J!TP, TP, J!Triple, J!Id, J!Fields, Fields
  <2>. QED
    BY <2>1, MatchSteps, StrayStays
<1>4. Stocked /\ Completing /\ [RunNext]_runVars => Completing'
  BY <1>2, <1>3, IdleStays DEF Completing
<1>5. RunSpec => []Stocked
  BY RunStocked DEF Handed
<1>. QED
  BY <1>1, <1>4, <1>5, PTL DEF RunSpec

\* What the walk has printed when it is over.
Complete == phase = "done" => expected \subseteq Promised!Written

LEMMA CompleteAtEnd ==
  ASSUME Handed, Reliable, Completing
  PROVE  Complete
<1>1. SUFFICES ASSUME phase = "done", NEW r \in expected
               PROVE  \E i \in DOMAIN rows : r = rows[i]
  BY DEF Complete, Promised!Written
<1>2. J!AheadInv
  BY <1>1 DEF Completing, J!Idle
<1>3. J!IsJoin(r)
  BY AnswerIsJoin DEF Reliable, Stocked, Bound, Sound
<1>. QED
  BY <1>1, <1>2, <1>3 DEF J!AheadInv, J!JoinsAhead, J!Range

\* No row of the answer is missing from the results file when the walk is over,
\* though check_back_edges may look at too few neighbours and nothing restores
\* the unvisited patterns: neither pruning nor the order of the walk loses one.
THEOREM NothingMissed ==
  ASSUME Handed, PartialLastByte, J!EdgesMeet, J!PredicateJoinsAlone, J!WithoutBitmat2 = {}
  PROVE  RunSpec => [](phase = "done" => expected \subseteq Promised!Written)
<1>1. Reliable /\ Completing => (phase = "done" => expected \subseteq Promised!Written)
  BY CompleteAtEnd DEF Complete
<1>. QED
  BY <1>1, RunCompletes, RunReliable, PTL

----------------------------------------------------------------------------
(***************************************************************************)
(* A query implements Results.                                             *)
(***************************************************************************)

\* Where a query stands: what a step of Results may look at.
Correct ==
  /\ pc # "true" => J!Idle
  /\ RowsAreAnswers
  /\ Complete
  /\ \A i, m \in DOMAIN rows : rows[i] = rows[m] => i = m
  /\ rows \in Seq([J!TP -> J!Triple])
  /\ pc = "false" => expected = {}

LEMMA RunCorrect ==
  ASSUME Handed, PartialLastByte, J!SharedOnce, J!PredicateJoinsAlone, J!WithoutBitmat2 = {}
  PROVE  RunSpec /\ []BackEdgesSeen => []Correct
<1>1. J!EdgesMeet
  BY J!SharedEdges, QueryAssumption, SizesAssumption, GraphAssumption
     DEF Handed, J!TP, TP, J!Triple, J!Id, J!Fields, Fields
<1>2. CompleteFolds
  BY DEF Handed, Loaded, Assumed
<1>3. Reliable /\ Completing /\ RowsAreAnswers /\ (pc = "false" => expected = {}) => Correct
  <2>1. ASSUME Completing
        PROVE  /\ pc # "true" => J!Idle
               /\ \A i, m \in DOMAIN rows : rows[i] = rows[m] => i = m
               /\ rows \in Seq([J!TP -> J!Triple])
    <3>1. CASE J!Idle
      BY <3>1 DEF J!Idle
    <3>2. CASE J!OnceInv /\ pc = "true"
      BY <3>2 DEF J!OnceInv, J!RowsOnce, J!Inv, J!TypeOK
    <3>. QED
      BY <2>1, <3>1, <3>2 DEF Completing
  <2>. QED
    BY <2>1, CompleteAtEnd DEF Correct
<1>4. RunSpec => [](Stocked /\ Completing)
  BY <1>1, RunCompletes
<1>5. RunSpec => [](pc = "false" => expected = {})
  BY <1>2, ZeroIsTrue
<1>. QED
  BY <1>3, <1>4, <1>5, RowsAnswer, RunReliable, PTL

\* A step of the walk prints nothing, prints one more row, or ends it.
LEMMA WalkSteps ==
  ASSUME M!Next
  PROVE  /\ phase # "done"
         /\ \/ rows' = rows
            \/ phase' = phase /\ \E r : rows' = Append(rows, r)
BY DEF M!Next, M!Begin, M!BeginNowhere, M!MismatchedTriple, M!WriteRow, M!ExploreChild,
   M!ExploreSibling, M!ExploreUnvisited, M!Visit, M!Return, M!Trying

LEMMA RowIsWrite ==
  ASSUME Correct, Correct', expected' = expected, ~Over, ~Over', NEW r, rows' = Append(rows, r)
  PROVE  Promised!Write
<1>1. DOMAIN rows' = 1 .. Len(rows) + 1 /\ rows'[Len(rows) + 1] = r
      /\ \A i \in DOMAIN rows : i \in DOMAIN rows' /\ rows'[i] = rows[i] /\ i # Len(rows) + 1
  <2>1. ASSUME NEW s, NEW S, s \in Seq(S), Append(s, r) \in Seq(S)
        PROVE  /\ DOMAIN Append(s, r) = 1 .. Len(s) + 1 /\ Append(s, r)[Len(s) + 1] = r
               /\ \A i \in DOMAIN s : /\ i \in DOMAIN Append(s, r) /\ i # Len(s) + 1
                                    /\ Append(s, r)[i] = s[i]
    BY <2>1
  <2>. QED
    BY <2>1 DEF Correct
<1>2. Len(rows) + 1 \in DOMAIN rows'
  BY <1>1 DEF Correct
<1>3. r \in expected
  BY <1>1, <1>2 DEF Correct, RowsAreAnswers
<1>4. r \notin Promised!Written
  BY <1>1, <1>2 DEF Correct, Promised!Written
<1>. QED
  BY <1>3, <1>4 DEF Promised!Write

LEMMA OverIsEnd ==
  ASSUME Correct, Correct', expected' = expected, ~Over, Over', rows' = rows
  PROVE  Promised!End
<1>1. Promised!Written = expected
  <2>1. CASE pc' = "false"
    <3>1. rows' = << >> /\ expected' = {}
      BY <2>1 DEF Correct, J!Idle
    <3>. QED
      BY <3>1 DEF Promised!Written
  <2>2. CASE phase' = "done"
    <3>1. expected \subseteq Promised!Written
      BY <2>2 DEF Correct, Complete, Promised!Written
    <3>2. Promised!Written \subseteq expected
      BY DEF Correct, RowsAreAnswers, Promised!Written
    <3>. QED
      BY <3>1, <3>2
  <2>. QED
    BY <2>1, <2>2 DEF Over
<1>. QED
  BY <1>1 DEF Promised!End

LEMMA StepKeepsResults ==
  ASSUME Correct, Correct', [RunNext]_runVars
  PROVE  [Promised!Next]_(Promised!vars)
<1>1. expected' = expected
  BY RunFrame
<1>2. UNCHANGED <<rows, Over>> \/ (~Over /\ rows' = rows) \/ (~Over /\ ~Over' /\ \E r : rows' = Append(rows, r))
  <2>1. CASE PruneStep
    BY <2>1 DEF PruneStep, Correct, J!Idle, Over, Returned, matchVars
  <2>2. CASE MatchStep
    <3>1. pc = "true" /\ pc' = pc /\ M!Next
      BY <2>2 DEF MatchStep, vars
    <3>. QED
      BY <3>1, WalkSteps DEF Over
  <2>3. CASE CountLines \/ Ended \/ UNCHANGED runVars
    BY <2>3 DEF CountLines, Ended, runVars, vars, matchVars, Over
  <2>. QED
    BY <2>1, <2>2, <2>3 DEF RunNext
<1>3. CASE UNCHANGED <<rows, Over>>
  BY <1>1, <1>3 DEF Promised!vars
<1>4. CASE ~Over /\ rows' = rows
  <2>1. ~Over' => UNCHANGED Over
    BY <1>4 DEF Over
  <2>. QED
    BY <1>1, <1>3, <1>4, <2>1, OverIsEnd DEF Promised!Next
<1>5. CASE ~Over /\ ~Over' /\ \E r : rows' = Append(rows, r)
  BY <1>1, <1>5, RowIsWrite DEF Promised!Next
<1>. QED
  BY <1>2, <1>3, <1>4, <1>5

\* A query implements the safety part of Results: each line it prints is a row of
\* the answer that is not in the file yet, and it ends only when it has them all.
THEOREM KeepsSafeResults ==
  ASSUME Handed, PartialLastByte, J!SharedOnce, J!PredicateJoinsAlone, J!WithoutBitmat2 = {}
  PROVE  RunSpec /\ []BackEdgesSeen => Promised!Safety
<1>1. RunInit => Promised!Init
  BY RunIdle DEF RunInit, Init, J!Idle, Promised!Init, Over
<1>2. Correct /\ Correct' /\ [RunNext]_runVars => [Promised!Next]_(Promised!vars)
  BY StepKeepsResults
<1>. QED
  BY <1>1, <1>2, RunCorrect, PTL DEF RunSpec, Promised!Safety

----------------------------------------------------------------------------
(***************************************************************************)
(* The number of results.                                                  *)
(***************************************************************************)

\* The file main counts has the lines the walk has written.
Counted ==
  /\ phase = "idle" \/ lines = Len(rows)
  /\ reported # NULL /\ phase # "idle" => phase = "done" /\ reported = Len(rows)
  /\ reported # NULL => Over

LEMMA StillCounted ==
  ASSUME Counted, Correct, [RunNext]_runVars
  PROVE  Counted'
<1>1. CASE PruneStep
  <2>1. phase = "idle" /\ phase' = "idle" /\ reported' = reported
    BY <1>1 DEF PruneStep, matchVars, Correct, J!Idle, Returned
  <2>2. ~Over
    BY <1>1, <2>1 DEF PruneStep, Over, Returned
  <2>. QED
    BY <2>1, <2>2 DEF Counted
<1>2. CASE MatchStep
  <2>1. ~Over /\ lines' = Len(rows') /\ reported' = reported
    BY <1>2, WalkSteps DEF MatchStep, Over
  <2>. QED
    BY <2>1 DEF Counted
<1>3. CASE CountLines
  BY <1>3 DEF CountLines, Counted, matchVars, vars, Over, Correct, J!Idle
<1>4. CASE Ended \/ UNCHANGED runVars
  BY <1>4 DEF Ended, runVars, vars, matchVars, Counted, Over
<1>. QED
  BY <1>1, <1>2, <1>3, <1>4 DEF RunNext

LEMMA AllOfThem ==
  ASSUME Correct, phase = "done"
  PROVE  Cardinality(expected) = Len(rows)
<1>1. expected = {rows[i] : i \in 1 .. Len(rows)}
  BY DEF Correct, Complete, RowsAreAnswers, Promised!Written
<1>2. ExistsBijection(1 .. Len(rows), expected)
  <2>. DEFINE f == [i \in 1 .. Len(rows) |-> rows[i]]
  <2>1. f \in [1 .. Len(rows) -> expected]
    BY <1>1
  <2>2. \A i, m \in 1 .. Len(rows) : f[i] = f[m] => i = m
    BY DEF Correct
  <2>3. \A r \in expected : \E i \in 1 .. Len(rows) : f[i] = r
    BY <1>1
  <2>. HIDE DEF f
  <2>4. f \in Bijection(1 .. Len(rows), expected)
    BY <2>1, <2>2, <2>3, Zenon DEF Bijection, Injection, Surjection, IsInjective
  <2>. QED
    BY <2>4 DEF ExistsBijection
<1>3. IsFiniteSet(1 .. Len(rows)) /\ Cardinality(1 .. Len(rows)) = Len(rows)
  <2>1. Len(rows) \in Nat
    BY DEF Correct
  <2>2. ASSUME NEW n \in Nat
        PROVE  IsFiniteSet(1 .. n) /\ Cardinality(1 .. n) = n
    BY FS_Interval
  <2>. QED
    BY <2>1, <2>2
<1>. QED
  BY <1>2, <1>3, FS_Bijection

\* "Number of results" is the size of the answer in a query that pruning did not
\* give up: main counts lines, and every row is one line.
THEOREM CountIsAnswer ==
  ASSUME Handed, PartialLastByte, J!SharedOnce, J!PredicateJoinsAlone, J!WithoutBitmat2 = {}
  PROVE  RunSpec /\ []BackEdgesSeen
           => [](phase = "done" /\ reported # NULL => reported = Cardinality(expected))
<1>1. RunInit => Counted
  BY RunIdle DEF RunInit, J!Idle, Counted
<1>2. Counted /\ Correct /\ [RunNext]_runVars => Counted'
  BY StillCounted
<1>3. Counted /\ Correct => (phase = "done" /\ reported # NULL => reported = Cardinality(expected))
  BY AllOfThem DEF Counted
<1>. QED
  BY <1>1, <1>2, <1>3, RunCorrect, PTL DEF RunSpec

----------------------------------------------------------------------------
(***************************************************************************)
(* Star queries.                                                           *)
(***************************************************************************)

\* init_tp_nodes_new loads a pattern with one join variable and a free position by
\* that variable.
FetchedByJvar ==
  \A p \in Plans : \A t \in TP : NumJvars(t) = 1 /\ Query[t].pred > 0 /\ ~J!SingleRow(t) =>
    /\ Query[t].sub < 0 => p.dimension[t] = "SPO"
    /\ Query[t].obj < 0 => p.dimension[t] = "OPS"

\* Patterns with one variable each share it in one way.
LEMMA StarSharesOnce ==
  ASSUME Handed, J!Star
  PROVE  J!SharedOnce
<1>1. SUFFICES ASSUME NEW t \in TP, NEW u \in TP, t # u, NEW f \in Fields, NEW g \in Fields,
                      J!Share(t, f, u, g)
               PROVE  J!Edge(t, u) = <<f, g>>
  BY DEF J!SharedOnce, J!TP, TP, J!Fields, Fields
<1>. DEFINE e == J!Edge(t, u)
<1>2. u \in J!Range(Adj[t]) /\ Query[t][f] < 0 /\ Query[u][g] < 0
  BY <1>1 DEF Handed, J!GraphOfQuery, J!Share, J!TP, TP, J!Fields, Fields
<1>3. /\ e[1] \in Fields /\ e[2] \in Fields
      /\ Query[t][e[1]] < 0 /\ Query[u][e[2]] < 0
  BY <1>2, EdgesShare DEF Handed
<1>4. e = <<e[1], e[2]>>
  BY DEF J!Edge
<1>. HIDE DEF e
<1>5. /\ \E x \in Fields : {y \in Fields : Query[t][y] < 0} = {x}
      /\ \E x \in Fields : {y \in Fields : Query[u][y] < 0} = {x}
  BY J!OneJvar, QueryAssumption, SizesAssumption, GraphAssumption
     DEF J!TP, TP, J!Triple, J!Id, J!Fields, Fields
<1>6. e[1] = f /\ e[2] = g
  BY <1>2, <1>3, <1>5
<1>. QED
  BY <1>4, <1>6 DEF e

LEMMA LoadsByJvar ==
  ASSUME FetchedByJvar, Stocked
  PROVE  J!LoadedByJvar
<1>1. plan \in Plans
  BY DEF Stocked, Bound, Agree, Reload, Shrink, Shape
<1>2. \A t : J!NumJvars(t) = NumJvars(t)
  BY DEF J!NumJvars, NumJvars, J!Fields, Fields, J!Cardinality, Cardinality
<1>. QED
  BY <1>1, <1>2 DEF J!LoadedByJvar, FetchedByJvar, J!TP, TP

LEMMA StarSeesEdges ==
  ASSUME Handed, J!Star, FetchedByJvar, Stocked, Completing
  PROVE  BackEdgesSeen
<1>1. CASE J!Idle
  BY <1>1 DEF J!Idle, BackEdgesSeen, M!BackEdgesSeen
<1>2. CASE J!OnceInv
  <2>1. J!EdgesMeet
    BY StarSharesOnce, J!SharedEdges, QueryAssumption, SizesAssumption, GraphAssumption
       DEF Handed, J!TP, TP, J!Triple, J!Id, J!Fields, Fields
  <2>2. J!LoadedByJvar
    BY LoadsByJvar
  <2>3. J!BackEdgesSeen
    BY <1>2, <2>1, <2>2, J!StarBackEdges, QueryAssumption, SizesAssumption, GraphAssumption
       DEF J!OnceInv, J!TP, TP, J!Triple, J!Id, J!Fields, Fields
  <2>. QED
    BY <2>3, SameBackEdges
<1>. QED
  BY <1>1, <1>2 DEF Completing

\* check_back_edges has nothing to overlook in a query whose patterns join on one
\* variable each, whatever pruning leaves and in whatever order it is walked.
THEOREM StarQueryEdgesSeen ==
  ASSUME Handed, J!Star, FetchedByJvar
  PROVE  RunSpec => []BackEdgesSeen
<1>1. J!SharedOnce /\ J!PredicateJoinsAlone /\ J!WithoutBitmat2 = {}
  BY StarSharesOnce DEF J!Star, J!PredicateJoinsAlone
<1>2. J!EdgesMeet
  BY <1>1, J!SharedEdges, QueryAssumption, SizesAssumption, GraphAssumption
     DEF Handed, J!TP, TP, J!Triple, J!Id, J!Fields, Fields
<1>3. Stocked /\ Completing => BackEdgesSeen
  BY StarSeesEdges
<1>4. RunSpec => [](Stocked /\ Completing)
  BY <1>1, <1>2, RunCompletes
<1>. QED
  BY <1>3, <1>4, PTL

\* A query whose patterns join on one variable each writes its answer whatever
\* the order of the walk.
THEOREM StarIsAnswered ==
  ASSUME Handed, PartialLastByte, J!Star, FetchedByJvar
  PROVE  RunSpec => []RowsAreAnswers /\ Promised!Safety
<1>1. J!SharedOnce /\ J!PredicateJoinsAlone /\ J!WithoutBitmat2 = {}
  BY StarSharesOnce DEF J!Star, J!PredicateJoinsAlone
<1>2. RunSpec => []BackEdgesSeen
  BY StarQueryEdgesSeen
<1>3. RunSpec /\ []BackEdgesSeen => []RowsAreAnswers
  BY <1>1, RowsAnswer
<1>4. RunSpec /\ []BackEdgesSeen => Promised!Safety
  BY <1>1, KeepsSafeResults
<1>. QED
  BY <1>2, <1>3, <1>4, PTL

----------------------------------------------------------------------------
(***************************************************************************)
(* Acyclic queries, pruned by prune_triples_sim.                           *)
(***************************************************************************)

\* What leaves nothing superfluous in any bitmat (AllAreReduced).
Simulated == Sim /\ Trees /\ CommonTail /\ \A j \in Jvar : CutOn(j)

\* What the walk of an acyclic query takes (AcyclicWalk of MatchJoins).
WalkedAcyclic ==
  /\ Acyclic /\ J!WalksEdges /\ FetchedByJvar
  /\ J!PredicateJoinsAlone /\ J!WithoutBitmat2 = {}

LEMMA SameShape == Acyclic <=> J!Acyclic
BY DEF Acyclic, J!Acyclic, Crosses, J!Crosses, Mentions, J!Mentions, Jvar, J!Jvar, TP, J!TP,
   Fields, J!Fields

\* Two patterns that shared two variables would be a cycle.
LEMMA AcyclicSharesOnce ==
  ASSUME Handed, Acyclic
  PROVE  J!SharedOnce
<1>1. SUFFICES ASSUME NEW t \in TP, NEW u \in TP, t # u, NEW f \in Fields, NEW g \in Fields,
                      J!Share(t, f, u, g)
               PROVE  J!Edge(t, u) = <<f, g>>
  BY DEF J!SharedOnce, J!TP, TP, J!Fields, Fields
<1>. DEFINE e == J!Edge(t, u)
<1>2. u \in J!Range(Adj[t]) /\ Query[t][f] < 0 /\ Query[t][f] = Query[u][g]
  BY <1>1 DEF Handed, J!GraphOfQuery, J!Share, J!TP, TP, J!Fields, Fields
<1>3. /\ e[1] \in Fields /\ e[2] \in Fields
      /\ Query[t][e[1]] < 0 /\ Query[t][e[1]] = Query[u][e[2]]
  BY <1>2, EdgesShare DEF Handed
<1>4. e = <<e[1], e[2]>>
  BY DEF J!Edge
<1>. HIDE DEF e
<1>5. Query[t][e[1]] = Query[t][f]
  <2>. DEFINE i == Query[t][f]
              j == Query[t][e[1]]
  <2>. SUFFICES ASSUME i # j PROVE FALSE
    OBVIOUS
  <2>1. /\ i \in Jvar /\ Mentions(t, i) /\ Mentions(u, i)
        /\ j \in Jvar /\ Mentions(t, j) /\ Mentions(u, j)
    BY <1>2, <1>3 DEF Jvar, Mentions
  <2>. HIDE DEF i, j
  <2>2. PICK C \in SUBSET Jvar : i \in C /\ j \notin C /\ \A p \in TP \ {t} : ~Crosses(p, C)
    BY <2>1 DEF Acyclic
  <2>3. Crosses(u, C)
    BY <2>1, <2>2 DEF Crosses
  <2>. QED
    BY <1>1, <2>2, <2>3
<1>6. e[1] = f /\ e[2] = g
  BY <1>2, <1>3, <1>5 DEF Handed, OnePlace
<1>. QED
  BY <1>4, <1>6 DEF e

\* A cell that is in a solution finds the neighbour's cell of the same solution.
LEMMA ReducedConsistent ==
  ASSUME Handed, Stocked, Sound, AllReduced, pc = "true"
  PROVE  J!Consistent
<1>1. plan \in Plans /\ OnePlace /\ Fetched /\ J!GraphOfQuery
  BY DEF Handed, Stocked, Bound, Agree, Reload, Shrink, Shape
<1>2. SUFFICES ASSUME NEW t \in TP, NEW u \in J!Range(Adj[t]), NEW c \in bm[t]
               PROVE  \E d \in bm[u] : J!TripleOf(plan.dimension[t], t, c)[J!Edge(t, u)[1]]
                                         = J!TripleOf(plan.dimension[u], u, d)[J!Edge(t, u)[2]]
  BY DEF J!Consistent, J!Triples, J!TP, TP
<1>. DEFINE f == J!Edge(t, u)[1]
            g == J!Edge(t, u)[2]
<1>3. /\ u \in TP /\ f \in Fields /\ g \in Fields
      /\ Query[t][f] < 0 /\ Query[u][g] < 0 /\ Query[t][f] = Query[u][g]
  BY <1>1, EdgesShare
<1>. HIDE DEF f, g
<1>4. PICK sol \in answers : Matches(c, t, sol)
  BY DEF AllReduced, Reduced
<1>5. PICK d \in plan.bm[u] : Matches(d, u, sol)
  BY <1>3 DEF Sound, Binding
<1>6. d \in bm[u]
  BY <1>3, <1>5 DEF Sound, NoAnswerLost
<1>7. J!TripleOf(plan.dimension[t], t, c)[f] = sol[Query[t][f]]
  BY <1>1, <1>3, <1>4, TripleField DEF Matches
<1>8. J!TripleOf(plan.dimension[u], u, d)[g] = sol[Query[u][g]]
  BY <1>1, <1>3, <1>5, TripleField DEF Matches
<1>. QED
  BY <1>3, <1>6, <1>7, <1>8 DEF f, g

\* Pruning leaves the bitmats consistent, and the walk over them sees every edge.
Walking == J!Idle \/ (pc = "true" /\ J!TreeInv)

LEMMA RunWalks ==
  ASSUME Handed, PartialLastByte, Simulated, WalkedAcyclic
  PROVE  RunSpec => []Walking
<1>1. J!AcyclicWalk
  BY AcyclicSharesOnce, SameShape DEF WalkedAcyclic, J!AcyclicWalk, Handed
<1>2. RunInit => Walking
  BY RunIdle DEF Walking
<1>3. Handed /\ Stocked /\ Sound /\ Reduce /\ pc = "true" /\ J!Idle => J!TreeInv
  <2>1. Reduce => AllReduced
    BY ReduceLeavesAll DEF Simulated, Handed
  <2>2. ASSUME Stocked, Sound, AllReduced, pc = "true", J!Idle
        PROVE  J!Init /\ J!SingleRowsTidy /\ J!LoadedByJvar /\ J!Consistent
    BY <2>2, Begins, LoadsByJvar, ReducedConsistent DEF WalkedAcyclic
  <2>. QED
    BY <2>1, <2>2, J!InitTree, QueryAssumption, SizesAssumption, GraphAssumption
       DEF J!TP, TP, J!Triple, J!Id, J!Fields, Fields
<1>4. J!TreeInv /\ pc = "true" /\ [RunNext]_runVars => pc' = "true" /\ J!TreeInv'
  BY <1>1, MatchSteps, J!NextTree, QueryAssumption, SizesAssumption, GraphAssumption
     DEF J!TP, TP, J!Triple, J!Id, J!Fields, Fields
<1>5. Stocked /\ Sound /\ Reduce /\ Walking /\ [RunNext]_runVars => Walking'
  BY <1>3, <1>4, IdleStays DEF Walking
<1>6. RunSpec => []Stocked
  BY RunStocked DEF Handed
<1>7. RunSpec => []Sound
  BY RunSound DEF Handed, Loaded, Assumed
<1>8. RunSpec => []Reduce
  <2>1. Init => Reduce
    BY InitReduce DEF Simulated, Handed
  <2>2. Reduce /\ [Next]_vars => Reduce'
    BY NextReduce DEF Simulated, Handed
  <2>. QED
    BY <2>1, <2>2, RunPrunes, PTL
<1>. QED
  BY <1>2, <1>5, <1>6, <1>7, <1>8, PTL DEF RunSpec

\* check_back_edges overlooks nothing in an acyclic query that prune_triples_sim has
\* pruned, whatever the order of the walk and the patterns left in unvisited.
THEOREM AcyclicQueryEdgesSeen ==
  ASSUME Handed, PartialLastByte, Simulated, WalkedAcyclic
  PROVE  RunSpec => []BackEdgesSeen
<1>1. J!AcyclicWalk
  BY AcyclicSharesOnce, SameShape DEF WalkedAcyclic, J!AcyclicWalk, Handed
<1>2. Walking => BackEdgesSeen
  <2>1. CASE J!Idle
    BY <2>1 DEF J!Idle, BackEdgesSeen, M!BackEdgesSeen
  <2>2. CASE J!TreeInv
    <3>1. J!BackEdgesSeen
      BY <1>1, <2>2, J!TreeBackEdges, QueryAssumption, SizesAssumption, GraphAssumption
         DEF J!TP, TP, J!Triple, J!Id, J!Fields, Fields
    <3>. QED
      BY <3>1, SameBackEdges
  <2>. QED
    BY <2>1, <2>2 DEF Walking
<1>. QED
  BY <1>2, RunWalks, PTL

\* So such a query writes its answer, each row once, with no condition on the walk.
THEOREM AcyclicIsAnswered ==
  ASSUME Handed, PartialLastByte, Simulated, WalkedAcyclic
  PROVE  RunSpec => []RowsAreAnswers /\ Promised!Safety
<1>1. J!SharedOnce /\ J!PredicateJoinsAlone /\ J!WithoutBitmat2 = {}
  BY AcyclicSharesOnce DEF WalkedAcyclic
<1>2. RunSpec => []BackEdgesSeen
  BY AcyclicQueryEdgesSeen
<1>3. RunSpec /\ []BackEdgesSeen => []RowsAreAnswers
  BY <1>1, RowsAnswer
<1>4. RunSpec /\ []BackEdgesSeen => Promised!Safety
  BY <1>1, KeepsSafeResults
<1>. QED
  BY <1>2, <1>3, <1>4, PTL
=============================================================================
