------------------------------- MODULE Prune --------------------------------
(***************************************************************************)
(* The pruning phase of a query (prune_triples_new, prune_triples_sim,     *)
(* prune_for_jvar and the join and unfold functions of graphops.c): before *)
(* any result is built, the bitmat of every triple pattern is reduced by   *)
(* the bindings its join variables can still take in the other patterns.   *)
(*                                                                         *)
(* For one join variable prune_for_jvar first ANDs the folds of all the    *)
(* patterns that mention it into jvar->joinres, then "unfolds" the result: *)
(* clears in each of those patterns the bits that are not in it.  joinres  *)
(* is not an array of its own: it is a pointer into the fold array of the  *)
(* first pattern, and stays one for the rest of the query.                 *)
(*                                                                         *)
(* Subject and object joins share ids 1..NumCommSO only, so joins between  *)
(* a subject and an object position truncate the result to those.          *)
(***************************************************************************)
EXTENDS Query, BitMat, FiniteSetsExt

CONSTANTS
  NextTP,   \* for each join variable its TP nodes, in adjacency-list order
  Plans,    \* what loading and planning may leave behind (see Init)
  Sim       \* TRUE: prune_triples_sim runs, FALSE: prune_triples_new

Plan == [dimension   : [TP -> Dimension],
         bm          : [TP -> SUBSET Cell],
         fold        : [TP \X Axis -> SUBSET Nat],
         jvarsitr2   : Seq(Jvar),
         leaf_nodes  : SUBSET Jvar]

ASSUME PruneAssumption ==
  /\ NextTP \in [Jvar -> Seq(TP)]
  /\ \A j \in Jvar : /\ NextTP[j] # << >>
                     /\ \A i \in DOMAIN NextTP[j] : Mentions(NextTP[j][i], j)
  /\ Plans \subseteq Plan
  /\ \A p \in Plans : /\ p.jvarsitr2 # << >>
                      /\ \A t \in TP : IsFiniteSet(p.bm[t])
  /\ NULL \notin TP \X Axis /\ NULL \notin Axis
  /\ Sim \in BOOLEAN

\* predicate_dim_join exits on a variable that is a predicate in one pattern
\* and a subject or object in another: such queries are not supported.
ASSUME NoMixedPredicateJoin ==
  \A j \in Jvar : \A t, u \in TP :
    Mentions(t, j) /\ Mentions(u, j) => ((PosOf(t, j) = "PRED") <=> (PosOf(u, j) = "PRED"))

VARIABLES
  plan,        \* the bitmats as loaded, the jvar order; never changes here
  bm,          \* bm[t]: the cells of tp->bitmat
  fold,        \* fold[<<t, a>>]: tp->bitmat.subfold and .objfold
  prev,        \* prev[<<t, a>>]: .subfold_prev and .objfold_prev
  unfolded,    \* tp->unfolded
  joinres,     \* jvar->joinres: NULL or the fold array it points to
  numTriples,  \* tp->bitmat.num_triples
  pc,          \* where the phase is
  reverse,     \* which of the two loops over jvarsitr2 is running
  pos,         \* its index, from 1
  k,           \* index into the TP nodes of the current variable
  try,         \* _try
  previous,    \* the count of the previous try
  answers      \* history: the solutions over the bitmats as loaded

vars == <<plan, bm, fold, prev, unfolded, joinres, numTriples,
          pc, reverse, pos, k, try, previous, answers>>

fixed    == <<plan, answers>>
loopVars == <<reverse, pos, try, previous>>

\* "true" and "false" are the return values; "fix" is the caller having seen
\* true; "crash" is a run that read memory far outside an array.
Returned == {"true", "false", "crash"}

----------------------------------------------------------------------------
(* The node prune_for_jvar is at.                                          *)

N == Len(plan.jvarsitr2)

CurJvar == plan.jvarsitr2[IF reverse THEN N + 1 - pos ELSE pos]
CurTP   == NextTP[CurJvar][k]

\* The fold of pattern t that holds the bindings of j in it.
AxisOf(t, j) == JoinAxis(plan.dimension[t], PosOf(t, j))

CurAxis == AxisOf(CurTP, CurJvar)

\* jvar->joinres_dim: the position of j in the pattern joinres points into.
JoinresDim(j) == PosOf(joinres[j][1], j)

SOJoin(t, j) == JoinresDim(j) # PosOf(t, j)

\* Mutant: folds are never recomputed.
FoldedNever(t, a) == fold[<<t, a>>]

\* Folds are recomputed only for a pattern that was unfolded since, and that
\* another variable can have unfolded.
Folded(t, a) ==
  IF unfolded[t] /\ NumJvars(t) > 1 THEN SimpleFold(bm[t], a) ELSE fold[<<t, a>>]

\* Cells go only if another variable or the results depend on them now; a
\* pattern with one join variable and a free one waits for fix_all_tp_bitmats.
UnfoldsNow(t) == NumJvars(t) > 1 \/ (NumJvars(t) = 1 /\ NumVars(t) = 1)

\* The column bits of an SPO or OPS bitmat are cleared by listing its triples,
\* sorting them the other way round, and loading them back twice.
ReloadsToUnfold(t, a) == a = "objfold" /\ plan.dimension[t] \in {"SPO", "OPS"}

----------------------------------------------------------------------------
(***************************************************************************)
(* What the phase is for.  A solution binds every join variable to an id   *)
(* such that each pattern has a triple with these ids; a variable in both  *)
(* a subject and an object position takes a common id only.  (Definitions  *)
(* for the properties: nothing of this is computed by the pruning code.)   *)
(***************************************************************************)
JvarsOf(t) == {j \in Jvar : Mentions(t, j)}

SOVar(j) == \E t, u \in TP : /\ Mentions(t, j) /\ Mentions(u, j)
                             /\ PosOf(t, j) = "SUB" /\ PosOf(u, j) = "OBJ"

Matches(c, t, sol) == \A j \in JvarsOf(t) : Coord(c, AxisOf(t, j)) = sol[j]

LoadedIds == UNION {SimpleFold(plan.bm[t], a) : t \in TP, a \in Axis}

Solutions ==
  {sol \in [Jvar -> LoadedIds] :
     /\ \A j \in Jvar : SOVar(j) => sol[j] <= NumCommSO
     /\ \A t \in TP : \E c \in plan.bm[t] : Matches(c, t, sol)}

\* The folds of a plan name every id its bitmats hold for a join variable.
FoldsComplete(p) ==
  \A t \in TP : \A j \in JvarsOf(t) :
    LET a == JoinAxis(p.dimension[t], PosOf(t, j))
    IN SimpleFold(p.bm[t], a) \subseteq p.fold[<<t, a>>]

\* And no other id.
FoldsExact(p) ==
  \A t \in TP : \A j \in JvarsOf(t) :
    LET a == JoinAxis(p.dimension[t], PosOf(t, j))
    IN SimpleFold(p.bm[t], a) = p.fold[<<t, a>>]

(***************************************************************************)
(* An acyclic query, in an order the passes need: each variable is in the  *)
(* order once, each but the first shares one pattern with those before it, *)
(* and no leaf shares one with a variable after it.                        *)
(***************************************************************************)
TreeOrder(p) ==
  LET order == p.jvarsitr2
      Links(t, i, m) == i < m /\ Mentions(t, order[i]) /\ Mentions(t, order[m])
  IN /\ {order[i] : i \in DOMAIN order} = Jvar
     /\ \A i, m \in DOMAIN order : order[i] = order[m] => i = m
     /\ \A m \in DOMAIN order \ {1} : \E t \in TP : \A u \in TP :
          u = t <=> \E i \in DOMAIN order : Links(u, i, m)
     /\ \A i, m \in DOMAIN order : order[i] \in p.leaf_nodes => \A t \in TP : ~Links(t, i, m)
     /\ \A t \in TP : JvarsOf(t) # {}

----------------------------------------------------------------------------
TypeOK ==
  /\ plan \in Plan
  /\ bm \in [TP -> SUBSET Cell]
  /\ fold \in [TP \X Axis -> SUBSET Nat]
  /\ prev \in [TP \X Axis -> (SUBSET Nat) \cup {NULL}]
  /\ unfolded \in [TP -> BOOLEAN]
  /\ joinres \in [Jvar -> (TP \X Axis) \cup {NULL}]
  /\ numTriples \in [TP -> Nat]
  /\ pc \in {"node", "join", "unfold", "check", "fix"} \cup Returned
  /\ reverse \in BOOLEAN
  /\ pos \in 1 .. N
  /\ k \in Nat \ {0}
  /\ try \in Nat \ {0}

Init ==
  /\ plan \in Plans
  /\ bm = plan.bm
  /\ fold = plan.fold
  /\ prev = [x \in TP \X Axis |-> NULL]
  /\ unfolded = [t \in TP |-> FALSE]
  /\ joinres = [j \in Jvar |-> NULL]
  /\ numTriples = [t \in TP |-> Cardinality(plan.bm[t])]
  /\ pc = "node"
  /\ reverse = FALSE
  /\ pos = 1
  /\ k = 1
  /\ try = 1
  /\ previous = 0
  /\ answers = Solutions

----------------------------------------------------------------------------
(* The two loops over jvarsitr2.                                           *)

\* Mutant: one node too many.
NextNodeBeyond ==
  IF pos <= N THEN /\ pos' = pos + 1
                   /\ pc' = "node"
                   /\ UNCHANGED reverse
  ELSE /\ pos' = 1
       /\ reverse' = ~reverse
       /\ pc' = IF reverse THEN "check" ELSE "node"

\* Mutant: the loops have no end.
NextNodeForever ==
  IF pos < N THEN /\ pos' = pos + 1
                  /\ pc' = "node"
                  /\ UNCHANGED reverse
  ELSE /\ pos' = 1
       /\ reverse' = ~reverse
       /\ pc' = "node"

\* On to the next node, from the forward loop to the reverse one, or out.
NextNode ==
  IF pos < N THEN /\ pos' = pos + 1
                  /\ pc' = "node"
                  /\ UNCHANGED reverse
  ELSE /\ pos' = 1
       /\ reverse' = ~reverse
       /\ pc' = IF reverse THEN "check" ELSE "node"

\* The reverse loop visits only nodes that are not leaves of the tree.
EnterNode ==
  /\ pc = "node"
  /\ ~(reverse /\ CurJvar \in plan.leaf_nodes)
  /\ pc' = "join"
  /\ k' = 1
  /\ UNCHANGED <<fixed, bm, fold, prev, unfolded, joinres, numTriples, loopVars>>

SkipLeaf ==
  /\ pc = "node"
  /\ reverse /\ CurJvar \in plan.leaf_nodes
  /\ NextNode
  /\ UNCHANGED <<fixed, bm, fold, prev, unfolded, joinres, numTriples, k, try, previous>>

----------------------------------------------------------------------------
(* subject_dim_join, object_dim_join, predicate_dim_join.                  *)

\* An empty join result ends the query; after the last pattern, unfold.
AfterJoin(res) ==
  IF res = {} THEN pc' = "false" /\ UNCHANGED k
  ELSE IF k < Len(NextTP[CurJvar]) THEN k' = k + 1 /\ UNCHANGED pc
  ELSE k' = 1 /\ pc' = "unfold"

\* The first join of a variable: joinres becomes a pointer to this fold.
JoinFirst ==
  /\ pc = "join"
  /\ joinres[CurJvar] = NULL
  /\ LET x == <<CurTP, CurAxis>>
         f == Folded(CurTP, CurAxis)
     IN /\ fold' = [fold EXCEPT ![x] = f]
        /\ prev' = [prev EXCEPT ![x] = f]
        /\ joinres' = [joinres EXCEPT ![CurJvar] = x]
        /\ AfterJoin(f)
  /\ UNCHANGED <<fixed, bm, unfolded, numTriples, loopVars>>

\* Mutant: the join result is overwritten, not ANDed.
JoinOverwrites ==
  /\ pc = "join"
  /\ joinres[CurJvar] # NULL
  /\ LET x   == <<CurTP, CurAxis>>
         f   == [fold EXCEPT ![x] = Folded(CurTP, CurAxis)]
     IN /\ fold' = [f EXCEPT ![joinres[CurJvar]] = f[x]]
        /\ AfterJoin(f[x])
  /\ UNCHANGED <<fixed, bm, prev, unfolded, joinres, numTriples, loopVars>>

\* Any later one ANDs the pattern's fold into the array joinres points to,
\* which may be the very fold that was just recomputed.
JoinAnd ==
  /\ pc = "join"
  /\ joinres[CurJvar] # NULL
  /\ LET x   == <<CurTP, CurAxis>>
         f   == [fold EXCEPT ![x] = Folded(CurTP, CurAxis)]
         old == f[joinres[CurJvar]]
         res == f[x] \cap IF SOJoin(CurTP, CurJvar) THEN TruncateToCommonSO(old) ELSE old
     IN /\ fold' = [f EXCEPT ![joinres[CurJvar]] = res]
        /\ AfterJoin(res)
  /\ UNCHANGED <<fixed, bm, prev, unfolded, joinres, numTriples, loopVars>>

----------------------------------------------------------------------------
(* subject_dim_unfold, object_dim_unfold, predicate_dim_unfold.            *)

Joinres == fold[joinres[CurJvar]]

\* limit_bytes of an S-O unfold, and the ids whose bits it covers.
LimitBytes(t, a) ==
  LET first == joinres[CurJvar]
      jrBytes == BytesFor(Width(plan.dimension[first[1]], first[2]))
      bytes == BytesFor(Width(plan.dimension[t], a))
  IN IF jrBytes < bytes THEN jrBytes ELSE bytes

WithinLimit(ids, t, a) == {i \in ids : ByteOf(i) < LimitBytes(t, a)}

(***************************************************************************)
(* The pattern's fold after an S-O unfold.  Up to the limit it is joinres. *)
(* The bytes beyond are cleared: subject_dim_unfold clears them from the   *)
(* limit on, object_dim_unfold clears as many bytes but starts at          *)
(* common_so_bytes, so bits near the end of a longer fold survive.         *)
(***************************************************************************)
SOFold(t, a) ==
  LET bytes == BytesFor(Width(plan.dimension[t], a))
      from  == IF PosOf(t, CurJvar) = "SUB" THEN LimitBytes(t, a) ELSE BytesFor(NumCommSO)
      Cleared(i) == /\ bytes > LimitBytes(t, a)
                    /\ ByteOf(i) >= from
                    /\ ByteOf(i) < from + (bytes - LimitBytes(t, a))
  IN {i \in WithinLimit(Joinres, t, a) \cup (fold[<<t, a>>] \ WithinLimit(fold[<<t, a>>], t, a)) :
        ~Cleared(i)}

\* Mutant: the pattern joinres points into is compared with itself.
ChangedFromFold(t, a) == fold[<<t, a>>] # WithinLimit(Joinres, t, a)

\* "changed": the join result differs from the fold this pattern had.  For the
\* pattern joinres points into, that fold is the copy kept at its first join.
Changed(t, a) ==
  IF SOJoin(t, CurJvar) THEN fold[<<t, a>>] # WithinLimit(Joinres, t, a)
  ELSE Joinres # IF prev[<<t, a>>] # NULL THEN prev[<<t, a>>] ELSE fold[<<t, a>>]

\* Mutant: the bits past joinres stay as they are.
NewFoldTrailing(t, a) ==
  IF SOJoin(t, CurJvar)
  THEN WithinLimit(Joinres, t, a) \cup (fold[<<t, a>>] \ WithinLimit(fold[<<t, a>>], t, a))
  ELSE IF prev[<<t, a>>] # NULL THEN fold[<<t, a>>] ELSE Joinres

NewFold(t, a) ==
  IF SOJoin(t, CurJvar) THEN SOFold(t, a)
  ELSE IF prev[<<t, a>>] # NULL THEN fold[<<t, a>>] ELSE Joinres

AfterUnfold ==
  IF k < Len(NextTP[CurJvar])
  THEN k' = k + 1 /\ UNCHANGED <<pc, reverse, pos>>
  ELSE NextNode /\ k' = 1

\* count_triples_in_bitmat after each unfold: only prune_triples_sim asks.
CountTriples(t, cells) ==
  numTriples' = IF Sim THEN [numTriples EXCEPT ![t] = Cardinality(cells)] ELSE numTriples

UnfoldUnchanged ==
  /\ pc = "unfold"
  /\ ~Changed(CurTP, CurAxis)
  /\ CountTriples(CurTP, bm[CurTP])
  /\ AfterUnfold
  /\ UNCHANGED <<fixed, bm, fold, prev, unfolded, joinres, try, previous>>

UnfoldFoldOnly ==
  /\ pc = "unfold"
  /\ Changed(CurTP, CurAxis) /\ ~UnfoldsNow(CurTP)
  /\ fold' = [fold EXCEPT ![<<CurTP, CurAxis>>] = NewFold(CurTP, CurAxis)]
  /\ unfolded' = [unfolded EXCEPT ![CurTP] = TRUE]
  /\ CountTriples(CurTP, bm[CurTP])
  /\ AfterUnfold
  /\ UNCHANGED <<fixed, bm, prev, joinres, try, previous>>

\* Mutant: SUB_DIMENSION passed for OBJ_DIMENSION.
KeptBySubject == SimpleUnfold(bm[CurTP], "subfold", NewFold(CurTP, CurAxis))

Kept == SimpleUnfold(bm[CurTP], CurAxis, NewFold(CurTP, CurAxis))

UnfoldCells ==
  /\ pc = "unfold"
  /\ Changed(CurTP, CurAxis) /\ UnfoldsNow(CurTP)
  /\ ReloadsToUnfold(CurTP, CurAxis) => Kept # {}
  /\ fold' = [fold EXCEPT ![<<CurTP, CurAxis>>] = NewFold(CurTP, CurAxis)]
  /\ bm' = [bm EXCEPT ![CurTP] = Kept]
  /\ unfolded' = [unfolded EXCEPT ![CurTP] = TRUE]
  /\ CountTriples(CurTP, Kept)
  /\ AfterUnfold
  /\ UNCHANGED <<fixed, prev, joinres, try, previous>>

(***************************************************************************)
(* load_data_vertically closes "the last row" even of an empty triple      *)
(* list: concatenate_comp_arr is then given a row of size 0, takes         *)
(* (0 - 1) / 4 for its number of runs and reads 4 GB past the buffer.      *)
(***************************************************************************)
UnfoldReloadsNothing ==
  /\ pc = "unfold"
  /\ Changed(CurTP, CurAxis) /\ UnfoldsNow(CurTP)
  /\ ReloadsToUnfold(CurTP, CurAxis) /\ Kept = {}
  /\ pc' = "crash"
  /\ UNCHANGED <<fixed, bm, fold, prev, unfolded, joinres, numTriples, k, loopVars>>

----------------------------------------------------------------------------
(* The end of a try, and fix_all_tp_bitmats.                               *)

(***************************************************************************)
(* count_number_of_triples.  Its inner loop runs once per TP node of the   *)
(* variable but never advances nextTP, so the first node is added each     *)
(* time and the others never.                                              *)
(***************************************************************************)
CountNumberOfTriples ==
  MapThenSumSet(LAMBDA j : Len(NextTP[j]) * numTriples[NextTP[j][1]], Jvar)

\* prune_triples_sim starts over until the count is that of the previous try,
\* and at least once.
TryAgain ==
  /\ pc = "check" /\ Sim
  /\ CountNumberOfTriples # previous \/ try < 2
  /\ previous' = CountNumberOfTriples
  /\ try' = try + 1
  /\ pc' = "node"
  /\ UNCHANGED <<fixed, bm, fold, prev, unfolded, joinres, numTriples, reverse, pos, k>>

\* Mutant: stable as soon as a try is over.
ReturnAtOnce ==
  /\ pc = "check"
  /\ pc' = "fix"
  /\ UNCHANGED <<fixed, bm, fold, prev, unfolded, joinres, numTriples, k, loopVars>>

ReturnTrue ==
  /\ pc = "check"
  /\ Sim => CountNumberOfTriples = previous /\ try >= 2
  /\ pc' = "fix"
  /\ UNCHANGED <<fixed, bm, fold, prev, unfolded, joinres, numTriples, k, loopVars>>

\* Mutant: rows and columns swapped.
FixAxisSwapped(t) ==
  IF NumJvars(t) # 1 \/ NumVars(t) <= 1 THEN NULL
  ELSE IF plan.dimension[t] \in {"SPO", "PSO"} /\ Query[t].sub < 0 THEN "objfold"
  ELSE IF plan.dimension[t] \in {"OPS", "POS"} /\ Query[t].obj < 0 THEN "objfold"
  ELSE "subfold"

\* fix_all_tp_bitmats: the axis on which a pattern that was not unfolded yet
\* is unfolded now; a predicate join variable is on neither list.
FixAxis(t) ==
  LET dim     == plan.dimension[t]
      rows    == (dim = "SPO" /\ Query[t].sub < 0) \/ (dim = "OPS" /\ Query[t].obj < 0)
      columns == \/ dim \in {"OPS", "POS"} /\ Query[t].sub < 0
                 \/ dim \in {"SPO", "PSO"} /\ Query[t].obj < 0
  IN IF NumJvars(t) # 1 \/ NumVars(t) <= 1 THEN NULL
     ELSE IF rows THEN "subfold" ELSE IF columns THEN "objfold" ELSE NULL

FixAllTpBitmats ==
  /\ pc = "fix"
  /\ bm' = [t \in TP |-> IF FixAxis(t) = NULL THEN bm[t]
                         ELSE SimpleUnfold(bm[t], FixAxis(t), fold[<<t, FixAxis(t)>>])]
  /\ pc' = "true"
  /\ UNCHANGED <<fixed, fold, prev, unfolded, joinres, numTriples, k, loopVars>>

\* The query goes on with the bitmats as they are, or ends.
Finished == pc \in Returned /\ UNCHANGED vars

Next ==
  \/ EnterNode \/ SkipLeaf
  \/ JoinFirst \/ JoinAnd
  \/ UnfoldUnchanged \/ UnfoldFoldOnly \/ UnfoldCells \/ UnfoldReloadsNothing
  \/ TryAgain \/ ReturnTrue \/ FixAllTpBitmats
  \/ Finished

\* One thread runs the phase to its end.
Spec == Init /\ [][Next]_vars /\ WF_vars(Next)

----------------------------------------------------------------------------
(* Properties.                                                             *)

\* No triple that takes part in a solution is ever cleared from its pattern's
\* bitmat (simple_unfold, whichever fold it is given).
NoAnswerLost ==
  \A sol \in answers : \A t \in TP :
    \A c \in plan.bm[t] : Matches(c, t, sol) => c \in bm[t]

\* The query is given up for "0 res" only if it has no solution.
EmptyMeansNoAnswer == pc = "false" => answers = {}

\* No unfold is left with an empty triple list to load back.
NeverReloadsNothing == pc # "crash"

\* jvar->joinres only loses ids, although it is a pointer into a fold array that
\* later joins of the same pattern recompute from its bitmat.
JoinresShrinks ==
  [][\A j \in Jvar : joinres[j] # NULL => fold'[joinres[j]] \subseteq fold[joinres[j]]]_vars

\* Once prune_for_jvar is done with a variable, the patterns that were unfolded
\* on it hold the same bindings of it, whatever was found unchanged on the way.
SameBindings(j) ==
  \A t, u \in {x \in TP : Mentions(x, j) /\ UnfoldsNow(x)} :
    SimpleFold(bm'[t], AxisOf(t, j)) = SimpleFold(bm'[u], AxisOf(u, j))

NodeAgreement ==
  [][pc = "unfold" /\ pc' \in {"node", "check"} => SameBindings(CurJvar)]_vars

(***************************************************************************)
(* The order of the variables takes both passes everywhere: each variable  *)
(* is in jvarsitr2 once, and each but the root shares a pattern with an    *)
(* earlier one that is no leaf, so the reverse pass, which skips leaves,   *)
(* still carries what it lost back to the root.                            *)
(***************************************************************************)
PassesReachAll ==
  LET order == plan.jvarsitr2
  IN /\ Len(order) = Cardinality(Jvar) /\ {order[i] : i \in DOMAIN order} = Jvar
     /\ \A i \in 2 .. Len(order) : \E m \in 1 .. i - 1 :
          /\ order[m] \notin plan.leaf_nodes
          /\ \E t \in TP : Mentions(t, order[m]) /\ Mentions(t, order[i])

\* An acyclic query is planned in such an order: what lets the one reverse pass,
\* which skips the leaves, be enough.
OrderIsTree == TreeOrder(plan)

\* Only cells that take part in a solution are left in a pattern.
Reduced(t) == \A c \in bm[t] : \E sol \in answers : Matches(c, t, sol)

\* One forward and one reverse pass leave nothing superfluous in the patterns of
\* the first variable, the root of the variable tree (acyclic queries).
RootReduced == pc = "true" => \A t \in TP : Mentions(t, plan.jvarsitr2[1]) => Reduced(t)

\* prune_triples_sim leaves nothing superfluous in any pattern (acyclic queries).
AllReduced == pc = "true" => \A t \in TP : Reduced(t)

\* "I am stable": no binding a pattern still holds is missing from another one,
\* the largest dual simulation.
Stable ==
  pc = "fix" => \A j \in Jvar : \A t, u \in TP :
    Mentions(t, j) /\ Mentions(u, j) /\ UnfoldsNow(t) /\ UnfoldsNow(u)
      => SimpleFold(bm[t], AxisOf(t, j)) = SimpleFold(bm[u], AxisOf(u, j))

\* After an unfold that changed something "objfold is consistent with the latest
\* joinres" (and subfold, on the other axis).
FoldFollowsJoinres ==
  [][UnfoldFoldOnly \/ UnfoldCells => fold'[<<CurTP, CurAxis>>] = Joinres]_vars

\* The phase ends, however often prune_triples_sim tries again.
Termination == <>(pc \in Returned)

(***************************************************************************)
(* The phase keeps the promise of PrunePromise.                            *)
(***************************************************************************)
Needed == [t \in TP |-> {c \in plan.bm[t] : \E sol \in answers : Matches(c, t, sol)}]

Outcome == CASE pc = "true"  -> "some"
             [] pc = "false" -> "none"
             [] OTHER        -> "running"

Promise == INSTANCE PrunePromise WITH needed <- Needed, kept <- bm, outcome <- Outcome

KeepsPromise == Promise!Spec
=============================================================================
