----------------------------- MODULE PruneSound ------------------------------
(***************************************************************************)
(* Proofs about Prune, for every query, every set of plans and every       *)
(* number of ids: its types, that pruning is sound, and what it does to    *)
(* the join results.                                                       *)
(***************************************************************************)
EXTENDS Prune, FiniteSetTheorems, TLAPS

(***************************************************************************)
(* The shape of the state: TypeOK with what it takes to be inductive.      *)
(***************************************************************************)
\* The index of prune_for_jvar's loops is inside the list of the variable.
IndexOK == pc \in {"join", "unfold"} => k \in 1 .. Len(NextTP[CurJvar])

\* joinres points into a fold that holds the bindings of its variable.
JoinresPoints ==
  \A j \in Jvar : joinres[j] # NULL =>
    \E f \in TP : Mentions(f, j) /\ joinres[j] = <<f, AxisOf(f, j)>>

\* It does so by the time the variable is unfolded.
JoinresSet == pc = "unfold" => joinres[CurJvar] # NULL

Shape ==
  /\ plan \in Plans
  /\ TypeOK
  /\ \A t \in TP : IsFiniteSet(bm[t])
  /\ IndexOK
  /\ JoinresPoints
  /\ JoinresSet

LEMMA AxisOfType ==
  ASSUME NEW t, NEW j
  PROVE  AxisOf(t, j) \in Axis
BY DEF AxisOf, JoinAxis, Axis

LEMMA CurJvarType ==
  ASSUME Shape
  PROVE  CurJvar \in Jvar /\ N \in Nat \ {0}
<1>1. plan.jvarsitr2 \in Seq(Jvar) /\ plan.jvarsitr2 # << >>
  BY PruneAssumption DEF Shape, TypeOK, Plan
<1>2. N \in Nat \ {0} /\ pos \in 1 .. N /\ reverse \in BOOLEAN
  BY <1>1 DEF N, Shape, TypeOK
<1>3. (IF reverse THEN N + 1 - pos ELSE pos) \in 1 .. N
  BY <1>2
<1>. QED
  BY <1>1, <1>2, <1>3 DEF CurJvar, N

LEMMA CurTPType ==
  ASSUME Shape, pc \in {"join", "unfold"}
  PROVE  /\ CurTP \in TP /\ CurAxis \in Axis /\ Mentions(CurTP, CurJvar)
         /\ CurAxis = AxisOf(CurTP, CurJvar)
         /\ Len(NextTP[CurJvar]) \in Nat
<1>1. CurJvar \in Jvar
  BY CurJvarType
<1>2. NextTP[CurJvar] \in Seq(TP)
  BY <1>1, PruneAssumption
<1>3. k \in 1 .. Len(NextTP[CurJvar]) /\ k \in DOMAIN NextTP[CurJvar]
  BY <1>2 DEF Shape, IndexOK
<1>. QED
  BY <1>1, <1>2, <1>3, PruneAssumption, AxisOfType DEF CurTP, CurAxis

\* NextNode moves to a node of the list; the rest of the state is not its business.
LEMMA NextNodeType ==
  ASSUME Shape, NextNode, N' = N
  PROVE  pos' \in 1 .. N /\ reverse' \in BOOLEAN /\ pc' \in {"node", "check"}
<1>1. N \in Nat \ {0} /\ pos \in 1 .. N /\ reverse \in BOOLEAN
  BY CurJvarType DEF Shape, TypeOK
<1>2. CASE pos < N
  BY <1>1, <1>2 DEF NextNode
<1>3. CASE ~(pos < N)
  <2>1. reverse' \in BOOLEAN /\ pos' = 1
    BY <1>3 DEF NextNode
  <2>2. pc' \in {"node", "check"}
    BY <1>3 DEF NextNode
  <2>. QED
    BY <1>1, <2>1, <2>2
<1>. QED
  BY <1>2, <1>3

\* The plan never changes, and with it the list of variables and the axes.
LEMMA PlanFrame ==
  ASSUME plan' = plan
  PROVE  /\ N' = N
         /\ \A t, j : AxisOf(t, j)' = AxisOf(t, j)
BY DEF N, AxisOf

LEMMA CurJvarFrame ==
  ASSUME plan' = plan, pos' = pos, reverse' = reverse
  PROVE  CurJvar' = CurJvar
BY PlanFrame DEF CurJvar

LEMMA JoinresPointsFrame ==
  ASSUME JoinresPoints, plan' = plan, joinres' = joinres
  PROVE  JoinresPoints'
BY PlanFrame DEF JoinresPoints

LEMMA InitShape == Init => Shape
<1>. SUFFICES ASSUME Init PROVE Shape
  OBVIOUS
<1>1. plan \in Plan /\ plan.jvarsitr2 \in Seq(Jvar) /\ plan.jvarsitr2 # << >>
  BY PruneAssumption DEF Init, Plan
<1>2. N \in Nat \ {0}
  BY <1>1 DEF N
<1>3. bm \in [TP -> SUBSET Cell] /\ \A t \in TP : IsFiniteSet(bm[t])
  BY <1>1, PruneAssumption DEF Init, Plan
<1>4. fold \in [TP \X Axis -> SUBSET Nat]
  BY <1>1 DEF Init, Plan
<1>5. numTriples \in [TP -> Nat]
  BY <1>3, FS_CardinalityType DEF Init
<1>6. /\ prev \in [TP \X Axis -> (SUBSET Nat) \cup {NULL}]
      /\ unfolded \in [TP -> BOOLEAN]
      /\ joinres \in [Jvar -> (TP \X Axis) \cup {NULL}]
  BY DEF Init
<1>7. pos = 1 /\ k = 1 /\ try = 1 /\ reverse = FALSE /\ pc = "node"
  BY DEF Init
<1>8. TypeOK
  <2>1. pos \in 1 .. N /\ k \in Nat \ {0} /\ try \in Nat \ {0}
    <3>1. 1 \in 1 .. N
      BY <1>2
    <3>. QED
      BY <1>7, <3>1
  <2>3. reverse \in BOOLEAN
    BY <1>7
  <2>2. pc \in {"node", "join", "unfold", "check", "fix"} \cup Returned
    BY <1>7
  <2>. QED
    BY <1>1, <1>3, <1>4, <1>5, <1>6, <2>1, <2>2, <2>3 DEF TypeOK
<1>. QED
  BY <1>3, <1>8 DEF Init, Shape, IndexOK, JoinresPoints, JoinresSet

\* What AfterJoin leaves: an index inside the list, and never a state between
\* nodes.
LEMMA AfterJoinType ==
  ASSUME Shape, pc = "join", NEW res, AfterJoin(res)
  PROVE  /\ pc' \in {"join", "unfold", "false"}
         /\ k' \in 1 .. Len(NextTP[CurJvar])
<1>1. k \in 1 .. Len(NextTP[CurJvar]) /\ Len(NextTP[CurJvar]) \in Nat
  BY CurTPType DEF Shape, IndexOK
<1>2. CASE res = {}
  BY <1>1, <1>2 DEF AfterJoin
<1>3. CASE res # {} /\ k < Len(NextTP[CurJvar])
  BY <1>1, <1>3 DEF AfterJoin
<1>4. CASE res # {} /\ ~(k < Len(NextTP[CurJvar]))
  BY <1>1, <1>4 DEF AfterJoin
<1>. QED
  BY <1>2, <1>3, <1>4

LEMMA NextTPLength ==
  ASSUME Shape
  PROVE  Len(NextTP[CurJvar]) \in Nat \ {0}
<1>1. CurJvar \in Jvar
  BY CurJvarType
<1>2. NextTP[CurJvar] \in Seq(TP) /\ NextTP[CurJvar] # << >>
  BY <1>1, PruneAssumption
<1>. QED
  BY <1>2

LEMMA EnterNodeShape == ASSUME Shape, EnterNode PROVE Shape'
<1>1. plan' = plan /\ N' = N /\ CurJvar' = CurJvar
  BY PlanFrame, CurJvarFrame DEF EnterNode, fixed, loopVars
<1>2. TypeOK'
  BY <1>1 DEF EnterNode, fixed, loopVars, Shape, TypeOK
<1>3. IndexOK'
  BY <1>1, NextTPLength DEF EnterNode, IndexOK
<1>4. JoinresPoints' /\ JoinresSet'
  BY <1>1, JoinresPointsFrame DEF EnterNode, Shape, JoinresSet
<1>. QED
  BY <1>1, <1>2, <1>3, <1>4 DEF EnterNode, Shape, fixed

LEMMA SkipLeafShape == ASSUME Shape, SkipLeaf PROVE Shape'
<1>1. plan' = plan /\ N' = N
  BY PlanFrame DEF SkipLeaf, fixed
<1>2. pos' \in 1 .. N /\ reverse' \in BOOLEAN /\ pc' \in {"node", "check"}
  BY <1>1, NextNodeType DEF SkipLeaf
<1>3. TypeOK'
  BY <1>1, <1>2 DEF SkipLeaf, fixed, Shape, TypeOK
<1>4. IndexOK' /\ JoinresSet'
  BY <1>2 DEF IndexOK, JoinresSet
<1>5. JoinresPoints'
  BY <1>1, JoinresPointsFrame DEF SkipLeaf, Shape
<1>. QED
  BY <1>1, <1>3, <1>4, <1>5 DEF SkipLeaf, Shape, fixed

\* A fold, recomputed or not, is a set of ids.
LEMMA FoldedType ==
  ASSUME Shape, NEW t \in TP, NEW a \in Axis
  PROVE  Folded(t, a) \in SUBSET Nat
<1>1. fold[<<t, a>>] \in SUBSET Nat /\ bm[t] \in SUBSET Cell
  BY DEF Shape, TypeOK
<1>2. SimpleFold(bm[t], a) \in SUBSET Nat
  BY <1>1 DEF SimpleFold, Coord, Cell
<1>. QED
  BY <1>1, <1>2 DEF Folded

LEMMA JoinFirstShape == ASSUME Shape, JoinFirst PROVE Shape'
<1>. DEFINE x == <<CurTP, CurAxis>>
            f == Folded(CurTP, CurAxis)
<1>1. plan' = plan /\ N' = N /\ CurJvar' = CurJvar
  BY PlanFrame, CurJvarFrame DEF JoinFirst, fixed, loopVars
<1>2. CurTP \in TP /\ CurAxis \in Axis /\ x \in TP \X Axis /\ CurJvar \in Jvar
  BY CurTPType, CurJvarType DEF JoinFirst
<1>3. f \in SUBSET Nat
  BY <1>2, FoldedType
<1>4. /\ fold' = [fold EXCEPT ![x] = f]
      /\ prev' = [prev EXCEPT ![x] = f]
      /\ joinres' = [joinres EXCEPT ![CurJvar] = x]
      /\ AfterJoin(f)
  BY DEF JoinFirst
<1>5. pc' \in {"join", "unfold", "false"} /\ k' \in 1 .. Len(NextTP[CurJvar])
  BY <1>4, AfterJoinType DEF JoinFirst
<1>6. fold' \in [TP \X Axis -> SUBSET Nat]
  BY <1>2, <1>3, <1>4 DEF Shape, TypeOK
<1>7. prev' \in [TP \X Axis -> (SUBSET Nat) \cup {NULL}]
  BY <1>2, <1>3, <1>4 DEF Shape, TypeOK
<1>8. joinres' \in [Jvar -> (TP \X Axis) \cup {NULL}]
  BY <1>2, <1>4 DEF Shape, TypeOK
<1>9. k' \in Nat \ {0}
  BY <1>5, NextTPLength
<1>10. TypeOK'
  BY <1>1, <1>5, <1>6, <1>7, <1>8, <1>9 DEF JoinFirst, fixed, loopVars, Shape, TypeOK, Returned
<1>11. IndexOK'
  BY <1>1, <1>5 DEF IndexOK
<1>12. JoinresPoints'
  <2>. SUFFICES ASSUME NEW j \in Jvar, joinres'[j] # NULL
                PROVE  \E g \in TP : Mentions(g, j) /\ joinres'[j] = <<g, AxisOf(g, j)>>
    BY <1>1, PlanFrame DEF JoinresPoints
  <2>1. CASE j = CurJvar
    BY <2>1, <1>2, <1>4, CurTPType DEF JoinFirst, Shape, TypeOK
  <2>2. CASE j # CurJvar
    BY <2>2, <1>4 DEF Shape, TypeOK, JoinresPoints
  <2>. QED
    BY <2>1, <2>2
<1>13. JoinresSet'
  <2>1. joinres'[CurJvar] = x /\ x # NULL
    BY <1>2, <1>4, PruneAssumption DEF Shape, TypeOK
  <2>. QED
    BY <1>1, <2>1 DEF JoinresSet
<1>. QED
  BY <1>1, <1>10, <1>11, <1>12, <1>13 DEF JoinFirst, Shape, fixed

LEMMA JoinAndShape == ASSUME Shape, JoinAnd PROVE Shape'
<1>. DEFINE x   == <<CurTP, CurAxis>>
            f   == [fold EXCEPT ![x] = Folded(CurTP, CurAxis)]
            old == f[joinres[CurJvar]]
            res == f[x] \cap IF SOJoin(CurTP, CurJvar) THEN TruncateToCommonSO(old) ELSE old
<1>1. plan' = plan /\ N' = N /\ CurJvar' = CurJvar
  BY PlanFrame, CurJvarFrame DEF JoinAnd, fixed, loopVars
<1>2. CurTP \in TP /\ CurAxis \in Axis /\ x \in TP \X Axis /\ CurJvar \in Jvar
  BY CurTPType, CurJvarType DEF JoinAnd
<1>3. f \in [TP \X Axis -> SUBSET Nat]
  BY <1>2, FoldedType DEF Shape, TypeOK
<1>4. res \in SUBSET Nat
  BY <1>2, <1>3
<1>5. fold' = [f EXCEPT ![joinres[CurJvar]] = res] /\ AfterJoin(res)
  BY DEF JoinAnd
<1>6. fold' \in [TP \X Axis -> SUBSET Nat]
  BY <1>3, <1>4, <1>5
<1>7. pc' \in {"join", "unfold", "false"} /\ k' \in 1 .. Len(NextTP[CurJvar])
  <2>. HIDE DEF res
  <2>. QED
    BY <1>5, AfterJoinType DEF JoinAnd
<1>8. k' \in Nat \ {0}
  BY <1>7, NextTPLength
<1>9. TypeOK'
  BY <1>1, <1>6, <1>7, <1>8 DEF JoinAnd, fixed, loopVars, Shape, TypeOK, Returned
<1>10. IndexOK' /\ JoinresPoints' /\ JoinresSet'
  BY <1>1, <1>7, JoinresPointsFrame DEF JoinAnd, Shape, IndexOK, JoinresSet
<1>. QED
  BY <1>1, <1>9, <1>10 DEF JoinAnd, Shape, fixed

\* What AfterUnfold leaves: the next pattern of the variable, or the next node.
LEMMA AfterUnfoldShape ==
  ASSUME Shape, pc = "unfold", AfterUnfold, plan' = plan, joinres' = joinres
  PROVE  /\ pos' \in 1 .. N' /\ reverse' \in BOOLEAN
         /\ pc' \in {"unfold", "node", "check"} /\ k' \in Nat \ {0}
         /\ IndexOK' /\ JoinresSet'
<1>1. N' = N
  BY PlanFrame
<1>2. k \in 1 .. Len(NextTP[CurJvar]) /\ Len(NextTP[CurJvar]) \in Nat
  BY NextTPLength DEF Shape, IndexOK
<1>3. CASE k < Len(NextTP[CurJvar])
  <2>1. k' = k + 1 /\ pc' = "unfold" /\ pos' = pos /\ reverse' = reverse
    BY <1>3 DEF AfterUnfold
  <2>2. CurJvar' = CurJvar
    BY <2>1, CurJvarFrame
  <2>3. k' \in 1 .. Len(NextTP[CurJvar]) /\ k' \in Nat \ {0}
    BY <1>2, <1>3, <2>1
  <2>4. pos' \in 1 .. N' /\ reverse' \in BOOLEAN
    BY <1>1, <2>1 DEF Shape, TypeOK
  <2>. QED
    BY <2>1, <2>2, <2>3, <2>4 DEF IndexOK, JoinresSet, Shape
<1>4. CASE ~(k < Len(NextTP[CurJvar]))
  <2>1. NextNode /\ k' = 1
    BY <1>4 DEF AfterUnfold
  <2>2. pos' \in 1 .. N /\ reverse' \in BOOLEAN /\ pc' \in {"node", "check"}
    BY <2>1, <1>1, NextNodeType
  <2>. QED
    BY <1>1, <2>1, <2>2 DEF IndexOK, JoinresSet
<1>. QED
  BY <1>3, <1>4

\* The counts, asked for or not, are numbers.
LEMMA CountTriplesType ==
  ASSUME Shape, NEW t \in TP, NEW cells, IsFiniteSet(cells), CountTriples(t, cells)
  PROVE  numTriples' \in [TP -> Nat]
<1>1. Cardinality(cells) \in Nat
  BY FS_CardinalityType
<1>. QED
  BY <1>1 DEF CountTriples, Shape, TypeOK

LEMMA UnfoldUnchangedShape == ASSUME Shape, UnfoldUnchanged PROVE Shape'
<1>1. plan' = plan
  BY DEF UnfoldUnchanged, fixed
<1>2. CurTP \in TP
  BY CurTPType DEF UnfoldUnchanged
<1>3. numTriples' \in [TP -> Nat]
  BY <1>2, CountTriplesType DEF UnfoldUnchanged, Shape
<1>4. /\ pos' \in 1 .. N' /\ reverse' \in BOOLEAN
      /\ pc' \in {"unfold", "node", "check"} /\ k' \in Nat \ {0}
      /\ IndexOK' /\ JoinresSet'
  BY <1>1, AfterUnfoldShape DEF UnfoldUnchanged
<1>5. TypeOK'
  BY <1>1, <1>3, <1>4 DEF UnfoldUnchanged, fixed, Shape, TypeOK
<1>. QED
  BY <1>1, <1>4, <1>5, JoinresPointsFrame DEF UnfoldUnchanged, Shape

\* The folds unfolding leaves are sets of ids.
LEMMA NewFoldType ==
  ASSUME Shape, pc = "unfold", NEW t \in TP, NEW a \in Axis
  PROVE  NewFold(t, a) \in SUBSET Nat
<1>1. fold[<<t, a>>] \in SUBSET Nat
  BY DEF Shape, TypeOK
<1>2. joinres[CurJvar] \in TP \X Axis
  BY CurJvarType DEF Shape, TypeOK, JoinresSet
<1>3. Joinres \in SUBSET Nat
  BY <1>2 DEF Joinres, Shape, TypeOK
<1>4. SOFold(t, a) \subseteq Joinres \cup fold[<<t, a>>]
  BY DEF SOFold, WithinLimit
<1>. QED
  BY <1>1, <1>3, <1>4 DEF NewFold

LEMMA UnfoldFoldOnlyShape == ASSUME Shape, UnfoldFoldOnly PROVE Shape'
<1>1. plan' = plan /\ joinres' = joinres
  BY DEF UnfoldFoldOnly, fixed
<1>2. CurTP \in TP /\ CurAxis \in Axis
  BY CurTPType DEF UnfoldFoldOnly
<1>3. numTriples' \in [TP -> Nat]
  BY <1>2, CountTriplesType DEF UnfoldFoldOnly, Shape
<1>4. fold' \in [TP \X Axis -> SUBSET Nat] /\ unfolded' \in [TP -> BOOLEAN]
  BY <1>2, NewFoldType DEF UnfoldFoldOnly, Shape, TypeOK
<1>5. /\ pos' \in 1 .. N' /\ reverse' \in BOOLEAN
      /\ pc' \in {"unfold", "node", "check"} /\ k' \in Nat \ {0}
      /\ IndexOK' /\ JoinresSet'
  BY <1>1, AfterUnfoldShape DEF UnfoldFoldOnly
<1>6. TypeOK'
  BY <1>1, <1>3, <1>4, <1>5 DEF UnfoldFoldOnly, Shape, TypeOK
<1>. QED
  BY <1>1, <1>5, <1>6, JoinresPointsFrame DEF UnfoldFoldOnly, Shape

LEMMA UnfoldCellsShape == ASSUME Shape, UnfoldCells PROVE Shape'
<1>1. plan' = plan /\ joinres' = joinres
  BY DEF UnfoldCells, fixed
<1>2. CurTP \in TP /\ CurAxis \in Axis
  BY CurTPType DEF UnfoldCells
<1>3. Kept \subseteq bm[CurTP]
  BY DEF Kept, SimpleUnfold
<1>4. IsFiniteSet(Kept) /\ Kept \in SUBSET Cell
  BY <1>2, <1>3, FS_Subset DEF Shape, TypeOK
<1>5. numTriples' \in [TP -> Nat]
  BY <1>2, <1>4, CountTriplesType DEF UnfoldCells
<1>6. fold' \in [TP \X Axis -> SUBSET Nat] /\ unfolded' \in [TP -> BOOLEAN]
  BY <1>2, NewFoldType DEF UnfoldCells, Shape, TypeOK
<1>7. bm' \in [TP -> SUBSET Cell] /\ \A t \in TP : IsFiniteSet(bm'[t])
  BY <1>2, <1>4 DEF UnfoldCells, Shape, TypeOK
<1>8. /\ pos' \in 1 .. N' /\ reverse' \in BOOLEAN
      /\ pc' \in {"unfold", "node", "check"} /\ k' \in Nat \ {0}
      /\ IndexOK' /\ JoinresSet'
  BY <1>1, AfterUnfoldShape DEF UnfoldCells
<1>9. TypeOK'
  BY <1>1, <1>5, <1>6, <1>7, <1>8 DEF UnfoldCells, Shape, TypeOK
<1>. QED
  BY <1>1, <1>7, <1>8, <1>9, JoinresPointsFrame DEF UnfoldCells, Shape

\* Steps that move pc out of the loops and change no index, fold or pointer.
LEMMA LeaveShape ==
  ASSUME Shape, pc' \in {"node", "check", "fix"} \cup Returned,
         try' \in Nat \ {0}, bm' \in [TP -> SUBSET Cell],
         \A t \in TP : IsFiniteSet(bm'[t]),
         UNCHANGED <<plan, fold, prev, unfolded, joinres, numTriples, reverse, pos, k>>
  PROVE  Shape'
<1>1. plan' = plan /\ N' = N
  BY PlanFrame
<1>2. TypeOK'
  BY <1>1 DEF Shape, TypeOK
<1>3. IndexOK' /\ JoinresSet'
  BY DEF IndexOK, JoinresSet, Returned
<1>. QED
  BY <1>1, <1>2, <1>3, JoinresPointsFrame DEF Shape

LEMMA UnfoldReloadsNothingShape == ASSUME Shape, UnfoldReloadsNothing PROVE Shape'
BY LeaveShape DEF UnfoldReloadsNothing, fixed, loopVars, Shape, TypeOK, Returned

LEMMA TryAgainShape == ASSUME Shape, TryAgain PROVE Shape'
<1>1. try' \in Nat \ {0}
  BY DEF TryAgain, Shape, TypeOK
<1>. QED
  BY <1>1, LeaveShape DEF TryAgain, fixed, Shape, TypeOK

LEMMA ReturnTrueShape == ASSUME Shape, ReturnTrue PROVE Shape'
BY LeaveShape DEF ReturnTrue, fixed, loopVars, Shape, TypeOK

LEMMA FixAllTpBitmatsShape == ASSUME Shape, FixAllTpBitmats PROVE Shape'
<1>1. \A t \in TP : bm'[t] \subseteq bm[t]
  BY DEF FixAllTpBitmats, SimpleUnfold
<1>2. bm' \in [TP -> SUBSET Cell]
  BY <1>1 DEF FixAllTpBitmats, Shape, TypeOK
<1>3. \A t \in TP : IsFiniteSet(bm'[t])
  BY <1>1, FS_Subset DEF Shape
<1>. QED
  BY <1>2, <1>3, LeaveShape DEF FixAllTpBitmats, fixed, loopVars, Shape, TypeOK, Returned

LEMMA StutterShape == ASSUME Shape, UNCHANGED vars PROVE Shape'
<1>1. plan' = plan /\ N' = N /\ CurJvar' = CurJvar
  BY PlanFrame, CurJvarFrame DEF vars
<1>. QED
  BY <1>1, JoinresPointsFrame DEF vars, Shape, TypeOK, IndexOK, JoinresSet

LEMMA NextShape == ASSUME Shape, [Next]_vars PROVE Shape'
BY EnterNodeShape, SkipLeafShape, JoinFirstShape, JoinAndShape, UnfoldUnchangedShape,
   UnfoldFoldOnlyShape, UnfoldCellsShape, UnfoldReloadsNothingShape, TryAgainShape,
   ReturnTrueShape, FixAllTpBitmatsShape, StutterShape DEF Next, Finished

THEOREM ShapeInvariant == Spec => []Shape
BY InitShape, NextShape, PTL DEF Spec

\* Every state of the phase has the types of its variables: pos stays inside
\* jvarsitr2 however the two loops end, joinres is NULL or a fold of a pattern.
THEOREM TypeCorrect == Spec => []TypeOK
<1>1. Shape => TypeOK
  BY DEF Shape
<1>. QED
  BY <1>1, ShapeInvariant, PTL

----------------------------------------------------------------------------
(***************************************************************************)
(* Pruning is sound: whatever the query, the data and the order of the     *)
(* variables, no triple of an answer is cleared and "0 results" is true.   *)
(* It takes complete folds and a number of common ids that is not a        *)
(* multiple of 8; the runs disk_folds and common_ids show that neither     *)
(* assumption can go.                                                      *)
(***************************************************************************)

CompleteFolds == \A p \in Plans : FoldsComplete(p)
PartialLastByte == NumCommSO % 8 # 0

\* What an answer is, as far as the proof needs it.
Binding ==
  \A sol \in answers :
    /\ \A j \in Jvar : sol[j] \in Nat /\ (SOVar(j) => sol[j] <= NumCommSO)
    /\ \A t \in TP : \E c \in plan.bm[t] : Matches(c, t, sol)

\* Every fold of a pattern has the bindings the answers need.
Cover == \A sol \in answers : \A t \in TP : \A j \in JvarsOf(t) :
           sol[j] \in fold[<<t, AxisOf(t, j)>>]

Sound == Shape /\ Binding /\ Cover /\ NoAnswerLost /\ EmptyMeansNoAnswer

----------------------------------------------------------------------------
(* Arithmetic of the common ids.                                           *)

LEMMA LastIsLast == ASSUME PartialLastByte PROVE LastCommonId = NumCommSO
BY DEF PartialLastByte, LastCommonId

\* A common id lives in a byte of the common part, and so of any longer fold.
LEMMA CommonByte ==
  ASSUME NEW i \in Nat, i <= NumCommSO, NEW w \in Nat, NumCommSO <= w
  PROVE  /\ ByteOf(i) < BytesFor(NumCommSO) /\ ByteOf(i) < BytesFor(w)
         /\ ByteOf(i) \in Int /\ BytesFor(NumCommSO) \in Int /\ BytesFor(w) \in Int
BY SizesAssumption DEF ByteOf, BytesFor

\* The axis of a subject or object position is at least as long.
LEMMA JoinWidth ==
  ASSUME NEW dim \in Dimension, NEW position \in {"SUB", "OBJ"}
  PROVE  /\ Width(dim, JoinAxis(dim, position)) \in Nat
         /\ NumCommSO <= Width(dim, JoinAxis(dim, position))
<1>1. Width(dim, JoinAxis(dim, position)) \in {NumSubs, NumObjs}
  <2>1. CASE dim = "SPO"
    BY <2>1 DEF Width, JoinAxis
  <2>2. CASE dim = "OPS"
    BY <2>2 DEF Width, JoinAxis
  <2>3. CASE dim = "PSO"
    BY <2>3 DEF Width, JoinAxis
  <2>4. CASE dim = "POS"
    BY <2>4 DEF Width, JoinAxis
  <2>. QED
    BY <2>1, <2>2, <2>3, <2>4 DEF Dimension
<1>. QED
  BY <1>1, SizesAssumption

----------------------------------------------------------------------------
(* Facts about one state.                                                  *)

LEMMA JvarsOfJvar ==
  ASSUME NEW t, NEW j \in JvarsOf(t) PROVE j \in Jvar /\ Mentions(t, j)
BY DEF JvarsOf

\* Two variables on one axis of a pattern have one binding.
LEMMA SameAxis ==
  ASSUME Binding, NEW sol \in answers, NEW t \in TP,
         NEW j \in JvarsOf(t), NEW m \in JvarsOf(t), AxisOf(t, j) = AxisOf(t, m)
  PROVE  sol[j] = sol[m]
BY DEF Binding, Matches

\* An S-O join is one of a variable that is a subject and an object.
LEMMA SOJoinVar ==
  ASSUME NEW j \in Jvar, NEW t \in TP, NEW u \in TP, Mentions(t, j), Mentions(u, j),
         PosOf(t, j) # PosOf(u, j)
  PROVE  SOVar(j) /\ PosOf(t, j) \in {"SUB", "OBJ"} /\ PosOf(u, j) \in {"SUB", "OBJ"}
<1>1. PosOf(t, j) \in {"SUB", "OBJ", "PRED"} /\ PosOf(u, j) \in {"SUB", "OBJ", "PRED"}
  BY DEF PosOf
<1>2. (PosOf(t, j) = "PRED") <=> (PosOf(u, j) = "PRED")
  BY NoMixedPredicateJoin
<1>3. \/ PosOf(t, j) = "SUB" /\ PosOf(u, j) = "OBJ"
      \/ PosOf(t, j) = "OBJ" /\ PosOf(u, j) = "SUB"
  BY <1>1, <1>2
<1>. QED
  BY <1>3 DEF SOVar

\* A fold, recomputed or not, has the bindings the answers need.
LEMMA FoldedCovers ==
  ASSUME Sound, NEW sol \in answers, NEW t \in TP, NEW j \in JvarsOf(t)
  PROVE  sol[j] \in Folded(t, AxisOf(t, j))
<1>1. sol[j] \in fold[<<t, AxisOf(t, j)>>]
  BY DEF Sound, Cover
<1>2. PICK c \in plan.bm[t] : Matches(c, t, sol)
  BY DEF Sound, Binding
<1>3. c \in bm[t] /\ Coord(c, AxisOf(t, j)) = sol[j]
  BY <1>2 DEF Sound, NoAnswerLost, Matches
<1>. QED
  BY <1>1, <1>3 DEF Folded, SimpleFold

\* The variable that is being joined or unfolded, and the array joinres is.
LEMMA CurFacts ==
  ASSUME Shape, pc \in {"join", "unfold"}
  PROVE  /\ CurTP \in TP /\ CurJvar \in JvarsOf(CurTP) /\ CurJvar \in Jvar
         /\ CurAxis = AxisOf(CurTP, CurJvar)
         /\ <<CurTP, CurAxis>> \in TP \X Axis
BY CurTPType, CurJvarType DEF JvarsOf

LEMMA JoinresFacts ==
  ASSUME Shape, NEW j \in Jvar, joinres[j] # NULL
  PROVE  \E g \in TP : /\ j \in JvarsOf(g) /\ joinres[j] = <<g, AxisOf(g, j)>>
                       /\ joinres[j] \in TP \X Axis /\ JoinresDim(j) = PosOf(g, j)
BY AxisOfType DEF Shape, JoinresPoints, JoinresDim, JvarsOf

\* A fold that changes in one place still covers the answers if the new fold has
\* the bindings of one of the variables it is the fold of.
LEMMA CoverUpdate ==
  ASSUME Binding, NEW f, f \in [TP \X Axis -> SUBSET Nat],
         \A sol \in answers : \A t \in TP : \A j \in JvarsOf(t) :
           sol[j] \in f[<<t, AxisOf(t, j)>>],
         NEW g \in TP, NEW i \in JvarsOf(g), NEW ids,
         \A sol \in answers : sol[i] \in ids
  PROVE  \A sol \in answers : \A t \in TP : \A j \in JvarsOf(t) :
           sol[j] \in [f EXCEPT ![<<g, AxisOf(g, i)>>] = ids][<<t, AxisOf(t, j)>>]
<1>. SUFFICES ASSUME NEW sol \in answers, NEW t \in TP, NEW j \in JvarsOf(t)
              PROVE  sol[j] \in [f EXCEPT ![<<g, AxisOf(g, i)>>] = ids][<<t, AxisOf(t, j)>>]
  OBVIOUS
<1>1. <<t, AxisOf(t, j)>> \in TP \X Axis
  BY AxisOfType
<1>2. CASE <<t, AxisOf(t, j)>> = <<g, AxisOf(g, i)>>
  <2>1. sol[j] = sol[i]
    BY <1>2, SameAxis
  <2>. QED
    BY <1>1, <1>2, <2>1
<1>3. CASE <<t, AxisOf(t, j)>> # <<g, AxisOf(g, i)>>
  BY <1>1, <1>3
<1>. QED
  BY <1>2, <1>3

\* What stays when neither the plan nor the history changes.
LEMMA BindingFrame ==
  ASSUME Binding, plan' = plan, answers' = answers PROVE Binding'
BY PlanFrame DEF Binding, Matches

LEMMA CoverFrame ==
  ASSUME plan' = plan, answers' = answers,
         \A sol \in answers : \A t \in TP : \A j \in JvarsOf(t) :
           sol[j] \in fold'[<<t, AxisOf(t, j)>>]
  PROVE  Cover'
BY PlanFrame DEF Cover

LEMMA NoAnswerLostFrame ==
  ASSUME plan' = plan, answers' = answers,
         \A sol \in answers : \A t \in TP : \A c \in plan.bm[t] :
           Matches(c, t, sol) => c \in bm'[t]
  PROVE  NoAnswerLost'
BY PlanFrame DEF NoAnswerLost, Matches

----------------------------------------------------------------------------
(* The fold an unfold leaves keeps the bindings the answers need.          *)

\* A common id is below the limit of an S-O unfold.
LEMMA BelowLimit ==
  ASSUME Shape, pc = "unfold", SOJoin(CurTP, CurJvar), NEW i \in Nat, i <= NumCommSO
  PROVE  /\ ByteOf(i) < LimitBytes(CurTP, CurAxis) /\ ByteOf(i) < BytesFor(NumCommSO)
         /\ ByteOf(i) \in Int /\ LimitBytes(CurTP, CurAxis) \in Int /\ BytesFor(NumCommSO) \in Int
<1>. DEFINE j == CurJvar
<1>1. PICK g \in TP : j \in JvarsOf(g) /\ joinres[j] = <<g, AxisOf(g, j)>> /\ JoinresDim(j) = PosOf(g, j)
  BY CurFacts, JoinresFacts DEF Shape, JoinresSet
<1>2. CurTP \in TP /\ j \in Jvar /\ j \in JvarsOf(CurTP) /\ CurAxis = AxisOf(CurTP, j)
  BY CurFacts
<1>3. PosOf(CurTP, j) \in {"SUB", "OBJ"} /\ PosOf(g, j) \in {"SUB", "OBJ"}
  BY <1>1, <1>2, SOJoinVar, JvarsOfJvar DEF SOJoin
<1>4. plan.dimension[g] \in Dimension /\ plan.dimension[CurTP] \in Dimension
  BY <1>1, <1>2 DEF Shape, TypeOK, Plan
<1>5. /\ ByteOf(i) < BytesFor(Width(plan.dimension[g], AxisOf(g, j)))
      /\ BytesFor(Width(plan.dimension[g], AxisOf(g, j))) \in Int
  BY <1>3, <1>4, JoinWidth, CommonByte DEF AxisOf
<1>6. /\ ByteOf(i) < BytesFor(Width(plan.dimension[CurTP], CurAxis))
      /\ BytesFor(Width(plan.dimension[CurTP], CurAxis)) \in Int
      /\ ByteOf(i) < BytesFor(NumCommSO)
      /\ ByteOf(i) \in Int /\ BytesFor(NumCommSO) \in Int
  BY <1>2, <1>3, <1>4, JoinWidth, CommonByte DEF AxisOf
<1>7. joinres[CurJvar][1] = g /\ joinres[CurJvar][2] = AxisOf(g, j)
  BY <1>1
<1>. QED
  BY <1>5, <1>6, <1>7 DEF LimitBytes

LEMMA JoinresCovers ==
  ASSUME Sound, pc = "unfold", NEW sol \in answers
  PROVE  sol[CurJvar] \in Joinres /\ sol[CurJvar] \in fold[<<CurTP, CurAxis>>]
<1>1. PICK g \in TP : CurJvar \in JvarsOf(g) /\ joinres[CurJvar] = <<g, AxisOf(g, CurJvar)>>
  BY CurFacts, JoinresFacts DEF Sound, Shape, JoinresSet
<1>. QED
  BY <1>1, CurFacts DEF Sound, Cover, Joinres

LEMMA NewFoldCovers ==
  ASSUME Sound, pc = "unfold", NEW sol \in answers
  PROVE  sol[CurJvar] \in NewFold(CurTP, CurAxis)
<1>. DEFINE i == sol[CurJvar]
<1>1. i \in Joinres /\ i \in fold[<<CurTP, CurAxis>>]
  BY JoinresCovers
<1>2. CASE ~SOJoin(CurTP, CurJvar)
  BY <1>1, <1>2 DEF NewFold
<1>3. CASE SOJoin(CurTP, CurJvar)
  <2>1. PICK g \in TP : CurJvar \in JvarsOf(g) /\ JoinresDim(CurJvar) = PosOf(g, CurJvar)
    BY CurFacts, JoinresFacts DEF Sound, Shape, JoinresSet
  <2>2. SOVar(CurJvar)
    BY <1>3, <2>1, CurFacts, JvarsOfJvar, SOJoinVar DEF SOJoin, Sound
  <2>3. i \in Nat /\ i <= NumCommSO
    BY <2>2, CurFacts DEF Sound, Binding
  <2>4. /\ ByteOf(i) < LimitBytes(CurTP, CurAxis) /\ ByteOf(i) < BytesFor(NumCommSO)
        /\ ByteOf(i) \in Int /\ LimitBytes(CurTP, CurAxis) \in Int /\ BytesFor(NumCommSO) \in Int
    BY <1>3, <2>3, BelowLimit DEF Sound
  <2>5. i \in WithinLimit(Joinres, CurTP, CurAxis)
    BY <1>1, <2>4 DEF WithinLimit
  <2>6. i \in SOFold(CurTP, CurAxis)
    BY <2>4, <2>5 DEF SOFold
  <2>. QED
    BY <1>3, <2>6 DEF NewFold
<1>. QED
  BY <1>2, <1>3

----------------------------------------------------------------------------
(* A query with an answer is never given up.                               *)

LEMMA AfterJoinSound ==
  ASSUME EmptyMeansNoAnswer, pc = "join", answers' = answers,
         NEW res, AfterJoin(res), NEW j, \A sol \in answers : sol[j] \in res
  PROVE  EmptyMeansNoAnswer'
<1>1. CASE res = {}
  BY <1>1 DEF EmptyMeansNoAnswer
<1>2. CASE res # {}
  <2>1. pc' # "false"
    BY <1>2 DEF AfterJoin
  <2>. QED
    BY <2>1 DEF EmptyMeansNoAnswer
<1>. QED
  BY <1>1, <1>2

LEMMA AfterUnfoldSound ==
  ASSUME pc = "unfold", AfterUnfold PROVE pc' # "false"
BY DEF AfterUnfold, NextNode

----------------------------------------------------------------------------
(* Initially, the folds are complete.                                      *)

LEMMA InitSound == ASSUME Init, CompleteFolds PROVE Sound
<1>1. Shape
  BY InitShape
<1>2. plan \in Plans /\ bm = plan.bm /\ fold = plan.fold /\ pc = "node" /\ answers = Solutions
  BY DEF Init
<1>3. LoadedIds \subseteq Nat
  <2>1. SUFFICES ASSUME NEW t \in TP, NEW a \in Axis PROVE SimpleFold(plan.bm[t], a) \subseteq Nat
    BY DEF LoadedIds
  <2>2. plan.bm[t] \in SUBSET Cell
    BY <1>1 DEF Shape, TypeOK, Plan
  <2>. QED
    BY <2>2 DEF SimpleFold, Coord, Cell
<1>4. Binding
  <2>. SUFFICES ASSUME NEW sol \in Solutions
                PROVE  /\ \A j \in Jvar : sol[j] \in Nat /\ (SOVar(j) => sol[j] <= NumCommSO)
                       /\ \A t \in TP : \E c \in plan.bm[t] : Matches(c, t, sol)
    BY <1>2 DEF Binding
  <2>1. sol \in [Jvar -> LoadedIds]
    BY DEF Solutions
  <2>2. \A j \in Jvar : sol[j] \in Nat
    BY <1>3, <2>1
  <2>. QED
    BY <2>2 DEF Solutions
<1>5. Cover
  <2>. SUFFICES ASSUME NEW sol \in answers, NEW t \in TP, NEW j \in JvarsOf(t)
                PROVE  sol[j] \in plan.fold[<<t, AxisOf(t, j)>>]
    BY <1>2 DEF Cover
  <2>1. PICK c \in plan.bm[t] : Matches(c, t, sol)
    BY <1>4 DEF Binding
  <2>2. sol[j] \in SimpleFold(plan.bm[t], AxisOf(t, j))
    BY <2>1 DEF Matches, SimpleFold
  <2>3. FoldsComplete(plan)
    BY <1>2 DEF CompleteFolds
  <2>. QED
    BY <2>2, <2>3 DEF FoldsComplete, AxisOf
<1>6. NoAnswerLost /\ EmptyMeansNoAnswer
  BY <1>2 DEF NoAnswerLost, EmptyMeansNoAnswer
<1>. QED
  BY <1>1, <1>4, <1>5, <1>6 DEF Sound

----------------------------------------------------------------------------
(* The steps.                                                              *)

\* Steps that touch neither a bitmat nor a fold.
LEMMA QuietSound ==
  ASSUME Sound, Shape', UNCHANGED <<plan, answers, bm, fold>>,
         pc' # "false" \/ pc' = pc
  PROVE  Sound'
<1>1. Binding'
  BY BindingFrame DEF Sound
<1>2. Cover'
  BY CoverFrame DEF Sound, Cover
<1>3. NoAnswerLost'
  BY NoAnswerLostFrame DEF Sound, NoAnswerLost
<1>4. EmptyMeansNoAnswer'
  BY DEF Sound, EmptyMeansNoAnswer
<1>. QED
  BY <1>1, <1>2, <1>3, <1>4 DEF Sound

LEMMA JoinFirstSound == ASSUME Sound, Shape', JoinFirst PROVE Sound'
<1>. DEFINE f == Folded(CurTP, CurAxis)
<1>1. plan' = plan /\ answers' = answers /\ bm' = bm
  BY DEF JoinFirst, fixed
<1>2. /\ CurTP \in TP /\ CurJvar \in JvarsOf(CurTP) /\ CurAxis = AxisOf(CurTP, CurJvar)
  BY CurFacts DEF Sound, JoinFirst
<1>3. \A sol \in answers : sol[CurJvar] \in f
  BY <1>2, FoldedCovers
<1>4. fold' = [fold EXCEPT ![<<CurTP, AxisOf(CurTP, CurJvar)>>] = f] /\ AfterJoin(f)
  BY <1>2 DEF JoinFirst
<1>5. Cover'
  <2>1. fold \in [TP \X Axis -> SUBSET Nat] /\ Binding /\ Cover
    BY DEF Sound, Shape, TypeOK
  <2>2. \A sol \in answers : \A t \in TP : \A j \in JvarsOf(t) : sol[j] \in fold'[<<t, AxisOf(t, j)>>]
    <3>. HIDE DEF f
    <3>. QED
      BY <1>2, <1>3, <1>4, <2>1, CoverUpdate DEF Cover
  <2>. QED
    BY <1>1, <2>2, CoverFrame
<1>6. EmptyMeansNoAnswer'
  <2>. HIDE DEF f
  <2>. QED
    BY <1>1, <1>3, <1>4, AfterJoinSound DEF Sound, JoinFirst
<1>7. Binding' /\ NoAnswerLost'
  BY <1>1, BindingFrame, NoAnswerLostFrame DEF Sound, NoAnswerLost
<1>. QED
  BY <1>5, <1>6, <1>7 DEF Sound

LEMMA JoinAndSound == ASSUME Sound, Shape', PartialLastByte, JoinAnd PROVE Sound'
<1>. DEFINE j   == CurJvar
            x   == <<CurTP, CurAxis>>
            f   == [fold EXCEPT ![x] = Folded(CurTP, CurAxis)]
            old == f[joinres[CurJvar]]
            res == f[x] \cap IF SOJoin(CurTP, CurJvar) THEN TruncateToCommonSO(old) ELSE old
<1>1. plan' = plan /\ answers' = answers /\ bm' = bm
  BY DEF JoinAnd, fixed
<1>2. /\ CurTP \in TP /\ j \in Jvar /\ j \in JvarsOf(CurTP) /\ CurAxis = AxisOf(CurTP, j)
      /\ x \in TP \X Axis
  BY CurFacts DEF Sound, JoinAnd
<1>3. PICK g \in TP : /\ j \in JvarsOf(g) /\ joinres[j] = <<g, AxisOf(g, j)>>
                      /\ joinres[j] \in TP \X Axis /\ JoinresDim(j) = PosOf(g, j)
  BY <1>2, JoinresFacts DEF Sound, JoinAnd
<1>4. fold' = [f EXCEPT ![<<g, AxisOf(g, j)>>] = res] /\ AfterJoin(res)
  BY <1>3 DEF JoinAnd
<1>5. f \in [TP \X Axis -> SUBSET Nat] /\ Binding
  BY <1>2, FoldedType DEF Sound, Shape, TypeOK
<1>6. \A sol \in answers : \A t \in TP : \A m \in JvarsOf(t) : sol[m] \in f[<<t, AxisOf(t, m)>>]
  <2>1. \A sol \in answers : sol[j] \in Folded(CurTP, CurAxis)
    BY <1>2, FoldedCovers
  <2>2. fold \in [TP \X Axis -> SUBSET Nat] /\ Binding /\ Cover
    BY DEF Sound, Shape, TypeOK
  <2>3. f = [fold EXCEPT ![<<CurTP, AxisOf(CurTP, j)>>] = Folded(CurTP, CurAxis)]
    BY <1>2
  <2>. QED
    BY <1>2, <2>1, <2>2, <2>3, CoverUpdate DEF Cover
<1>7. ASSUME NEW sol \in answers PROVE sol[j] \in res
  <2>1. sol[j] \in f[x] /\ sol[j] \in old
    BY <1>2, <1>3, <1>6
  <2>2. SOJoin(CurTP, j) => sol[j] \in TruncateToCommonSO(old)
    <3>. SUFFICES ASSUME SOJoin(CurTP, j) PROVE sol[j] <= LastCommonId
      BY <2>1 DEF TruncateToCommonSO
    <3>1. SOVar(j)
      BY <1>2, <1>3, JvarsOfJvar, SOJoinVar DEF SOJoin
    <3>. QED
      BY <1>2, <1>5, <3>1, LastIsLast DEF Binding
  <2>. QED
    BY <2>1, <2>2
<1>8. Cover'
  <2>1. \A sol \in answers : \A t \in TP : \A m \in JvarsOf(t) : sol[m] \in fold'[<<t, AxisOf(t, m)>>]
    <3>. HIDE DEF f, res
    <3>. QED
      BY <1>3, <1>4, <1>5, <1>6, <1>7, CoverUpdate
  <2>. QED
    BY <1>1, <2>1, CoverFrame
<1>9. EmptyMeansNoAnswer'
  <2>. HIDE DEF f, res
  <2>. QED
    BY <1>1, <1>4, <1>7, AfterJoinSound DEF Sound, JoinAnd
<1>10. Binding' /\ NoAnswerLost'
  BY <1>1, BindingFrame, NoAnswerLostFrame DEF Sound, NoAnswerLost
<1>. QED
  BY <1>8, <1>9, <1>10 DEF Sound

\* The fold of the pattern that is unfolded still covers the answers.
LEMMA UnfoldCover ==
  ASSUME Sound, pc = "unfold", plan' = plan, answers' = answers,
         fold' = [fold EXCEPT ![<<CurTP, CurAxis>>] = NewFold(CurTP, CurAxis)]
  PROVE  Cover'
<1>1. CurTP \in TP /\ CurJvar \in JvarsOf(CurTP) /\ CurAxis = AxisOf(CurTP, CurJvar)
  BY CurFacts DEF Sound
<1>2. fold \in [TP \X Axis -> SUBSET Nat] /\ Binding /\ Cover
  BY DEF Sound, Shape, TypeOK
<1>3. \A sol \in answers : sol[CurJvar] \in NewFold(CurTP, CurAxis)
  BY NewFoldCovers
<1>4. \A sol \in answers : \A t \in TP : \A j \in JvarsOf(t) : sol[j] \in fold'[<<t, AxisOf(t, j)>>]
  BY <1>1, <1>2, <1>3, CoverUpdate DEF Cover
<1>. QED
  BY <1>4, CoverFrame

LEMMA UnfoldFoldOnlySound == ASSUME Sound, Shape', UnfoldFoldOnly PROVE Sound'
<1>1. plan' = plan /\ answers' = answers /\ bm' = bm /\ pc = "unfold" /\ AfterUnfold
  BY DEF UnfoldFoldOnly, fixed
<1>2. Cover'
  BY <1>1, UnfoldCover DEF UnfoldFoldOnly
<1>3. EmptyMeansNoAnswer'
  BY <1>1, AfterUnfoldSound DEF EmptyMeansNoAnswer
<1>4. Binding' /\ NoAnswerLost'
  BY <1>1, BindingFrame, NoAnswerLostFrame DEF Sound, NoAnswerLost
<1>. QED
  BY <1>2, <1>3, <1>4 DEF Sound

LEMMA UnfoldCellsSound == ASSUME Sound, Shape', UnfoldCells PROVE Sound'
<1>1. /\ plan' = plan /\ answers' = answers /\ pc = "unfold" /\ AfterUnfold
      /\ bm' = [bm EXCEPT ![CurTP] = Kept]
  BY DEF UnfoldCells, fixed
<1>2. CurTP \in TP /\ CurJvar \in JvarsOf(CurTP) /\ CurAxis = AxisOf(CurTP, CurJvar)
  BY <1>1, CurFacts DEF Sound
<1>3. Cover'
  BY <1>1, UnfoldCover DEF UnfoldCells
<1>4. EmptyMeansNoAnswer'
  BY <1>1, AfterUnfoldSound DEF EmptyMeansNoAnswer
<1>5. NoAnswerLost'
  <2>. SUFFICES ASSUME NEW sol \in answers, NEW t \in TP, NEW c \in plan.bm[t], Matches(c, t, sol)
                PROVE  c \in bm'[t]
    BY <1>1, NoAnswerLostFrame
  <2>1. c \in bm[t] /\ bm \in [TP -> SUBSET Cell]
    BY DEF Sound, NoAnswerLost, Shape, TypeOK
  <2>2. CASE t # CurTP
    BY <1>1, <2>1, <2>2
  <2>3. CASE t = CurTP
    <3>1. Coord(c, CurAxis) = sol[CurJvar]
      BY <1>2, <2>3 DEF Matches
    <3>2. c \in Kept
      BY <1>1, <2>1, <2>3, <3>1, NewFoldCovers DEF Kept, SimpleUnfold
    <3>. QED
      BY <1>1, <2>1, <2>3, <3>2
  <2>. QED
    BY <2>2, <2>3
<1>6. Binding'
  BY <1>1, BindingFrame DEF Sound
<1>. QED
  BY <1>3, <1>4, <1>5, <1>6 DEF Sound

----------------------------------------------------------------------------
(* fix_all_tp_bitmats.                                                     *)

LEMMA SeqElement ==
  ASSUME NEW S, NEW s \in Seq(S), s # << >>
  PROVE  DOMAIN s # {} /\ \A i \in DOMAIN s : s[i] \in S
<1>1. DOMAIN s = 1 .. Len(s) /\ Len(s) \in Nat /\ \A i \in 1 .. Len(s) : s[i] \in S
  OBVIOUS
<1>2. Len(s) # 0
  OBVIOUS
<1>3. 1 \in 1 .. Len(s)
  BY <1>1, <1>2
<1>. QED
  BY <1>1, <1>3

\* A pattern with one join variable does not have it twice.
LEMMA OneJvar ==
  ASSUME NEW t \in TP, NumJvars(t) = 1
  PROVE  ~(Query[t].sub < 0 /\ Query[t].obj < 0)
<1>. DEFINE S == {f \in Fields : Query[t][f] < 0}
<1>1. IsFiniteSet(Fields)
  <2>1. Fields = ({"sub"} \cup {"pred"}) \cup {"obj"}
    BY DEF Fields
  <2>. QED
    BY <2>1, FS_Singleton, FS_AddElement
<1>2. IsFiniteSet(S)
  BY <1>1, FS_Subset
<1>3. PICK x : S = {x}
  BY <1>2, FS_Singleton DEF NumJvars
<1>4. ~("sub" \in S /\ "obj" \in S)
  BY <1>3
<1>. QED
  BY <1>4 DEF Fields

\* The axis on which a pattern is unfolded in the end holds its variable.
LEMMA FixAxisOfJvar ==
  ASSUME Shape, NEW t \in TP, FixAxis(t) # NULL
  PROVE  \E j \in JvarsOf(t) : FixAxis(t) = AxisOf(t, j)
<1>. DEFINE dim == plan.dimension[t]
            s == Query[t].sub
            o == Query[t].obj
            rows == (dim = "SPO" /\ s < 0) \/ (dim = "OPS" /\ o < 0)
            columns == \/ dim \in {"OPS", "POS"} /\ s < 0
                       \/ dim \in {"SPO", "PSO"} /\ o < 0
<1>1. NumJvars(t) = 1 /\ ~(s < 0 /\ o < 0)
  <2>1. ~(NumJvars(t) # 1 \/ NumVars(t) <= 1)
    BY DEF FixAxis
  <2>. QED
    BY <2>1, OneJvar
<1>2. \/ rows /\ FixAxis(t) = "subfold"
      \/ columns /\ FixAxis(t) = "objfold"
  BY <1>1 DEF FixAxis
<1>3. Query[t] \in [sub : Int, pred : Int, obj : Int]
  BY QueryAssumption, SeqElement DEF TP
<1>4. s < 0 => s \in JvarsOf(t) /\ PosOf(t, s) = "SUB"
  BY <1>3 DEF JvarsOf, Jvar, Mentions, PosOf, Fields
<1>5. o < 0 => o \in JvarsOf(t) /\ PosOf(t, o) = "OBJ"
  BY <1>1, <1>3 DEF JvarsOf, Jvar, Mentions, PosOf, Fields
<1>6. CASE s < 0
  <2>1. FixAxis(t) = JoinAxis(dim, "SUB")
    BY <1>1, <1>2, <1>6 DEF JoinAxis
  <2>. QED
    BY <1>4, <1>6, <2>1 DEF AxisOf
<1>7. CASE o < 0
  <2>1. FixAxis(t) = JoinAxis(dim, "OBJ")
    BY <1>1, <1>2, <1>7 DEF JoinAxis
  <2>. QED
    BY <1>5, <1>7, <2>1 DEF AxisOf
<1>. QED
  BY <1>2, <1>6, <1>7

LEMMA FixAllTpBitmatsSound == ASSUME Sound, Shape', FixAllTpBitmats PROVE Sound'
<1>1. plan' = plan /\ answers' = answers /\ fold' = fold /\ pc' = "true"
  BY DEF FixAllTpBitmats, fixed
<1>2. NoAnswerLost'
  <2>. SUFFICES ASSUME NEW sol \in answers, NEW t \in TP, NEW c \in plan.bm[t], Matches(c, t, sol)
                PROVE  c \in bm'[t]
    BY <1>1, NoAnswerLostFrame
  <2>1. c \in bm[t]
    BY DEF Sound, NoAnswerLost
  <2>2. CASE FixAxis(t) = NULL
    BY <2>1, <2>2 DEF FixAllTpBitmats
  <2>3. CASE FixAxis(t) # NULL
    <3>1. PICK j \in JvarsOf(t) : FixAxis(t) = AxisOf(t, j)
      BY <2>3, FixAxisOfJvar DEF Sound
    <3>2. Coord(c, FixAxis(t)) \in fold[<<t, FixAxis(t)>>]
      BY <3>1 DEF Matches, Sound, Cover
    <3>3. bm'[t] = SimpleUnfold(bm[t], FixAxis(t), fold[<<t, FixAxis(t)>>])
      BY <2>3 DEF FixAllTpBitmats
    <3>. QED
      BY <2>1, <3>2, <3>3 DEF SimpleUnfold
  <2>. QED
    BY <2>2, <2>3
<1>3. Binding' /\ Cover' /\ EmptyMeansNoAnswer'
  BY <1>1, BindingFrame, CoverFrame DEF Sound, Cover, EmptyMeansNoAnswer
<1>. QED
  BY <1>2, <1>3 DEF Sound

LEMMA NextSound == ASSUME Sound, PartialLastByte, [Next]_vars PROVE Sound'
<1>1. Shape'
  BY NextShape DEF Sound
<1>2. CASE EnterNode
  BY <1>1, <1>2, QuietSound DEF EnterNode, fixed
<1>3. CASE SkipLeaf
  BY <1>1, <1>3, QuietSound DEF SkipLeaf, NextNode, fixed
<1>4. CASE JoinFirst \/ JoinAnd
  BY <1>1, <1>4, JoinFirstSound, JoinAndSound
<1>5. CASE UnfoldUnchanged
  <2>1. pc' # "false"
    BY <1>5, AfterUnfoldSound DEF UnfoldUnchanged
  <2>. QED
    BY <1>1, <1>5, <2>1, QuietSound DEF UnfoldUnchanged, fixed
<1>6. CASE UnfoldFoldOnly \/ UnfoldCells
  BY <1>1, <1>6, UnfoldFoldOnlySound, UnfoldCellsSound
<1>7. CASE UnfoldReloadsNothing
  BY <1>1, <1>7, QuietSound DEF UnfoldReloadsNothing, fixed
<1>8. CASE TryAgain
  BY <1>1, <1>8, QuietSound DEF TryAgain, fixed
<1>9. CASE ReturnTrue
  BY <1>1, <1>9, QuietSound DEF ReturnTrue, fixed
<1>10. CASE FixAllTpBitmats
  BY <1>1, <1>10, FixAllTpBitmatsSound
<1>11. CASE UNCHANGED vars
  BY <1>1, <1>11, QuietSound DEF vars
<1>. QED
  BY <1>2, <1>3, <1>4, <1>5, <1>6, <1>7, <1>8, <1>9, <1>10, <1>11 DEF Next, Finished

----------------------------------------------------------------------------
THEOREM SoundInvariant ==
  ASSUME CompleteFolds, PartialLastByte
  PROVE  Spec => []Sound
<1>1. Init => Sound
  BY InitSound
<1>2. Sound /\ [Next]_vars => Sound'
  BY NextSound
<1>. QED
  BY <1>1, <1>2, PTL DEF Spec

\* No triple that takes part in a solution is ever cleared from the bitmat of its
\* pattern, by unfold functions that clear bits against a fold other patterns share.
THEOREM PruningLosesNothing ==
  ASSUME CompleteFolds, PartialLastByte
  PROVE  Spec => []NoAnswerLost
<1>1. Sound => NoAnswerLost
  BY DEF Sound
<1>. QED
  BY <1>1, SoundInvariant, PTL

\* prune_for_jvar returns false, and main prints 0 results, only if there are none.
THEOREM NoResultsIsTrue ==
  ASSUME CompleteFolds, PartialLastByte
  PROVE  Spec => []EmptyMeansNoAnswer
<1>1. Sound => EmptyMeansNoAnswer
  BY DEF Sound
<1>. QED
  BY <1>1, SoundInvariant, PTL

----------------------------------------------------------------------------
(* Refinement.                                                             *)

LEMMA NeededFrame ==
  ASSUME plan' = plan, answers' = answers PROVE Needed' = Needed
BY PlanFrame DEF Needed, Matches

\* Cells are only ever taken out.
LEMMA CellsShrink ==
  ASSUME Shape, [Next]_vars, NEW t \in TP
  PROVE  bm'[t] \subseteq bm[t] /\ plan' = plan /\ answers' = answers
<1>1. bm \in [TP -> SUBSET Cell]
  BY DEF Shape, TypeOK
<1>2. CASE UnfoldCells
  <2>1. Kept \subseteq bm[CurTP] /\ bm' = [bm EXCEPT ![CurTP] = Kept]
    BY <1>2 DEF Kept, SimpleUnfold, UnfoldCells
  <2>. QED
    BY <1>1, <1>2, <2>1 DEF UnfoldCells, fixed
<1>3. CASE FixAllTpBitmats
  BY <1>3 DEF FixAllTpBitmats, SimpleUnfold, fixed
<1>4. CASE ~UnfoldCells /\ ~FixAllTpBitmats
  BY <1>4 DEF Next, vars, fixed, EnterNode, SkipLeaf, JoinFirst, JoinAnd, UnfoldUnchanged,
     UnfoldFoldOnly, UnfoldReloadsNothing, TryAgain, ReturnTrue, Finished
<1>. QED
  BY <1>2, <1>3, <1>4

\* A step that ends the query leaves the bitmats as they are.
LEMMA GiveUpStep ==
  ASSUME [Next]_vars, pc # "false", pc' = "false"
  PROVE  bm' = bm /\ pc = "join"
<1>1. JoinFirst \/ JoinAnd
  BY DEF Next, vars, EnterNode, SkipLeaf, NextNode, UnfoldUnchanged, UnfoldFoldOnly, UnfoldCells,
     AfterUnfold, UnfoldReloadsNothing, TryAgain, ReturnTrue, FixAllTpBitmats, Finished
<1>. QED
  BY <1>1 DEF JoinFirst, JoinAnd

\* Once the phase returned, or crashed, nothing happens.
LEMMA ReturnedStep ==
  ASSUME [Next]_vars, pc \in Returned PROVE UNCHANGED vars
BY DEF Next, Returned, Finished, EnterNode, SkipLeaf, JoinFirst, JoinAnd, UnfoldUnchanged,
   UnfoldFoldOnly, UnfoldCells, UnfoldReloadsNothing, TryAgain, ReturnTrue, FixAllTpBitmats

LEMMA StepKeepsPromise ==
  ASSUME Sound, Sound', [Next]_vars
  PROVE  [Promise!Next]_(Promise!vars)
<1>0. CASE UNCHANGED vars
  <2>1. plan' = plan /\ answers' = answers /\ bm' = bm /\ pc' = pc
    BY <1>0 DEF vars
  <2>. QED
    BY <2>1, NeededFrame DEF Promise!vars, Outcome
<1>1. CASE pc \notin Returned
  <2>1. \A t \in TP : bm'[t] \subseteq bm[t] /\ plan' = plan /\ answers' = answers
    BY CellsShrink DEF Sound
  <2>2. plan' = plan /\ answers' = answers
    <3>1. TP # {}
      BY QueryAssumption, SeqElement DEF TP
    <3>. QED
      BY <2>1, <3>1
  <2>3. Needed' = Needed
    BY <2>2, NeededFrame
  <2>4. Outcome = "running"
    BY <1>1 DEF Outcome, Returned
  <2>5. CASE pc' = "false"
    <3>1. answers = {} /\ bm' = bm
      BY <1>1, <2>2, <2>5, GiveUpStep DEF Sound, EmptyMeansNoAnswer, Returned
    <3>2. \A t \in TP : Needed[t] = {}
      BY <3>1 DEF Needed
    <3>3. Outcome' = "none"
      BY <2>5 DEF Outcome
    <3>. QED
      BY <2>3, <2>4, <3>1, <3>2, <3>3 DEF Promise!Next, Promise!GiveUp
  <2>6. CASE pc' # "false"
    <3>1. Outcome' \in {"running", "some"}
      BY <2>6 DEF Outcome
    <3>2. \A t \in TP : Needed[t] \subseteq bm'[t]
      <4>1. \A t \in TP : Needed'[t] \subseteq bm'[t]
        BY DEF Sound, NoAnswerLost, Needed
      <4>. QED
        BY <2>3, <4>1
    <3>. QED
      BY <2>1, <2>3, <2>4, <3>1, <3>2 DEF Promise!Next, Promise!Drop
  <2>. QED
    BY <2>5, <2>6
<1>. QED
  BY <1>0, <1>1, ReturnedStep

\* The pruning phase implements the safety part of PrunePromise: cells that are
\* not needed go, needed ones never, and giving up needs a query without answers.
THEOREM KeepsSafePromise ==
  ASSUME CompleteFolds, PartialLastByte
  PROVE  Spec => Promise!Safety
<1>1. Init => Promise!Init
  <2>. SUFFICES ASSUME Init PROVE Promise!Init
    OBVIOUS
  <2>1. Sound
    BY InitSound
  <2>2. \A t \in TP : Needed[t] \subseteq bm[t]
    BY <2>1 DEF Sound, NoAnswerLost, Needed
  <2>3. Outcome = "running"
    BY DEF Init, Outcome
  <2>. QED
    BY <2>2, <2>3 DEF Promise!Init
<1>2. Sound /\ Sound' /\ [Next]_vars => [Promise!Next]_(Promise!vars)
  BY StepKeepsPromise
<1>. QED
  BY <1>1, <1>2, SoundInvariant, PTL DEF Spec, Promise!Safety

----------------------------------------------------------------------------
(***************************************************************************)
(* What the join results of Prune say of the bitmats: they shrink, and all *)
(* the patterns of a variable agree on its result when it has been joined. *)
(*                                                                         *)
(* A join result only loses ids while the query runs, although it is kept  *)
(* in a fold array that is recomputed from a bitmat each time its pattern  *)
(* is joined again.  The fold is recomputed from cells it was unfolded     *)
(* with, so it cannot gain an id; but between a join and the unfold of the *)
(* first pattern the array is ahead of that pattern's bitmat, and only the *)
(* copy in .subfold_prev or .objfold_prev tells that it has to be unfolded.*)
(***************************************************************************)

\* A pattern is on the list of a variable once, and an axis of it holds the ids
\* of one variable.
DistinctNodes ==
  \A j \in Jvar : \A m, n \in DOMAIN NextTP[j] : NextTP[j][m] = NextTP[j][n] => m = n

OneJvarPerAxis ==
  \A p \in Plans : \A t \in TP : \A i, j \in JvarsOf(t) :
    JoinAxis(p.dimension[t], PosOf(t, i)) = JoinAxis(p.dimension[t], PosOf(t, j)) => i = j

NullIsNoFold == NULL \notin SUBSET Nat

\* joinres is the fold of the first pattern on the variable's list.
FirstFold(j) == <<NextTP[j][1], AxisOf(NextTP[j][1], j)>>

JoinresFirst == \A j \in Jvar : joinres[j] # NULL => joinres[j] = FirstFold(j)

JoinedBefore == pc = "join" /\ k > 1 => joinres[CurJvar] # NULL

\* The fold that may be ahead of its bitmat: joinres, from the join of the first
\* pattern to its unfold.
Ahead == \/ pc = "join" /\ k > 1
         \/ pc = "unfold" /\ k = 1
         \/ pc \in {"false", "crash"}

FoldCovers(t, j) == SimpleFold(bm[t], AxisOf(t, j)) \subseteq fold[<<t, AxisOf(t, j)>>]

\* The fold of a pattern that is unfolded at once would not gain an id by being
\* recomputed.
FoldsCover ==
  \A t \in TP : \A j \in JvarsOf(t) :
    UnfoldsNow(t) /\ ~(Ahead /\ j = CurJvar /\ joinres[j] = <<t, AxisOf(t, j)>>)
      => FoldCovers(t, j)

\* The copy is of a fold from before.
PrevCovers ==
  \A t \in TP : \A j \in JvarsOf(t) :
    joinres[j] = <<t, AxisOf(t, j)>> =>
      /\ prev[<<t, AxisOf(t, j)>>] # NULL
      /\ UnfoldsNow(t) => SimpleFold(bm[t], AxisOf(t, j)) \subseteq prev[<<t, AxisOf(t, j)>>]

Shrink == Shape /\ JoinresFirst /\ JoinedBefore /\ FoldsCover /\ PrevCovers

Assumed == CompleteFolds /\ DistinctNodes /\ OneJvarPerAxis /\ NullIsNoFold

\* What a step from one such state to the next does to the join results.
ShrinkStep ==
  \A j \in Jvar : joinres[j] # NULL => fold'[joinres[j]] \subseteq fold[joinres[j]]

----------------------------------------------------------------------------
(* Facts about one state.                                                  *)

\* A fold of a pattern belongs to one variable.
LEMMA AxisOwner ==
  ASSUME Shape, OneJvarPerAxis, NEW t \in TP, NEW i \in JvarsOf(t), NEW j \in JvarsOf(t),
         AxisOf(t, i) = AxisOf(t, j)
  PROVE  i = j
BY DEF Shape, OneJvarPerAxis, AxisOf

\* The fold of the variable that is at work, and of no other.
LEMMA CurrentFold ==
  ASSUME Shape, OneJvarPerAxis, pc \in {"join", "unfold"}
  PROVE  /\ CurTP \in TP /\ CurAxis \in Axis /\ CurAxis = AxisOf(CurTP, CurJvar)
         /\ CurJvar \in Jvar /\ CurJvar \in JvarsOf(CurTP)
         /\ \A t \in TP : \A j \in JvarsOf(t) :
              <<t, AxisOf(t, j)>> = <<CurTP, CurAxis>> => t = CurTP /\ j = CurJvar
<1>1. /\ CurTP \in TP /\ CurAxis \in Axis /\ CurAxis = AxisOf(CurTP, CurJvar)
      /\ CurJvar \in Jvar /\ CurJvar \in JvarsOf(CurTP)
  BY CurTPType, CurJvarType DEF JvarsOf
<1>2. ASSUME NEW t \in TP, NEW j \in JvarsOf(t), <<t, AxisOf(t, j)>> = <<CurTP, CurAxis>>
      PROVE  t = CurTP /\ j = CurJvar
  BY <1>1, <1>2, AxisOwner
<1>. QED
  BY <1>1, <1>2

\* joinres of a variable is a fold of a pattern that mentions it; two variables
\* never share one.
LEMMA JoinresOwn ==
  ASSUME Shape, OneJvarPerAxis, NEW i \in Jvar, NEW j \in Jvar,
         joinres[i] # NULL, joinres[i] = joinres[j]
  PROVE  i = j
<1>1. PICK f \in TP : Mentions(f, i) /\ joinres[i] = <<f, AxisOf(f, i)>>
  BY DEF Shape, JoinresPoints
<1>2. PICK g \in TP : Mentions(g, j) /\ joinres[j] = <<g, AxisOf(g, j)>>
  BY DEF Shape, JoinresPoints
<1>3. <<f, AxisOf(f, i)>> = <<g, AxisOf(g, j)>>
  BY <1>1, <1>2
<1>4. f = g /\ AxisOf(f, i) = AxisOf(g, j)
  BY <1>3
<1>. QED
  BY <1>1, <1>2, <1>4, AxisOwner DEF JvarsOf

\* The pattern at index k is the one joinres points into only at the first index.
LEMMA FirstIndex ==
  ASSUME Shape, JoinresFirst, DistinctNodes, pc \in {"join", "unfold"},
         joinres[CurJvar] # NULL
  PROVE  (joinres[CurJvar] = <<CurTP, CurAxis>>) <=> (k = 1)
<1>1. CurJvar \in Jvar /\ joinres[CurJvar] = FirstFold(CurJvar)
  BY CurJvarType DEF JoinresFirst
<1>2. NextTP[CurJvar] \in Seq(TP) /\ Len(NextTP[CurJvar]) \in Nat \ {0}
  BY <1>1, NextTPLength, PruneAssumption
<1>3. k \in DOMAIN NextTP[CurJvar] /\ 1 \in DOMAIN NextTP[CurJvar]
  BY <1>2 DEF Shape, IndexOK
<1>. QED
  BY <1>1, <1>3 DEF FirstFold, CurTP, CurAxis, DistinctNodes

\* A fold that is recomputed now covers its bitmat, and gains nothing by it.
LEMMA FoldedCoversCells ==
  ASSUME Shape, NEW t \in TP, NEW j \in JvarsOf(t), FoldCovers(t, j)
  PROVE  /\ SimpleFold(bm[t], AxisOf(t, j)) \subseteq Folded(t, AxisOf(t, j))
         /\ Folded(t, AxisOf(t, j)) \subseteq fold[<<t, AxisOf(t, j)>>]
BY DEF FoldCovers, Folded

\* Where only some cells go and nothing else, all bounds on the cells stay.
LEMMA FoldShrinks ==
  ASSUME NEW S, NEW T, S \subseteq T, NEW a
  PROVE  SimpleFold(S, a) \subseteq SimpleFold(T, a)
BY DEF SimpleFold

LEMMA UnfoldFold ==
  ASSUME NEW S, NEW a, NEW mask
  PROVE  /\ SimpleUnfold(S, a, mask) \subseteq S
         /\ SimpleFold(SimpleUnfold(S, a, mask), a) \subseteq mask
BY DEF SimpleFold, SimpleUnfold

----------------------------------------------------------------------------
(* Steps.                                                                  *)

LEMMA InitShrink == ASSUME Assumed, Init PROVE Shrink
<1>1. Shape
  BY InitShape
<1>2. JoinresFirst /\ PrevCovers
  <2>1. \A j \in Jvar : joinres[j] = NULL
    BY DEF Init
  <2>2. \A t \in TP : \A j \in JvarsOf(t) : joinres[j] # <<t, AxisOf(t, j)>>
    <3>. SUFFICES ASSUME NEW t \in TP, NEW j \in JvarsOf(t)
                  PROVE  joinres[j] # <<t, AxisOf(t, j)>>
      OBVIOUS
    <3>1. <<t, AxisOf(t, j)>> \in TP \X Axis
      BY AxisOfType
    <3>2. joinres[j] = NULL
      BY <2>1 DEF JvarsOf
    <3>3. NULL \notin TP \X Axis
      BY PruneAssumption
    <3>. QED
      BY <3>1, <3>2, <3>3
  <2>. QED
    BY <2>1, <2>2 DEF JoinresFirst, PrevCovers
<1>3. JoinedBefore
  BY DEF Init, JoinedBefore
<1>4. FoldsCover
  <2>1. FoldsComplete(plan) /\ bm = plan.bm /\ fold = plan.fold
    BY DEF Init, Assumed, CompleteFolds
  <2>. QED
    BY <2>1 DEF FoldsComplete, FoldsCover, FoldCovers, AxisOf
<1>. QED
  BY <1>1, <1>2, <1>3, <1>4 DEF Shrink

\* Steps that take cells away at most, and leave no fold behind that was ahead.
LEMMA QuietShrink ==
  ASSUME Shrink, Shape', UNCHANGED <<plan, joinres, fold, prev>>, JoinedBefore',
         \A t \in TP : bm'[t] \subseteq bm[t],
         \A t \in TP : \A j \in JvarsOf(t) :
           Ahead /\ j = CurJvar /\ joinres[j] = <<t, AxisOf(t, j)>> /\ UnfoldsNow(t)
             => FoldCovers(t, j) \/ (Ahead' /\ CurJvar' = CurJvar)
  PROVE  Shrink' /\ ShrinkStep
<1>1. \A t, j : AxisOf(t, j)' = AxisOf(t, j)
  BY PlanFrame
<1>2. \A t \in TP : \A a : SimpleFold(bm'[t], a) \subseteq SimpleFold(bm[t], a)
  BY FoldShrinks
<1>3. JoinresFirst'
  BY <1>1 DEF Shrink, JoinresFirst, FirstFold
<1>4. PrevCovers'
  BY <1>1, <1>2 DEF Shrink, PrevCovers
<1>5. FoldsCover'
  <2>. SUFFICES ASSUME NEW t \in TP, NEW j \in JvarsOf(t), UnfoldsNow(t),
                       ~(Ahead' /\ j = CurJvar' /\ joinres'[j] = <<t, AxisOf(t, j)'>>)
                PROVE  FoldCovers(t, j)'
    BY DEF FoldsCover
  <2>1. FoldCovers(t, j)
    BY <1>1 DEF Shrink, FoldsCover
  <2>. QED
    BY <1>1, <1>2, <2>1 DEF FoldCovers
<1>. QED
  BY <1>3, <1>4, <1>5 DEF Shrink, ShrinkStep

\* Steps outside the work on a variable.
LEMMA OutsideShrink ==
  ASSUME Shrink, Shape', ~Ahead, UNCHANGED <<plan, joinres, fold, prev>>,
         \A t \in TP : bm'[t] \subseteq bm[t], pc' = "join" => k' = 1
  PROVE  Shrink' /\ ShrinkStep
<1>1. JoinedBefore'
  BY DEF JoinedBefore
<1>. QED
  BY <1>1, QuietShrink

LEMMA StutterShrink == ASSUME Shrink, Shape', UNCHANGED vars PROVE Shrink' /\ ShrinkStep
<1>1. CurJvar' = CurJvar /\ UNCHANGED <<plan, joinres, fold, prev, bm, pc, k>>
  BY CurJvarFrame DEF vars
<1>2. JoinedBefore' /\ (Ahead => Ahead')
  BY <1>1 DEF Shrink, JoinedBefore, Ahead
<1>. QED
  BY <1>1, <1>2, QuietShrink

LEMMA CrashShrink ==
  ASSUME Shrink, Shape', UnfoldReloadsNothing PROVE Shrink' /\ ShrinkStep
<1>1. CurJvar' = CurJvar /\ UNCHANGED <<plan, joinres, fold, prev, bm>> /\ pc' = "crash"
  BY CurJvarFrame DEF UnfoldReloadsNothing, fixed, loopVars
<1>2. JoinedBefore' /\ Ahead'
  BY <1>1 DEF JoinedBefore, Ahead
<1>. QED
  BY <1>1, <1>2, QuietShrink

\* The pattern of joinres is unfolded unless its fold is the copy, and the copy
\* covers its cells.
LEMMA UnfoldUnchangedShrink ==
  ASSUME Shrink, Assumed, Shape', UnfoldUnchanged PROVE Shrink' /\ ShrinkStep
<1>1. pc = "unfold" /\ UNCHANGED <<plan, joinres, fold, prev, bm>> /\ AfterUnfold /\ ~Changed(CurTP, CurAxis)
  BY DEF UnfoldUnchanged, fixed
<1>2. pc' # "join"
  BY <1>1 DEF AfterUnfold, NextNode
<1>3. /\ CurTP \in TP /\ CurAxis = AxisOf(CurTP, CurJvar) /\ CurJvar \in JvarsOf(CurTP)
      /\ CurJvar \in Jvar
  BY <1>1, CurrentFold DEF Shrink, Assumed
<1>4. ASSUME NEW t \in TP, NEW j \in JvarsOf(t), Ahead, j = CurJvar,
             joinres[j] = <<t, AxisOf(t, j)>>, UnfoldsNow(t)
      PROVE  FoldCovers(t, j)
  <2>1. k = 1 /\ joinres[CurJvar] # NULL
    BY <1>1, <1>4 DEF Ahead, Shrink, Shape, JoinresSet
  <2>2. joinres[CurJvar] = <<CurTP, CurAxis>>
    BY <1>1, <2>1, FirstIndex DEF Shrink, Assumed
  <2>3. t = CurTP /\ AxisOf(t, j) = CurAxis
    <3>1. <<t, AxisOf(t, j)>> = <<CurTP, CurAxis>>
      BY <1>4, <2>2
    <3>. QED
      BY <3>1
  <2>4. prev[<<CurTP, CurAxis>>] # NULL
    BY <1>3, <1>4, <2>2, <2>3 DEF Shrink, PrevCovers
  <2>5. ~SOJoin(CurTP, CurJvar)
    BY <2>2 DEF SOJoin, JoinresDim
  <2>6. fold[<<CurTP, CurAxis>>] = prev[<<CurTP, CurAxis>>]
    BY <1>1, <2>2, <2>4, <2>5 DEF Changed, Joinres
  <2>7. SimpleFold(bm[t], AxisOf(t, j)) \subseteq prev[<<t, AxisOf(t, j)>>]
    BY <1>4 DEF Shrink, PrevCovers
  <2>. QED
    BY <2>3, <2>6, <2>7 DEF FoldCovers
<1>5. JoinedBefore'
  BY <1>2 DEF JoinedBefore
<1>. QED
  BY <1>1, <1>4, <1>5, QuietShrink

\* Unfolding by a mask covers the fold that becomes the mask.
LEMMA UnfoldShrink ==
  ASSUME Shrink, Assumed, Shape', UnfoldFoldOnly \/ UnfoldCells PROVE Shrink' /\ ShrinkStep
<1>. DEFINE x == <<CurTP, CurAxis>>
<1>1. /\ pc = "unfold" /\ UNCHANGED <<plan, joinres, prev>> /\ AfterUnfold
      /\ fold' = [fold EXCEPT ![x] = NewFold(CurTP, CurAxis)]
  BY DEF UnfoldFoldOnly, UnfoldCells, fixed
<1>2. pc' # "join"
  BY <1>1 DEF AfterUnfold, NextNode
<1>3. /\ CurTP \in TP /\ CurAxis = AxisOf(CurTP, CurJvar) /\ CurJvar \in JvarsOf(CurTP)
      /\ CurJvar \in Jvar /\ CurAxis \in Axis
      /\ \A t \in TP : \A j \in JvarsOf(t) : <<t, AxisOf(t, j)>> = x => t = CurTP /\ j = CurJvar
  BY <1>1, CurrentFold DEF Shrink, Assumed
<1>4. joinres[CurJvar] # NULL /\ fold \in [TP \X Axis -> SUBSET Nat] /\ bm \in [TP -> SUBSET Cell]
  BY <1>1 DEF Shrink, Shape, JoinresSet, TypeOK
<1>5. \A t, j : AxisOf(t, j)' = AxisOf(t, j)
  BY <1>1, PlanFrame
\* joinres stays as it is: unfolded by itself, its pattern keeps the fold.
<1>6. joinres[CurJvar] = x => NewFold(CurTP, CurAxis) = fold[x]
  BY DEF NewFold, SOJoin, JoinresDim, Joinres
<1>7. \A t \in TP : bm'[t] \subseteq bm[t]
  <2>1. Kept \subseteq bm[CurTP]
    BY UnfoldFold DEF Kept
  <2>. QED
    BY <1>4, <2>1 DEF UnfoldFoldOnly, UnfoldCells
<1>8. UnfoldsNow(CurTP) => SimpleFold(bm'[CurTP], CurAxis) \subseteq NewFold(CurTP, CurAxis)
  <2>. SUFFICES ASSUME UnfoldsNow(CurTP)
                PROVE  SimpleFold(bm'[CurTP], CurAxis) \subseteq NewFold(CurTP, CurAxis)
    OBVIOUS
  <2>1. UnfoldCells
    BY DEF UnfoldFoldOnly
  <2>2. bm'[CurTP] = Kept
    BY <1>3, <1>4, <2>1 DEF UnfoldCells
  <2>. QED
    BY <2>2, UnfoldFold DEF Kept
<1>9. JoinresFirst'
  BY <1>1, <1>5 DEF Shrink, JoinresFirst, FirstFold
<1>10. JoinedBefore'
  BY <1>2 DEF JoinedBefore
<1>11. PrevCovers'
  <2>1. \A t \in TP : \A a : SimpleFold(bm'[t], a) \subseteq SimpleFold(bm[t], a)
    BY <1>7, FoldShrinks
  <2>. QED
    BY <1>1, <1>5, <2>1 DEF Shrink, PrevCovers
<1>12. FoldsCover'
  <2>. SUFFICES ASSUME NEW t \in TP, NEW j \in JvarsOf(t), UnfoldsNow(t)
                PROVE  FoldCovers(t, j)'
    BY DEF FoldsCover
  <2>1. CASE <<t, AxisOf(t, j)>> = x
    <3>1. t = CurTP /\ AxisOf(t, j) = CurAxis
      BY <2>1
    <3>2. fold'[x] = NewFold(CurTP, CurAxis)
      BY <1>1, <1>3, <1>4
    <3>. QED
      BY <1>5, <1>8, <3>1, <3>2 DEF FoldCovers
  <2>2. CASE <<t, AxisOf(t, j)>> # x
    <3>1. ~(Ahead /\ j = CurJvar /\ joinres[j] = <<t, AxisOf(t, j)>>)
      <4>1. Ahead => k = 1
        BY <1>1 DEF Ahead
      <4>. QED
        BY <1>1, <1>4, <2>2, <4>1, FirstIndex DEF Shrink, Assumed
    <3>2. SimpleFold(bm[t], AxisOf(t, j)) \subseteq fold[<<t, AxisOf(t, j)>>]
      BY <3>1 DEF Shrink, FoldsCover, FoldCovers
    <3>3. SimpleFold(bm'[t], AxisOf(t, j)) \subseteq SimpleFold(bm[t], AxisOf(t, j))
      BY <1>7, FoldShrinks
    <3>4. AxisOf(t, j) \in Axis
      BY AxisOfType
    <3>5. fold'[<<t, AxisOf(t, j)>>] = fold[<<t, AxisOf(t, j)>>]
      BY <1>1, <1>4, <2>2, <3>4
    <3>. QED
      BY <1>5, <3>2, <3>3, <3>5 DEF FoldCovers
  <2>. QED
    BY <2>1, <2>2
<1>13. ShrinkStep
  <2>. SUFFICES ASSUME NEW j \in Jvar, joinres[j] # NULL
                PROVE  fold'[joinres[j]] \subseteq fold[joinres[j]]
    BY DEF ShrinkStep
  <2>1. joinres[j] \in TP \X Axis
    BY DEF Shrink, Shape, TypeOK
  <2>2. CASE joinres[j] # x
    BY <1>1, <1>4, <2>1, <2>2
  <2>3. CASE joinres[j] = x
    <3>1. PICK f \in TP : Mentions(f, j) /\ joinres[j] = <<f, AxisOf(f, j)>>
      BY DEF Shrink, Shape, JoinresPoints
    <3>2. j = CurJvar
      BY <1>3, <2>3, <3>1 DEF JvarsOf
    <3>. QED
      BY <1>1, <1>4, <1>6, <2>1, <2>3, <3>2
  <2>. QED
    BY <2>2, <2>3
<1>. QED
  BY <1>9, <1>10, <1>11, <1>12, <1>13 DEF Shrink

\* After a join the fold of the first pattern may be ahead of its cells, and is
\* the only one.
LEMMA AfterJoinAhead ==
  ASSUME Shape, pc = "join", NEW res, AfterJoin(res) PROVE Ahead' /\ (pc' = "join" => k' > 1)
<1>1. k \in Nat \ {0}
  BY DEF Shape, TypeOK
<1>2. CASE res = {}
  BY <1>1, <1>2 DEF AfterJoin, Ahead
<1>3. CASE res # {} /\ k < Len(NextTP[CurJvar])
  BY <1>1, <1>3 DEF AfterJoin, Ahead
<1>4. CASE res # {} /\ ~(k < Len(NextTP[CurJvar]))
  BY <1>1, <1>4 DEF AfterJoin, Ahead
<1>. QED
  BY <1>2, <1>3, <1>4

\* The first join of a variable is at its first pattern.
LEMMA JoinFirstShrink ==
  ASSUME Shrink, Assumed, Shape', JoinFirst PROVE Shrink' /\ ShrinkStep
<1>. DEFINE x == <<CurTP, CurAxis>>
            f == Folded(CurTP, CurAxis)
<1>1. /\ pc = "join" /\ joinres[CurJvar] = NULL /\ UNCHANGED <<plan, bm>>
      /\ CurJvar' = CurJvar
      /\ fold' = [fold EXCEPT ![x] = f] /\ prev' = [prev EXCEPT ![x] = f]
      /\ joinres' = [joinres EXCEPT ![CurJvar] = x] /\ AfterJoin(f)
  BY CurJvarFrame DEF JoinFirst, fixed, loopVars
<1>2. Ahead' /\ (pc' = "join" => k' > 1)
  <2>. HIDE DEF f
  <2>. QED
    BY <1>1, AfterJoinAhead DEF Shrink
<1>3. /\ CurTP \in TP /\ CurAxis = AxisOf(CurTP, CurJvar) /\ CurJvar \in JvarsOf(CurTP)
      /\ CurJvar \in Jvar /\ CurAxis \in Axis
      /\ \A t \in TP : \A j \in JvarsOf(t) : <<t, AxisOf(t, j)>> = x => t = CurTP /\ j = CurJvar
  BY <1>1, CurrentFold DEF Shrink, Assumed
<1>4. /\ fold \in [TP \X Axis -> SUBSET Nat] /\ joinres \in [Jvar -> (TP \X Axis) \cup {NULL}]
      /\ prev \in [TP \X Axis -> (SUBSET Nat) \cup {NULL}] /\ k \in Nat \ {0}
  BY DEF Shrink, Shape, TypeOK
<1>5. \A t, j : AxisOf(t, j)' = AxisOf(t, j)
  BY <1>1, PlanFrame
<1>6. k = 1
  BY <1>1, <1>4 DEF Shrink, JoinedBefore
<1>7. x \in TP \X Axis /\ x # NULL
  BY <1>3, PruneAssumption
<1>8. f \in SUBSET Nat /\ f # NULL
  BY <1>3, FoldedType DEF Shrink, Assumed, NullIsNoFold
<1>. HIDE DEF f
<1>9. x = FirstFold(CurJvar)
  BY <1>3, <1>6 DEF FirstFold, CurTP
<1>10. JoinresFirst'
  BY <1>1, <1>3, <1>4, <1>5, <1>9 DEF Shrink, JoinresFirst, FirstFold
<1>11. JoinedBefore'
  BY <1>1, <1>3, <1>4, <1>7 DEF JoinedBefore
<1>12. UnfoldsNow(CurTP) => SimpleFold(bm[CurTP], CurAxis) \subseteq f
  <2>1. ~Ahead
    BY <1>1, <1>6 DEF Ahead
  <2>2. UnfoldsNow(CurTP) => FoldCovers(CurTP, CurJvar)
    BY <1>3, <2>1 DEF Shrink, FoldsCover
  <2>. QED
    BY <1>3, <2>2, FoldedCoversCells DEF Shrink, f
<1>13. PrevCovers'
  <2>. SUFFICES ASSUME NEW t \in TP, NEW j \in JvarsOf(t), joinres'[j] = <<t, AxisOf(t, j)>>
                PROVE  /\ prev'[<<t, AxisOf(t, j)>>] # NULL
                       /\ UnfoldsNow(t) =>
                            SimpleFold(bm[t], AxisOf(t, j)) \subseteq prev'[<<t, AxisOf(t, j)>>]
    BY <1>1, <1>5 DEF PrevCovers
  <2>1. CASE <<t, AxisOf(t, j)>> = x
    <3>1. t = CurTP /\ AxisOf(t, j) = CurAxis
      BY <2>1
    <3>2. prev'[x] = f
      BY <1>1, <1>4, <1>7
    <3>. QED
      BY <1>8, <1>12, <2>1, <3>1, <3>2
  <2>2. CASE <<t, AxisOf(t, j)>> # x
    <3>1. j \in Jvar /\ AxisOf(t, j) \in Axis
      BY AxisOfType DEF JvarsOf
    <3>2. joinres[j] = <<t, AxisOf(t, j)>>
      BY <1>1, <1>4, <2>2, <3>1
    <3>3. prev'[<<t, AxisOf(t, j)>>] = prev[<<t, AxisOf(t, j)>>]
      BY <1>1, <1>4, <2>2, <3>1
    <3>. QED
      BY <3>2, <3>3 DEF Shrink, PrevCovers
  <2>. QED
    BY <2>1, <2>2
<1>14. FoldsCover'
  <2>. SUFFICES ASSUME NEW t \in TP, NEW j \in JvarsOf(t), UnfoldsNow(t)
                PROVE  SimpleFold(bm[t], AxisOf(t, j)) \subseteq fold'[<<t, AxisOf(t, j)>>]
    BY <1>1, <1>5 DEF FoldsCover, FoldCovers
  <2>1. CASE <<t, AxisOf(t, j)>> = x
    <3>1. t = CurTP /\ AxisOf(t, j) = CurAxis
      BY <2>1
    <3>2. fold'[x] = f
      BY <1>1, <1>4, <1>7
    <3>. QED
      BY <1>12, <2>1, <3>1, <3>2
  <2>2. CASE <<t, AxisOf(t, j)>> # x
    <3>1. ~Ahead /\ AxisOf(t, j) \in Axis
      BY <1>1, <1>6, AxisOfType DEF Ahead
    <3>2. fold'[<<t, AxisOf(t, j)>>] = fold[<<t, AxisOf(t, j)>>]
      BY <1>1, <1>4, <2>2, <3>1
    <3>. QED
      BY <3>1, <3>2 DEF Shrink, FoldsCover, FoldCovers
  <2>. QED
    BY <2>1, <2>2
<1>15. ShrinkStep
  <2>. SUFFICES ASSUME NEW j \in Jvar, joinres[j] # NULL
                PROVE  fold'[joinres[j]] \subseteq fold[joinres[j]]
    BY DEF ShrinkStep
  <2>1. joinres[j] \in TP \X Axis
    BY <1>4
  <2>2. PICK g \in TP : Mentions(g, j) /\ joinres[j] = <<g, AxisOf(g, j)>>
    BY DEF Shrink, Shape, JoinresPoints
  <2>3. joinres[j] # x
    BY <1>1, <1>3, <2>2 DEF JvarsOf
  <2>. QED
    BY <1>1, <1>4, <2>1, <2>3
<1>. QED
  BY <1>10, <1>11, <1>13, <1>14, <1>15 DEF Shrink

\* A later join: the array loses ids, unless it is the fold that was recomputed
\* just now, and that one gained none.
LEMMA JoinAndShrink ==
  ASSUME Shrink, Assumed, Shape', JoinAnd PROVE Shrink' /\ ShrinkStep
<1>. DEFINE x   == <<CurTP, CurAxis>>
            y   == joinres[CurJvar]
            f   == [fold EXCEPT ![x] = Folded(CurTP, CurAxis)]
            old == f[y]
            res == f[x] \cap IF SOJoin(CurTP, CurJvar) THEN TruncateToCommonSO(old) ELSE old
<1>1. /\ pc = "join" /\ y # NULL /\ UNCHANGED <<plan, bm, prev, joinres>>
      /\ CurJvar' = CurJvar
      /\ fold' = [f EXCEPT ![y] = res] /\ AfterJoin(res)
  BY CurJvarFrame DEF JoinAnd, fixed, loopVars
<1>2. Ahead' /\ (pc' = "join" => k' > 1)
  <2>. HIDE DEF res
  <2>. QED
    BY <1>1, AfterJoinAhead DEF Shrink
<1>3. /\ CurTP \in TP /\ CurAxis = AxisOf(CurTP, CurJvar) /\ CurJvar \in JvarsOf(CurTP)
      /\ CurJvar \in Jvar /\ CurAxis \in Axis
      /\ \A t \in TP : \A j \in JvarsOf(t) : <<t, AxisOf(t, j)>> = x => t = CurTP /\ j = CurJvar
  BY <1>1, CurrentFold DEF Shrink, Assumed
<1>4. /\ fold \in [TP \X Axis -> SUBSET Nat] /\ x \in TP \X Axis /\ y \in TP \X Axis
  BY <1>1, <1>3 DEF Shrink, Shape, TypeOK
<1>5. \A t, j : AxisOf(t, j)' = AxisOf(t, j)
  BY <1>1, PlanFrame
<1>6. y = x <=> k = 1
  BY <1>1, FirstIndex DEF Shrink, Assumed
<1>7. /\ f[x] = Folded(CurTP, CurAxis)
      /\ \A z \in TP \X Axis : z # x => f[z] = fold[z]
      /\ DOMAIN f = TP \X Axis
  BY <1>4
<1>8. res \subseteq f[y]
  BY DEF TruncateToCommonSO
<1>. HIDE DEF f, res
<1>9. /\ fold'[y] = res
      /\ \A z \in TP \X Axis : z # y => fold'[z] = f[z]
  BY <1>1, <1>4, <1>7
\* What the fold of this pattern becomes, if it is recomputed.
<1>10. ~Ahead \/ y # x =>
         /\ UnfoldsNow(CurTP) => SimpleFold(bm[CurTP], CurAxis) \subseteq f[x]
         /\ f[x] \subseteq fold[x]
  <2>. SUFFICES ASSUME ~Ahead \/ y # x
                PROVE  /\ UnfoldsNow(CurTP) => SimpleFold(bm[CurTP], CurAxis) \subseteq f[x]
                       /\ f[x] \subseteq fold[x]
    OBVIOUS
  <2>1. UnfoldsNow(CurTP) => FoldCovers(CurTP, CurJvar)
    BY <1>3 DEF Shrink, FoldsCover
  <2>2. CASE UnfoldsNow(CurTP)
    BY <1>3, <1>7, <2>1, <2>2, FoldedCoversCells DEF Shrink
  <2>3. CASE ~UnfoldsNow(CurTP)
    BY <1>7, <2>3 DEF Folded, UnfoldsNow
  <2>. QED
    BY <2>2, <2>3
<1>11. JoinresFirst'
  BY <1>1, <1>5 DEF Shrink, JoinresFirst, FirstFold
<1>12. JoinedBefore'
  BY <1>1 DEF JoinedBefore
<1>13. PrevCovers'
  BY <1>1, <1>5 DEF Shrink, PrevCovers
<1>14. FoldsCover'
  <2>. SUFFICES ASSUME NEW t \in TP, NEW j \in JvarsOf(t), UnfoldsNow(t),
                       ~(j = CurJvar /\ joinres[j] = <<t, AxisOf(t, j)>>)
                PROVE  SimpleFold(bm[t], AxisOf(t, j)) \subseteq fold'[<<t, AxisOf(t, j)>>]
    BY <1>1, <1>2, <1>5 DEF FoldsCover, FoldCovers
  <2>1. <<t, AxisOf(t, j)>> \in TP \X Axis
    BY AxisOfType
  <2>2. <<t, AxisOf(t, j)>> # y
    <3>1. PICK g \in TP : Mentions(g, CurJvar) /\ y = <<g, AxisOf(g, CurJvar)>>
      BY <1>1, <1>3 DEF Shrink, Shape, JoinresPoints
    <3>2. ASSUME <<t, AxisOf(t, j)>> = <<g, AxisOf(g, CurJvar)>>
          PROVE  j = CurJvar
      <4>1. t = g /\ AxisOf(t, j) = AxisOf(g, CurJvar)
        BY <3>2
      <4>. QED
        BY <1>3, <3>1, <4>1, AxisOwner DEF Shrink, Assumed, JvarsOf
    <3>. QED
      BY <3>1, <3>2
  <2>3. CASE <<t, AxisOf(t, j)>> = x
    <3>1. t = CurTP /\ AxisOf(t, j) = CurAxis
      BY <2>3
    <3>. QED
      BY <1>9, <1>10, <2>1, <2>2, <2>3, <3>1
  <2>4. CASE <<t, AxisOf(t, j)>> # x
    <3>1. fold'[<<t, AxisOf(t, j)>>] = fold[<<t, AxisOf(t, j)>>]
      BY <1>7, <1>9, <2>1, <2>2, <2>4
    <3>. QED
      BY <3>1 DEF Shrink, FoldsCover, FoldCovers
  <2>. QED
    BY <2>3, <2>4
<1>15. ShrinkStep
  <2>. SUFFICES ASSUME NEW j \in Jvar, joinres[j] # NULL
                PROVE  fold'[joinres[j]] \subseteq fold[joinres[j]]
    BY DEF ShrinkStep
  <2>1. joinres[j] \in TP \X Axis
    BY DEF Shrink, Shape, TypeOK
  <2>2. PICK g \in TP : Mentions(g, j) /\ joinres[j] = <<g, AxisOf(g, j)>>
    BY DEF Shrink, Shape, JoinresPoints
  <2>3. CASE j # CurJvar
    <3>1. joinres[j] # x
      BY <1>3, <2>2, <2>3 DEF JvarsOf
    <3>2. joinres[j] # y
      BY <1>1, <1>3, <2>3, JoinresOwn DEF Shrink, Assumed
    <3>. QED
      BY <1>7, <1>9, <2>1, <3>1, <3>2
  <2>4. CASE j = CurJvar /\ y # x
    BY <1>4, <1>7, <1>8, <1>9, <2>4
  <2>5. CASE j = CurJvar /\ y = x
    <3>1. ~Ahead
      BY <1>1, <1>6, <2>5 DEF Ahead
    <3>. QED
      BY <1>8, <1>9, <1>10, <2>5, <3>1
  <2>. QED
    BY <2>3, <2>4, <2>5
<1>. QED
  BY <1>11, <1>12, <1>13, <1>14, <1>15 DEF Shrink

----------------------------------------------------------------------------
LEMMA NextShrink ==
  ASSUME Shrink, Assumed, [Next]_vars PROVE Shrink' /\ ShrinkStep
<1>1. Shape'
  BY NextShape DEF Shrink
<1>2. CASE EnterNode
  BY <1>1, <1>2, OutsideShrink DEF EnterNode, fixed, Ahead
<1>3. CASE SkipLeaf
  <2>1. pc' # "join"
    BY <1>3 DEF SkipLeaf, NextNode
  <2>. QED
    BY <1>1, <1>3, <2>1, OutsideShrink DEF SkipLeaf, fixed, Ahead
<1>4. CASE JoinFirst
  BY <1>1, <1>4, JoinFirstShrink
<1>5. CASE JoinAnd
  BY <1>1, <1>5, JoinAndShrink
<1>6. CASE UnfoldUnchanged
  BY <1>1, <1>6, UnfoldUnchangedShrink
<1>7. CASE UnfoldFoldOnly \/ UnfoldCells
  BY <1>1, <1>7, UnfoldShrink
<1>8. CASE UnfoldReloadsNothing
  BY <1>1, <1>8, CrashShrink
<1>9. CASE TryAgain
  BY <1>1, <1>9, OutsideShrink DEF TryAgain, fixed, Ahead
<1>10. CASE ReturnTrue
  BY <1>1, <1>10, OutsideShrink DEF ReturnTrue, fixed, Ahead
<1>11. CASE FixAllTpBitmats
  <2>1. \A t \in TP : bm'[t] \subseteq bm[t]
    BY <1>11, UnfoldFold DEF FixAllTpBitmats
  <2>. QED
    BY <1>1, <1>11, <2>1, OutsideShrink DEF FixAllTpBitmats, fixed, Ahead
<1>12. CASE UNCHANGED vars
  BY <1>1, <1>12, StutterShrink
<1>. QED
  BY <1>2, <1>3, <1>4, <1>5, <1>6, <1>7, <1>8, <1>9, <1>10, <1>11, <1>12 DEF Next, Finished

\* jvar->joinres only loses ids, in every step of both pruning procedures, though
\* simple_fold writes the array it points to anew whenever its pattern is joined.
THEOREM JoinResultsShrink ==
  ASSUME CompleteFolds, DistinctNodes, OneJvarPerAxis, NullIsNoFold
  PROVE  Spec => JoinresShrinks
<1>1. Init => Shrink
  BY InitShrink DEF Assumed
<1>2. Shrink /\ [Next]_vars => Shrink'
  BY NextShrink DEF Assumed
<1>3. Shrink /\ [Next]_vars =>
        [\A j \in Jvar : joinres[j] # NULL => fold'[joinres[j]] \subseteq fold[joinres[j]]]_vars
  BY NextShrink DEF Assumed, ShrinkStep
<1>. QED
  BY <1>1, <1>2, <1>3, PTL DEF Spec, JoinresShrinks

----------------------------------------------------------------------------
(***************************************************************************)
(* With folds that are what the bitmats hold, no unfold is left with an    *)
(* empty triple list to load back, the case in which load_data_vertically  *)
(* reads far outside a row.  A join result that is not empty names ids     *)
(* that every pattern of the variable still has: of each fold that was     *)
(* ANDed either the pattern was unfolded since, and it was recomputed, or  *)
(* it was not, and the fold is still inside the bitmat.                    *)
(***************************************************************************)

ExactFolds == \A p \in Plans : FoldsExact(p)

\* A fold that is not recomputed names only ids its bitmat has.
FoldsInside == pc \notin Returned =>
  \A t \in TP : \A j \in JvarsOf(t) :
    ~(unfolded[t] /\ NumJvars(t) > 1)
      => fold[<<t, AxisOf(t, j)>>] \subseteq SimpleFold(bm[t], AxisOf(t, j))

\* Pattern m of the current variable has every id of the join result; a common
\* one, if it has the variable in the other position.
Agreed(m) ==
  LET u == NextTP[CurJvar][m]
      r == fold[joinres[CurJvar]]
  IN /\ r \subseteq SimpleFold(bm[u], AxisOf(u, CurJvar))
     /\ SOJoin(u, CurJvar) => \A i \in r : i <= NumCommSO

NodeAgreed ==
  /\ pc = "join" => \A m \in 1 .. k - 1 : Agreed(m)
  /\ pc = "unfold" => /\ fold[joinres[CurJvar]] # {}
                      /\ \A m \in k .. Len(NextTP[CurJvar]) : Agreed(m)

\* Only joinres has a copy.
PrevOwn ==
  \A t \in TP : \A j \in JvarsOf(t) :
    prev[<<t, AxisOf(t, j)>>] # NULL => joinres[j] = <<t, AxisOf(t, j)>>

Reload == Shrink /\ FoldsInside /\ NodeAgreed /\ PrevOwn /\ NeverReloadsNothing

----------------------------------------------------------------------------
(* Facts about one state.                                                  *)

LEMMA ListedPattern ==
  ASSUME NEW j \in Jvar, NEW m \in 1 .. Len(NextTP[j])
  PROVE  NextTP[j][m] \in TP /\ j \in JvarsOf(NextTP[j][m])
<1>1. NextTP[j] \in Seq(TP)
  BY PruneAssumption
<1>2. m \in DOMAIN NextTP[j]
  BY <1>1
<1>. QED
  BY <1>1, <1>2, PruneAssumption DEF JvarsOf

\* A fold, recomputed or not, is inside its bitmat.
LEMMA FoldedInside ==
  ASSUME FoldsInside, pc \notin Returned, NEW t \in TP, NEW j \in JvarsOf(t)
  PROVE  Folded(t, AxisOf(t, j)) \subseteq SimpleFold(bm[t], AxisOf(t, j))
BY DEF FoldsInside, Folded

LEMMA AfterJoinNext ==
  ASSUME Shape, pc = "join", NEW res, AfterJoin(res)
  PROVE  /\ pc' = "join" => k' = k + 1
         /\ pc' = "unfold" => k' = 1 /\ res # {} /\ k = Len(NextTP[CurJvar])
         /\ pc' \in {"join", "unfold", "false"}
<1>1. k \in 1 .. Len(NextTP[CurJvar]) /\ Len(NextTP[CurJvar]) \in Nat
  BY CurTPType DEF Shape, IndexOK
<1>2. CASE res = {}
  BY <1>2 DEF AfterJoin
<1>3. CASE res # {} /\ k < Len(NextTP[CurJvar])
  BY <1>3 DEF AfterJoin
<1>4. CASE res # {} /\ ~(k < Len(NextTP[CurJvar]))
  BY <1>1, <1>4 DEF AfterJoin
<1>. QED
  BY <1>2, <1>3, <1>4

LEMMA AfterUnfoldNext ==
  ASSUME Shape, AfterUnfold, pc = "unfold", plan' = plan
  PROVE  /\ pc' \in {"unfold", "node", "check"}
         /\ pc' = "unfold" => k' = k + 1 /\ CurJvar' = CurJvar
<1>1. CASE k < Len(NextTP[CurJvar])
  BY <1>1, CurJvarFrame DEF AfterUnfold
<1>2. CASE ~(k < Len(NextTP[CurJvar]))
  BY <1>2 DEF AfterUnfold, NextNode
<1>. QED
  BY <1>1, <1>2

\* The join result while its patterns are unfolded.
LEMMA UnfoldFacts ==
  ASSUME Reload, Assumed, pc = "unfold"
  PROVE  /\ CurTP \in TP /\ CurAxis \in Axis /\ CurAxis = AxisOf(CurTP, CurJvar)
         /\ CurJvar \in Jvar /\ CurJvar \in JvarsOf(CurTP)
         /\ joinres[CurJvar] \in TP \X Axis
         /\ Joinres # {} /\ Joinres \subseteq Nat
         /\ Joinres \subseteq SimpleFold(bm[CurTP], CurAxis)
         /\ SOJoin(CurTP, CurJvar) => \A i \in Joinres : i <= NumCommSO
<1>1. /\ CurTP \in TP /\ CurAxis \in Axis /\ CurAxis = AxisOf(CurTP, CurJvar)
      /\ CurJvar \in Jvar /\ CurJvar \in JvarsOf(CurTP)
  BY CurrentFold DEF Reload, Shrink, Assumed
<1>2. joinres[CurJvar] \in TP \X Axis
  BY <1>1 DEF Reload, Shrink, Shape, TypeOK, JoinresSet
<1>3. Joinres \subseteq Nat
  BY <1>2 DEF Joinres, Reload, Shrink, Shape, TypeOK
<1>4. k \in k .. Len(NextTP[CurJvar])
  <2>1. k \in 1 .. Len(NextTP[CurJvar]) /\ Len(NextTP[CurJvar]) \in Nat
    BY CurTPType DEF Reload, Shrink, Shape, IndexOK
  <2>. QED
    BY <2>1
<1>5. Joinres # {} /\ Agreed(k)
  BY <1>4 DEF Reload, NodeAgreed, Joinres
<1>. QED
  BY <1>1, <1>2, <1>3, <1>5 DEF Agreed, Joinres, CurTP

\* The fold a pattern is unfolded by has the ids of the join result, and none
\* that neither it nor the pattern's fold had.
LEMMA NewFoldHas ==
  ASSUME Reload, Assumed, pc = "unfold"
  PROVE  /\ Joinres \subseteq NewFold(CurTP, CurAxis)
         /\ NewFold(CurTP, CurAxis) \subseteq Joinres \cup fold[<<CurTP, CurAxis>>]
<1>1. /\ CurTP \in TP /\ CurAxis = AxisOf(CurTP, CurJvar) /\ CurJvar \in JvarsOf(CurTP)
      /\ CurJvar \in Jvar /\ Joinres \subseteq Nat
      /\ SOJoin(CurTP, CurJvar) => \A i \in Joinres : i <= NumCommSO
  BY UnfoldFacts
<1>2. CASE ~SOJoin(CurTP, CurJvar)
  <2>1. prev[<<CurTP, CurAxis>>] # NULL => fold[<<CurTP, CurAxis>>] = Joinres
    BY <1>1 DEF Reload, PrevOwn, Joinres
  <2>. QED
    BY <1>2, <2>1 DEF NewFold
<1>3. CASE SOJoin(CurTP, CurJvar)
  <2>1. PICK f \in TP : Mentions(f, CurJvar) /\ joinres[CurJvar] = <<f, AxisOf(f, CurJvar)>>
    BY <1>1 DEF Reload, Shrink, Shape, JoinresPoints, JoinresSet
  <2>2. PosOf(f, CurJvar) \in {"SUB", "OBJ"} /\ PosOf(CurTP, CurJvar) \in {"SUB", "OBJ"}
    BY <1>1, <1>3, <2>1, SOJoinVar DEF SOJoin, JoinresDim, JvarsOf
  <2>3. plan.dimension[f] \in Dimension /\ plan.dimension[CurTP] \in Dimension
    BY <1>1, PruneAssumption DEF Reload, Shrink, Shape, Plan
  <2>. DEFINE jw == Width(plan.dimension[f], AxisOf(f, CurJvar))
              w  == Width(plan.dimension[CurTP], CurAxis)
  <2>4. jw \in Nat /\ w \in Nat /\ NumCommSO <= jw /\ NumCommSO <= w
    BY <1>1, <2>2, <2>3, JoinWidth DEF AxisOf
  <2>5. LimitBytes(CurTP, CurAxis) \in {BytesFor(jw), BytesFor(w)}
    BY <2>1 DEF LimitBytes
  <2>6. ASSUME NEW i \in Joinres
        PROVE  ByteOf(i) < LimitBytes(CurTP, CurAxis) /\ ByteOf(i) < BytesFor(NumCommSO)
               /\ ByteOf(i) \in Int /\ BytesFor(NumCommSO) \in Int /\ LimitBytes(CurTP, CurAxis) \in Int
    <3>1. i \in Nat /\ i <= NumCommSO
      BY <1>1, <1>3
    <3>2. ByteOf(i) < BytesFor(jw) /\ BytesFor(jw) \in Int
      <4>. HIDE DEF jw
      <4>. QED
        BY <2>4, <3>1, CommonByte
    <3>3. ByteOf(i) < BytesFor(w) /\ BytesFor(w) \in Int /\ ByteOf(i) < BytesFor(NumCommSO)
          /\ ByteOf(i) \in Int /\ BytesFor(NumCommSO) \in Int
      <4>. HIDE DEF w
      <4>. QED
        BY <2>4, <3>1, CommonByte
    <3>. QED
      BY <2>5, <3>2, <3>3
  <2>7. Joinres \subseteq SOFold(CurTP, CurAxis)
    <3>. SUFFICES ASSUME NEW i \in Joinres PROVE i \in SOFold(CurTP, CurAxis)
      OBVIOUS
    <3>1. /\ ByteOf(i) < LimitBytes(CurTP, CurAxis) /\ ByteOf(i) < BytesFor(NumCommSO)
          /\ ByteOf(i) \in Int /\ BytesFor(NumCommSO) \in Int /\ LimitBytes(CurTP, CurAxis) \in Int
      BY <2>6
    <3>2. i \in WithinLimit(Joinres, CurTP, CurAxis)
      BY <3>1 DEF WithinLimit
    <3>. QED
      BY <3>1, <3>2 DEF SOFold
  <2>8. SOFold(CurTP, CurAxis) \subseteq Joinres \cup fold[<<CurTP, CurAxis>>]
    BY DEF SOFold, WithinLimit
  <2>. QED
    BY <1>3, <2>7, <2>8 DEF NewFold
<1>. QED
  BY <1>2, <1>3

\* So the unfold keeps cells.
LEMMA KeptSome ==
  ASSUME Reload, Assumed, pc = "unfold"
  PROVE  Kept # {}
<1>1. PICK i \in Joinres : TRUE
  BY UnfoldFacts
<1>2. i \in SimpleFold(bm[CurTP], CurAxis) /\ i \in NewFold(CurTP, CurAxis)
  BY <1>1, UnfoldFacts, NewFoldHas
<1>3. PICK c \in bm[CurTP] : Coord(c, CurAxis) = i
  BY <1>2 DEF SimpleFold
<1>. QED
  BY <1>2, <1>3 DEF Kept, SimpleUnfold

LEMMA NumJvarsType ==
  ASSUME NEW t PROVE NumJvars(t) \in Nat /\ IsFiniteSet({f \in Fields : Query[t][f] < 0})
<1>1. Fields = ({"sub"} \cup {"pred"}) \cup {"obj"}
  BY DEF Fields
<1>2. IsFiniteSet(Fields)
  BY <1>1, FS_Singleton, FS_AddElement
<1>. QED
  BY <1>2, FS_Subset, FS_CardinalityType DEF NumJvars

\* A pattern with one join variable has no fold of another.
LEMMA OneJvarOnly ==
  ASSUME NEW t \in TP, NumJvars(t) = 1, NEW i \in JvarsOf(t), NEW j \in JvarsOf(t)
  PROVE  i = j
<1>. DEFINE S == {f \in Fields : Query[t][f] < 0}
<1>1. IsFiniteSet(S)
  BY NumJvarsType
<1>2. PICK f : S = {f}
  BY <1>1, FS_Singleton DEF NumJvars
<1>3. PICK g \in Fields : Query[t][g] = i
  BY DEF JvarsOf, Mentions
<1>4. PICK h \in Fields : Query[t][h] = j
  BY DEF JvarsOf, Mentions
<1>5. i < 0 /\ j < 0
  BY DEF JvarsOf, Jvar
<1>6. g \in S /\ h \in S
  BY <1>3, <1>4, <1>5
<1>. QED
  BY <1>2, <1>3, <1>4, <1>6

----------------------------------------------------------------------------
(* Steps.                                                                  *)

LEMMA InitReload == ASSUME ExactFolds, Assumed, Init PROVE Reload
<1>1. Shrink
  BY InitShrink
<1>2. FoldsInside
  <2>1. FoldsExact(plan) /\ bm = plan.bm /\ fold = plan.fold
    BY DEF Init, ExactFolds
  <2>. QED
    BY <2>1 DEF FoldsExact, FoldsInside, AxisOf
<1>3. NodeAgreed /\ NeverReloadsNothing
  BY DEF Init, NodeAgreed, NeverReloadsNothing
<1>4. PrevOwn
  <2>. SUFFICES ASSUME NEW t \in TP, NEW j \in JvarsOf(t) PROVE prev[<<t, AxisOf(t, j)>>] = NULL
    BY DEF PrevOwn
  <2>1. <<t, AxisOf(t, j)>> \in TP \X Axis
    BY AxisOfType
  <2>. QED
    BY <2>1 DEF Init
<1>. QED
  BY <1>1, <1>2, <1>3, <1>4 DEF Reload

\* Steps outside the work on a variable.
LEMMA OutsideReload ==
  ASSUME Reload, Shrink', UNCHANGED <<plan, bm, fold, prev, unfolded, joinres>>,
         pc \notin Returned, pc' \in {"node", "join", "check", "fix"}, pc' = "join" => k' = 1
  PROVE  Reload'
<1>1. \A t, j : AxisOf(t, j)' = AxisOf(t, j)
  BY PlanFrame
<1>2. FoldsInside'
  BY <1>1 DEF Reload, FoldsInside, Returned
<1>3. NodeAgreed'
  <2>1. CASE pc' = "join"
    <3>1. 1 .. k' - 1 = {}
      BY <2>1
    <3>. QED
      BY <2>1, <3>1 DEF NodeAgreed
  <2>2. CASE pc' # "join"
    BY <2>2 DEF NodeAgreed
  <2>. QED
    BY <2>1, <2>2
<1>4. PrevOwn' /\ NeverReloadsNothing'
  BY <1>1 DEF Reload, PrevOwn, NeverReloadsNothing
<1>. QED
  BY <1>2, <1>3, <1>4 DEF Reload

\* The phase is over.
LEMMA OverReload ==
  ASSUME Reload, Shrink', UNCHANGED <<plan, prev, joinres>>, pc' \in {"true", "false"}
  PROVE  Reload'
<1>1. \A t, j : AxisOf(t, j)' = AxisOf(t, j)
  BY PlanFrame
<1>. QED
  BY <1>1 DEF Reload, FoldsInside, NodeAgreed, PrevOwn, NeverReloadsNothing, Returned

LEMMA StutterReload == ASSUME Reload, Shrink', UNCHANGED vars PROVE Reload'
<1>1. CurJvar' = CurJvar /\ (\A t, j : AxisOf(t, j)' = AxisOf(t, j))
  BY CurJvarFrame, PlanFrame DEF vars
<1>2. \A m : Agreed(m)' <=> Agreed(m)
  BY <1>1 DEF Agreed, SOJoin, JoinresDim, vars
<1>. QED
  BY <1>1, <1>2 DEF vars, Reload, FoldsInside, NodeAgreed, PrevOwn, NeverReloadsNothing

LEMMA UnfoldUnchangedReload ==
  ASSUME Reload, Assumed, Shrink', UnfoldUnchanged PROVE Reload'
<1>1. /\ pc = "unfold" /\ UNCHANGED <<plan, bm, fold, prev, unfolded, joinres>> /\ AfterUnfold
  BY DEF UnfoldUnchanged, fixed
<1>2. /\ pc' \in {"unfold", "node", "check"}
      /\ pc' = "unfold" => k' = k + 1 /\ CurJvar' = CurJvar
  BY <1>1, AfterUnfoldNext DEF Reload, Shrink
<1>3. CASE pc' # "unfold"
  BY <1>1, <1>2, <1>3, OutsideReload DEF Returned
<1>4. CASE pc' = "unfold"
  <2>1. \A t, j : AxisOf(t, j)' = AxisOf(t, j)
    BY <1>1, PlanFrame
  <2>2. \A m : Agreed(m)' <=> Agreed(m)
    BY <1>1, <1>2, <1>4, <2>1 DEF Agreed, SOJoin, JoinresDim
  <2>3. k \in Nat
    BY DEF Reload, Shrink, Shape, TypeOK
  <2>4. NodeAgreed'
    <3>1. fold'[joinres'[CurJvar']] # {}
      BY <1>1, <1>2, <1>4 DEF Reload, NodeAgreed
    <3>2. \A m \in k' .. Len(NextTP[CurJvar']) : m \in k .. Len(NextTP[CurJvar])
      BY <1>2, <1>4, <2>3
    <3>. QED
      BY <1>1, <1>4, <2>2, <3>1, <3>2 DEF Reload, NodeAgreed
  <2>. QED
    BY <1>1, <1>4, <2>1, <2>4 DEF Reload, FoldsInside, PrevOwn, NeverReloadsNothing, Returned
<1>. QED
  BY <1>3, <1>4

LEMMA UnfoldReload ==
  ASSUME Reload, Assumed, Shrink', UnfoldFoldOnly \/ UnfoldCells PROVE Reload'
<1>. DEFINE x == <<CurTP, CurAxis>>
            new == NewFold(CurTP, CurAxis)
<1>1. /\ pc = "unfold" /\ UNCHANGED <<plan, joinres, prev>> /\ AfterUnfold
      /\ fold' = [fold EXCEPT ![x] = new] /\ unfolded' = [unfolded EXCEPT ![CurTP] = TRUE]
  BY DEF UnfoldFoldOnly, UnfoldCells, fixed
<1>2. /\ pc' \in {"unfold", "node", "check"}
      /\ pc' = "unfold" => k' = k + 1 /\ CurJvar' = CurJvar
  BY <1>1, AfterUnfoldNext DEF Reload, Shrink
<1>3. /\ CurTP \in TP /\ CurAxis = AxisOf(CurTP, CurJvar) /\ CurJvar \in JvarsOf(CurTP)
      /\ CurJvar \in Jvar /\ CurAxis \in Axis
      /\ \A t \in TP : \A j \in JvarsOf(t) : <<t, AxisOf(t, j)>> = x => t = CurTP /\ j = CurJvar
  BY <1>1, CurrentFold DEF Reload, Shrink, Assumed
<1>4. /\ joinres[CurJvar] \in TP \X Axis /\ fold \in [TP \X Axis -> SUBSET Nat]
      /\ bm \in [TP -> SUBSET Cell] /\ unfolded \in [TP -> BOOLEAN] /\ k \in Nat
  BY <1>1, UnfoldFacts DEF Reload, Shrink, Shape, TypeOK
<1>5. \A t, j : AxisOf(t, j)' = AxisOf(t, j)
  BY <1>1, PlanFrame
<1>6. joinres[CurJvar] = x => new = fold[x]
  BY DEF NewFold, SOJoin, JoinresDim, Joinres
<1>7. Joinres \subseteq SimpleFold(bm[CurTP], CurAxis) /\ new \subseteq Joinres \cup fold[x]
  BY <1>1, UnfoldFacts, NewFoldHas
<1>. HIDE DEF new
<1>8. fold'[joinres[CurJvar]] = fold[joinres[CurJvar]]
  BY <1>1, <1>3, <1>4, <1>6
<1>9. \A t \in TP : t # CurTP => bm'[t] = bm[t]
  BY <1>4 DEF UnfoldFoldOnly, UnfoldCells
<1>0. \A t : NumJvars(t) \in Nat
  BY NumJvarsType
\* The pattern's own folds.
<1>10. ASSUME NumJvars(CurTP) <= 1, NEW j \in JvarsOf(CurTP)
       PROVE  fold'[<<CurTP, AxisOf(CurTP, j)>>] \subseteq SimpleFold(bm'[CurTP], AxisOf(CurTP, j))
  <2>1. fold[x] \subseteq SimpleFold(bm[CurTP], CurAxis)
    <3>1. ~(NumJvars(CurTP) > 1)
      BY <1>0, <1>10
    <3>. QED
      BY <1>1, <1>3, <3>1 DEF Reload, FoldsInside, Returned
  <2>2. new \subseteq SimpleFold(bm[CurTP], CurAxis)
    BY <1>7, <2>1
  <2>3. fold'[x] = new
    BY <1>1, <1>3, <1>4
  <2>4. CASE UnfoldFoldOnly
    <3>1. bm' = bm
      BY <2>4 DEF UnfoldFoldOnly
    <3>2. CASE <<CurTP, AxisOf(CurTP, j)>> = x
      <4>1. AxisOf(CurTP, j) = CurAxis
        BY <3>2
      <4>. QED
        BY <2>2, <2>3, <3>1, <4>1
    <3>3. CASE <<CurTP, AxisOf(CurTP, j)>> # x
      <4>1. fold'[<<CurTP, AxisOf(CurTP, j)>>] = fold[<<CurTP, AxisOf(CurTP, j)>>]
        BY <1>1, <1>3, <1>4, <3>3, AxisOfType
      <4>2. ~(NumJvars(CurTP) > 1)
        BY <2>4 DEF UnfoldFoldOnly, UnfoldsNow
      <4>. QED
        BY <1>1, <1>3, <3>1, <4>1, <4>2 DEF Reload, FoldsInside, Returned
    <3>. QED
      BY <3>2, <3>3
  <2>5. CASE UnfoldCells
    <3>1. NumJvars(CurTP) = 1
      BY <1>0, <1>10, <2>5 DEF UnfoldCells, UnfoldsNow
    <3>2. j = CurJvar
      BY <1>3, <3>1, OneJvarOnly
    <3>3. bm'[CurTP] = SimpleUnfold(bm[CurTP], CurAxis, new)
      BY <1>3, <1>4, <2>5 DEF UnfoldCells, Kept, new
    <3>4. new \subseteq SimpleFold(bm'[CurTP], CurAxis)
      BY <2>2, <3>3 DEF SimpleFold, SimpleUnfold
    <3>. QED
      BY <1>3, <2>3, <3>2, <3>4
  <2>. QED
    BY <2>4, <2>5
<1>11. FoldsInside'
  <2>. SUFFICES ASSUME NEW t \in TP, NEW j \in JvarsOf(t), ~(unfolded'[t] /\ NumJvars(t) > 1)
                PROVE  fold'[<<t, AxisOf(t, j)>>] \subseteq SimpleFold(bm'[t], AxisOf(t, j))
    BY <1>5 DEF FoldsInside
  <2>1. CASE t = CurTP
    <3>1. unfolded'[t]
      BY <1>1, <1>3, <1>4, <2>1
    <3>2. NumJvars(CurTP) <= 1
      BY <1>0, <2>1, <3>1
    <3>. QED
      BY <1>10, <2>1, <3>2
  <2>2. CASE t # CurTP
    <3>1. <<t, AxisOf(t, j)>> # x /\ <<t, AxisOf(t, j)>> \in TP \X Axis
      BY <2>2, AxisOfType
    <3>2. fold'[<<t, AxisOf(t, j)>>] = fold[<<t, AxisOf(t, j)>>] /\ unfolded'[t] = unfolded[t]
      BY <1>1, <1>4, <2>2, <3>1
    <3>. QED
      BY <1>1, <1>9, <2>2, <3>2 DEF Reload, FoldsInside, Returned
  <2>. QED
    BY <2>1, <2>2
<1>12. NodeAgreed'
  <2>1. CASE pc' = "unfold"
    <3>1. fold'[joinres'[CurJvar']] # {}
      BY <1>1, <1>2, <1>8, <2>1 DEF Reload, NodeAgreed
    <3>2. ASSUME NEW m \in k' .. Len(NextTP[CurJvar]) PROVE Agreed(m)'
      <4>1. k \in 1 .. Len(NextTP[CurJvar]) /\ Len(NextTP[CurJvar]) \in Nat
        BY <1>1, CurTPType DEF Reload, Shrink, Shape, IndexOK
      <4>2. m \in k .. Len(NextTP[CurJvar]) /\ m \in 1 .. Len(NextTP[CurJvar]) /\ m # k
        BY <1>2, <2>1, <4>1
      <4>3. NextTP[CurJvar][m] # CurTP /\ NextTP[CurJvar][m] \in TP
        <5>1. NextTP[CurJvar] \in Seq(TP)
          BY <1>3, PruneAssumption
        <5>2. m \in DOMAIN NextTP[CurJvar] /\ k \in DOMAIN NextTP[CurJvar]
          BY <4>1, <4>2, <5>1
        <5>. QED
          BY <1>3, <4>2, <5>1, <5>2 DEF Assumed, DistinctNodes, CurTP
      <4>4. Agreed(m)
        BY <1>1, <4>2 DEF Reload, NodeAgreed
      <4>. QED
        BY <1>1, <1>2, <1>5, <1>8, <1>9, <2>1, <4>3, <4>4 DEF Agreed, SOJoin, JoinresDim
    <3>. QED
      BY <1>2, <2>1, <3>1, <3>2 DEF NodeAgreed
  <2>2. CASE pc' # "unfold"
    BY <1>2, <2>2 DEF NodeAgreed
  <2>. QED
    BY <2>1, <2>2
<1>13. PrevOwn' /\ NeverReloadsNothing'
  BY <1>1, <1>2, <1>5 DEF Reload, PrevOwn, NeverReloadsNothing
<1>. QED
  BY <1>11, <1>12, <1>13 DEF Reload

LEMMA JoinFirstReload == ASSUME Reload, Assumed, Shrink', JoinFirst PROVE Reload'
<1>. DEFINE x == <<CurTP, CurAxis>>
            f == Folded(CurTP, CurAxis)
<1>1. /\ pc = "join" /\ joinres[CurJvar] = NULL /\ UNCHANGED <<plan, bm, unfolded>>
      /\ CurJvar' = CurJvar
      /\ fold' = [fold EXCEPT ![x] = f] /\ prev' = [prev EXCEPT ![x] = f]
      /\ joinres' = [joinres EXCEPT ![CurJvar] = x] /\ AfterJoin(f)
  BY CurJvarFrame DEF JoinFirst, fixed, loopVars
<1>2. /\ pc' = "join" => k' = k + 1
      /\ pc' = "unfold" => k' = 1 /\ f # {} /\ k = Len(NextTP[CurJvar])
      /\ pc' \in {"join", "unfold", "false"}
  <2>. HIDE DEF f
  <2>. QED
    BY <1>1, AfterJoinNext DEF Reload, Shrink
<1>3. /\ CurTP \in TP /\ CurAxis = AxisOf(CurTP, CurJvar) /\ CurJvar \in JvarsOf(CurTP)
      /\ CurJvar \in Jvar /\ CurAxis \in Axis
      /\ \A t \in TP : \A j \in JvarsOf(t) : <<t, AxisOf(t, j)>> = x => t = CurTP /\ j = CurJvar
  BY <1>1, CurrentFold DEF Reload, Shrink, Assumed
<1>4. /\ fold \in [TP \X Axis -> SUBSET Nat] /\ joinres \in [Jvar -> (TP \X Axis) \cup {NULL}]
      /\ prev \in [TP \X Axis -> (SUBSET Nat) \cup {NULL}] /\ k \in Nat \ {0}
  BY DEF Reload, Shrink, Shape, TypeOK
<1>5. \A t, j : AxisOf(t, j)' = AxisOf(t, j)
  BY <1>1, PlanFrame
<1>6. k = 1
  BY <1>1, <1>4 DEF Reload, Shrink, JoinedBefore
<1>7. f \subseteq SimpleFold(bm[CurTP], CurAxis)
  BY <1>1, <1>3, FoldedInside DEF Reload, Returned
<1>. HIDE DEF f
<1>8. fold'[x] = f /\ joinres'[CurJvar] = x /\ x \in TP \X Axis
  BY <1>1, <1>3, <1>4
<1>9. FoldsInside'
  <2>. SUFFICES ASSUME NEW t \in TP, NEW j \in JvarsOf(t), ~(unfolded[t] /\ NumJvars(t) > 1)
                PROVE  fold'[<<t, AxisOf(t, j)>>] \subseteq SimpleFold(bm[t], AxisOf(t, j))
    BY <1>1, <1>5 DEF FoldsInside
  <2>1. CASE <<t, AxisOf(t, j)>> = x
    <3>1. t = CurTP /\ AxisOf(t, j) = CurAxis
      BY <2>1
    <3>. QED
      BY <1>7, <1>8, <2>1, <3>1
  <2>2. CASE <<t, AxisOf(t, j)>> # x
    <3>1. <<t, AxisOf(t, j)>> \in TP \X Axis
      BY AxisOfType
    <3>2. fold'[<<t, AxisOf(t, j)>>] = fold[<<t, AxisOf(t, j)>>]
      BY <1>1, <1>4, <2>2, <3>1
    <3>. QED
      BY <1>1, <3>2 DEF Reload, FoldsInside, Returned
  <2>. QED
    BY <2>1, <2>2
<1>10. Agreed(1)'
  <2>1. NextTP[CurJvar][1] = CurTP
    BY <1>6 DEF CurTP
  <2>. QED
    BY <1>1, <1>3, <1>5, <1>7, <1>8, <2>1 DEF Agreed, SOJoin, JoinresDim
<1>11. NodeAgreed'
  <2>1. CASE pc' = "join"
    <3>1. \A m \in 1 .. k' - 1 : m = 1
      BY <1>2, <1>6, <2>1
    <3>. QED
      BY <1>10, <2>1, <3>1 DEF NodeAgreed
  <2>2. CASE pc' = "unfold"
    <3>1. \A m \in k' .. Len(NextTP[CurJvar]) : m = 1
      <4>1. k' = 1 /\ Len(NextTP[CurJvar]) = 1
        BY <1>2, <1>6, <2>2
      <4>. QED
        BY <4>1
    <3>. QED
      BY <1>1, <1>2, <1>8, <1>10, <2>2, <3>1 DEF NodeAgreed
  <2>3. CASE pc' \notin {"join", "unfold"}
    BY <2>3 DEF NodeAgreed
  <2>. QED
    BY <2>1, <2>2, <2>3
<1>12. PrevOwn'
  <2>. SUFFICES ASSUME NEW t \in TP, NEW j \in JvarsOf(t), prev'[<<t, AxisOf(t, j)>>] # NULL
                PROVE  joinres'[j] = <<t, AxisOf(t, j)>>
    BY <1>5 DEF PrevOwn
  <2>1. CASE <<t, AxisOf(t, j)>> = x
    BY <1>3, <1>8, <2>1
  <2>2. CASE <<t, AxisOf(t, j)>> # x
    <3>1. <<t, AxisOf(t, j)>> \in TP \X Axis /\ j \in Jvar
      BY AxisOfType DEF JvarsOf
    <3>2. prev[<<t, AxisOf(t, j)>>] # NULL
      BY <1>1, <1>4, <2>2, <3>1
    <3>3. joinres[j] = <<t, AxisOf(t, j)>>
      BY <3>2 DEF Reload, PrevOwn
    <3>4. j # CurJvar
      BY <1>1, <3>1, <3>3, PruneAssumption
    <3>. QED
      BY <1>1, <1>4, <3>1, <3>3, <3>4
  <2>. QED
    BY <2>1, <2>2
<1>13. NeverReloadsNothing'
  BY <1>2 DEF NeverReloadsNothing
<1>. QED
  BY <1>9, <1>11, <1>12, <1>13 DEF Reload

LEMMA JoinAndReload == ASSUME Reload, Assumed, Shrink', JoinAnd PROVE Reload'
<1>. DEFINE x   == <<CurTP, CurAxis>>
            y   == joinres[CurJvar]
            f   == [fold EXCEPT ![x] = Folded(CurTP, CurAxis)]
            old == f[y]
            res == f[x] \cap IF SOJoin(CurTP, CurJvar) THEN TruncateToCommonSO(old) ELSE old
<1>1. /\ pc = "join" /\ y # NULL /\ UNCHANGED <<plan, bm, prev, joinres, unfolded>>
      /\ CurJvar' = CurJvar
      /\ fold' = [f EXCEPT ![y] = res] /\ AfterJoin(res)
  BY CurJvarFrame DEF JoinAnd, fixed, loopVars
<1>2. /\ pc' = "join" => k' = k + 1
      /\ pc' = "unfold" => k' = 1 /\ res # {} /\ k = Len(NextTP[CurJvar])
      /\ pc' \in {"join", "unfold", "false"}
  <2>. HIDE DEF res
  <2>. QED
    BY <1>1, AfterJoinNext DEF Reload, Shrink
<1>3. /\ CurTP \in TP /\ CurAxis = AxisOf(CurTP, CurJvar) /\ CurJvar \in JvarsOf(CurTP)
      /\ CurJvar \in Jvar /\ CurAxis \in Axis
      /\ \A t \in TP : \A j \in JvarsOf(t) : <<t, AxisOf(t, j)>> = x => t = CurTP /\ j = CurJvar
  BY <1>1, CurrentFold DEF Reload, Shrink, Assumed
<1>4. /\ fold \in [TP \X Axis -> SUBSET Nat] /\ x \in TP \X Axis /\ y \in TP \X Axis
      /\ k \in Nat \ {0}
  BY <1>1, <1>3 DEF Reload, Shrink, Shape, TypeOK
<1>5. \A t, j : AxisOf(t, j)' = AxisOf(t, j)
  BY <1>1, PlanFrame
<1>6. y = x <=> k = 1
  BY <1>1, FirstIndex DEF Reload, Shrink, Assumed
<1>7. /\ f[x] = Folded(CurTP, CurAxis)
      /\ \A z \in TP \X Axis : z # x => f[z] = fold[z]
      /\ DOMAIN f = TP \X Axis
  BY <1>4
<1>8. res \subseteq f[y] /\ res \subseteq f[x]
  BY DEF TruncateToCommonSO
<1>9. f[x] \subseteq SimpleFold(bm[CurTP], CurAxis)
  BY <1>1, <1>3, <1>7, FoldedInside DEF Reload, Returned
<1>10. SOJoin(CurTP, CurJvar) => \A i \in res : i <= NumCommSO
  <2>. SUFFICES ASSUME SOJoin(CurTP, CurJvar), NEW i \in res PROVE i <= NumCommSO
    OBVIOUS
  <2>1. i <= LastCommonId
    BY DEF TruncateToCommonSO
  <2>2. i \in Nat
    <3>1. f[x] \subseteq Nat
      BY <1>3, <1>7, FoldedType DEF Reload, Shrink
    <3>. QED
      BY <1>8, <3>1
  <2>3. LastCommonId \in Int /\ LastCommonId <= NumCommSO /\ NumCommSO \in Nat
    BY SizesAssumption DEF LastCommonId
  <2>. QED
    BY <2>1, <2>2, <2>3
<1>. HIDE DEF f, res
<1>11. /\ fold'[y] = res
       /\ \A z \in TP \X Axis : z # y => fold'[z] = f[z]
  BY <1>1, <1>4, <1>7
<1>12. FoldsInside'
  <2>. SUFFICES ASSUME NEW t \in TP, NEW j \in JvarsOf(t), ~(unfolded[t] /\ NumJvars(t) > 1)
                PROVE  fold'[<<t, AxisOf(t, j)>>] \subseteq SimpleFold(bm[t], AxisOf(t, j))
    BY <1>1, <1>5 DEF FoldsInside
  <2>1. <<t, AxisOf(t, j)>> \in TP \X Axis
    BY AxisOfType
  <2>2. f[<<t, AxisOf(t, j)>>] \subseteq SimpleFold(bm[t], AxisOf(t, j))
    <3>1. CASE <<t, AxisOf(t, j)>> = x
      <4>1. t = CurTP /\ AxisOf(t, j) = CurAxis
        BY <3>1
      <4>. QED
        BY <1>9, <3>1, <4>1
    <3>2. CASE <<t, AxisOf(t, j)>> # x
      BY <1>1, <1>7, <2>1, <3>2 DEF Reload, FoldsInside, Returned
    <3>. QED
      BY <3>1, <3>2
  <2>3. CASE <<t, AxisOf(t, j)>> = y
    BY <1>8, <1>11, <2>2, <2>3
  <2>4. CASE <<t, AxisOf(t, j)>> # y
    BY <1>11, <2>1, <2>2, <2>4
  <2>. QED
    BY <2>3, <2>4
\* The patterns ANDed before agree with any smaller result, and this one with res.
<1>13. ASSUME NEW m \in 1 .. k PROVE Agreed(m)'
  <2>1. CASE m = k
    <3>1. NextTP[CurJvar][m] = CurTP
      BY <2>1 DEF CurTP
    <3>. QED
      BY <1>1, <1>3, <1>5, <1>8, <1>9, <1>10, <1>11, <3>1 DEF Agreed, SOJoin, JoinresDim
  <2>2. CASE m # k
    <3>1. m \in 1 .. k - 1 /\ k # 1
      BY <1>4, <2>2
    <3>2. Agreed(m)
      BY <1>1, <3>1 DEF Reload, NodeAgreed
    <3>3. fold'[y] \subseteq fold[y]
      BY <1>4, <1>6, <1>7, <1>8, <1>11, <3>1
    <3>. QED
      BY <1>1, <1>5, <3>2, <3>3 DEF Agreed, SOJoin, JoinresDim
  <2>. QED
    BY <2>1, <2>2
<1>14. NodeAgreed'
  <2>1. CASE pc' = "join"
    <3>1. \A m \in 1 .. k' - 1 : m \in 1 .. k
      BY <1>2, <1>4, <2>1
    <3>. QED
      BY <1>13, <2>1, <3>1 DEF NodeAgreed
  <2>2. CASE pc' = "unfold"
    <3>1. \A m \in k' .. Len(NextTP[CurJvar]) : m \in 1 .. k
      BY <1>2, <2>2
    <3>. QED
      BY <1>1, <1>2, <1>11, <1>13, <2>2, <3>1 DEF NodeAgreed
  <2>3. CASE pc' \notin {"join", "unfold"}
    BY <2>3 DEF NodeAgreed
  <2>. QED
    BY <2>1, <2>2, <2>3
<1>15. PrevOwn' /\ NeverReloadsNothing'
  BY <1>1, <1>2, <1>5 DEF Reload, PrevOwn, NeverReloadsNothing
<1>. QED
  BY <1>12, <1>14, <1>15 DEF Reload

----------------------------------------------------------------------------
LEMMA NextReload == ASSUME Reload, Assumed, [Next]_vars PROVE Reload'
<1>1. Shrink'
  BY NextShrink DEF Reload
<1>2. CASE EnterNode
  BY <1>1, <1>2, OutsideReload DEF EnterNode, fixed, Returned
<1>3. CASE SkipLeaf
  <2>1. pc' \in {"node", "check"}
    BY <1>3 DEF SkipLeaf, NextNode
  <2>. QED
    BY <1>1, <1>3, <2>1, OutsideReload DEF SkipLeaf, fixed, Returned
<1>4. CASE JoinFirst
  BY <1>1, <1>4, JoinFirstReload
<1>5. CASE JoinAnd
  BY <1>1, <1>5, JoinAndReload
<1>6. CASE UnfoldUnchanged
  BY <1>1, <1>6, UnfoldUnchangedReload
<1>7. CASE UnfoldFoldOnly \/ UnfoldCells
  BY <1>1, <1>7, UnfoldReload
<1>8. CASE UnfoldReloadsNothing
  BY <1>8, KeptSome DEF UnfoldReloadsNothing
<1>9. CASE TryAgain
  BY <1>1, <1>9, OutsideReload DEF TryAgain, fixed, Returned
<1>10. CASE ReturnTrue
  BY <1>1, <1>10, OutsideReload DEF ReturnTrue, fixed, Returned
<1>11. CASE FixAllTpBitmats
  BY <1>1, <1>11, OverReload DEF FixAllTpBitmats, fixed
<1>12. CASE UNCHANGED vars
  BY <1>1, <1>12, StutterReload
<1>. QED
  BY <1>2, <1>3, <1>4, <1>5, <1>6, <1>7, <1>8, <1>9, <1>10, <1>11, <1>12 DEF Next, Finished

\* No unfold of an SPO or OPS bitmat by columns is left without a triple for
\* load_data_vertically to load back: a join that is not empty leaves each of its
\* patterns a cell.
THEOREM ReloadsSomething ==
  ASSUME ExactFolds, DistinctNodes, OneJvarPerAxis, NullIsNoFold
  PROVE  Spec => []NeverReloadsNothing
<1>1. Assumed
  <2>1. CompleteFolds
    BY DEF ExactFolds, CompleteFolds, FoldsExact, FoldsComplete
  <2>. QED
    BY <2>1 DEF Assumed
<1>2. Init => Reload
  BY <1>1, InitReload
<1>3. Reload /\ [Next]_vars => Reload'
  BY <1>1, NextReload
<1>4. Reload => NeverReloadsNothing
  BY DEF Reload
<1>. QED
  BY <1>2, <1>3, <1>4, PTL DEF Spec
----------------------------------------------------------------------------
(***************************************************************************)
(* After the work on a variable, the patterns that are unfolded on it hold *)
(* the same bindings of it, those of joinres.                              *)
(***************************************************************************)


\* How many ids a position of a triple has.
NumIds(position) ==
  CASE position = "SUB" -> NumSubs [] position = "OBJ" -> NumObjs [] OTHER -> NumPreds

\* A bitmat was loaded in a dimension that has the position of its variable as
\* rows or columns, and the ids are below the size it was initialized with.
WellLoaded ==
  \A p \in Plans : \A t \in TP : \A j \in JvarsOf(t) :
    /\ <<p.dimension[t], PosOf(t, j)>> \notin
         {<<"SPO", "PRED">>, <<"OPS", "PRED">>, <<"PSO", "SUB">>, <<"POS", "OBJ">>}
    /\ \A c \in p.bm[t] :
         Coord(c, JoinAxis(p.dimension[t], PosOf(t, j))) <= NumIds(PosOf(t, j))

(***************************************************************************)
(* Of the bytes of an object fold that lie beyond a subject fold,          *)
(* object_dim_unfold clears too few: it starts at common_so_bytes.  The    *)
(* ids of the last ones are no subject's, and stay.                        *)
(***************************************************************************)
Overhang(t, j) ==
  {i \in Nat :
     /\ PosOf(t, j) = "OBJ" /\ SOVar(j)
     /\ ByteOf(i) >= BytesFor(NumSubs) /\ ByteOf(i) < BytesFor(NumObjs)
     /\ ByteOf(i) >= BytesFor(NumCommSO) + (BytesFor(NumObjs) - BytesFor(NumSubs))}

\* There are no such bytes: an object fold is no longer than a subject fold, or the
\* latter ends with the common ids, or no variable is both subject and object.
CommonTail ==
  \/ BytesFor(NumObjs) <= BytesFor(NumSubs)
  \/ BytesFor(NumSubs) = BytesFor(NumCommSO)
  \/ \A j \in Jvar : ~SOVar(j)

\* A pattern is on the list of each variable it mentions.
AllListed == \A t \in TP : \A j \in JvarsOf(t) : \E m \in DOMAIN NextTP[j] : NextTP[j][m] = t

Loaded == ExactFolds /\ Assumed /\ WellLoaded /\ AllListed

\* No fold names an id it has no bit for, and no bitmat has a cell it was not
\* loaded with.
FoldsInWidth ==
  \A t \in TP : \A j \in JvarsOf(t) : \A i \in fold[<<t, AxisOf(t, j)>>] : i <= NumIds(PosOf(t, j))

CellsLoaded == \A t \in TP : bm[t] \subseteq plan.bm[t]

\* The bindings of j that are left in a pattern.
Bindings(t, j) == SimpleFold(bm[t], AxisOf(t, j))

\* A set of ids is the join result, or has a tail besides.
IsJoinres(ids, t) == Joinres \subseteq ids /\ ids \subseteq Joinres \cup Overhang(t, CurJvar)

\* The patterns before index k have been unfolded by the join result.
NodeDone ==
  pc = "unfold" => \A m \in 1 .. k - 1 :
    UnfoldsNow(NextTP[CurJvar][m]) =>
      IsJoinres(Bindings(NextTP[CurJvar][m], CurJvar), NextTP[CurJvar][m])

Agree == Reload /\ FoldsInWidth /\ CellsLoaded /\ NodeDone

----------------------------------------------------------------------------
(* Facts about one state.                                                  *)

\* A fold is as long as its variable has ids in the position.
LEMMA FoldWidth ==
  ASSUME Shape, WellLoaded, NEW t \in TP, NEW j \in JvarsOf(t)
  PROVE  Width(plan.dimension[t], AxisOf(t, j)) = NumIds(PosOf(t, j))
<1>1. plan.dimension[t] \in Dimension /\ PosOf(t, j) \in {"SUB", "OBJ", "PRED"} /\ plan \in Plans
  BY PruneAssumption DEF Shape, Plan, PosOf
<1>. QED
  BY <1>1 DEF WellLoaded, Dimension, AxisOf, JoinAxis, Width, NumIds

\* The cells of a pattern have ids of its positions.
LEMMA BindingsInWidth ==
  ASSUME Agree, Loaded, NEW t \in TP, NEW j \in JvarsOf(t), NEW i \in Bindings(t, j)
  PROVE  i <= NumIds(PosOf(t, j))
<1>1. PICK c \in bm[t] : i = Coord(c, AxisOf(t, j))
  BY DEF Bindings, SimpleFold
<1>2. c \in plan.bm[t] /\ plan \in Plans
  BY <1>1 DEF Agree, CellsLoaded, Reload, Shrink, Shape
<1>. QED
  BY <1>1, <1>2 DEF Loaded, WellLoaded, AxisOf

LEMMA NoOverhang ==
  ASSUME CommonTail, NEW t \in TP, NEW j \in JvarsOf(t)
  PROVE  Overhang(t, j) = {}
<1>. SUFFICES ASSUME NEW i \in Overhang(t, j) PROVE FALSE
  OBVIOUS
<1>1. /\ i \in Nat /\ SOVar(j)
      /\ ByteOf(i) >= BytesFor(NumSubs) /\ ByteOf(i) < BytesFor(NumObjs)
      /\ ByteOf(i) >= BytesFor(NumCommSO) + (BytesFor(NumObjs) - BytesFor(NumSubs))
  BY DEF Overhang
<1>2. j \in Jvar
  BY DEF JvarsOf
<1>3. ByteOf(i) \in Int /\ BytesFor(NumSubs) \in Int /\ BytesFor(NumObjs) \in Int
  BY <1>1, SizesAssumption DEF ByteOf, BytesFor
<1>4. CASE BytesFor(NumObjs) <= BytesFor(NumSubs)
  BY <1>1, <1>3, <1>4
<1>5. CASE BytesFor(NumSubs) = BytesFor(NumCommSO)
  BY <1>1, <1>3, <1>5
<1>. QED
  BY <1>1, <1>2, <1>4, <1>5 DEF CommonTail

\* What a pattern is unfolded by is the join result and what is left of its fold
\* beyond the subject ids.
LEMMA NewFoldIsJoinres ==
  ASSUME Agree, Loaded, pc = "unfold"
  PROVE  IsJoinres(NewFold(CurTP, CurAxis), CurTP)
<1>1. /\ CurTP \in TP /\ CurAxis = AxisOf(CurTP, CurJvar) /\ CurJvar \in JvarsOf(CurTP)
      /\ CurJvar \in Jvar /\ Joinres \subseteq Nat /\ plan \in Plans
  BY UnfoldFacts DEF Agree, Loaded, Reload, Shrink, Shape
<1>2. CASE ~SOJoin(CurTP, CurJvar)
  <2>1. prev[<<CurTP, CurAxis>>] # NULL => fold[<<CurTP, CurAxis>>] = Joinres
    BY <1>1 DEF Agree, Reload, PrevOwn, Joinres
  <2>. QED
    BY <1>2, <2>1 DEF NewFold, IsJoinres
<1>3. CASE SOJoin(CurTP, CurJvar)
  <2>1. PICK f \in TP : Mentions(f, CurJvar) /\ joinres[CurJvar] = <<f, AxisOf(f, CurJvar)>>
    BY <1>1 DEF Agree, Reload, Shrink, Shape, JoinresPoints, JoinresSet
  <2>2. /\ PosOf(f, CurJvar) \in {"SUB", "OBJ"} /\ PosOf(CurTP, CurJvar) \in {"SUB", "OBJ"}
        /\ PosOf(f, CurJvar) # PosOf(CurTP, CurJvar)
    BY <1>1, <1>3, <2>1, SOJoinVar DEF SOJoin, JoinresDim, JvarsOf
  <2>3. /\ Width(plan.dimension[CurTP], CurAxis) = NumIds(PosOf(CurTP, CurJvar))
        /\ Width(plan.dimension[f], AxisOf(f, CurJvar)) = NumIds(PosOf(f, CurJvar))
    BY <1>1, <2>1, FoldWidth DEF Loaded, Agree, Reload, Shrink, JvarsOf
  <2>. DEFINE bytes == BytesFor(NumIds(PosOf(CurTP, CurJvar)))
              jrBytes == BytesFor(NumIds(PosOf(f, CurJvar)))
              limit == IF jrBytes < bytes THEN jrBytes ELSE bytes
  <2>4. LimitBytes(CurTP, CurAxis) = limit
    BY <2>1, <2>3 DEF LimitBytes
  <2>5. NumIds(PosOf(CurTP, CurJvar)) \in Nat /\ bytes \in Int /\ jrBytes \in Int
        /\ BytesFor(NumCommSO) \in Int
    BY <2>2, SizesAssumption DEF NumIds, BytesFor
  <2>6. SOVar(CurJvar)
    <3>1. Mentions(CurTP, CurJvar)
      BY <1>1 DEF JvarsOf
    <3>. QED
      BY <1>1, <2>1, <2>2, <3>1 DEF SOVar
  <2>7. SOFold(CurTP, CurAxis) \subseteq Joinres \cup Overhang(CurTP, CurJvar)
    <3>. SUFFICES ASSUME NEW i \in SOFold(CurTP, CurAxis), i \notin Joinres
                  PROVE  i \in Overhang(CurTP, CurJvar)
      OBVIOUS
    <3>1. i \in fold[<<CurTP, CurAxis>>] /\ ~(ByteOf(i) < limit)
      BY <2>4 DEF SOFold, WithinLimit
    <3>2. i \in Nat /\ i <= NumIds(PosOf(CurTP, CurJvar))
      <4>1. fold[<<CurTP, CurAxis>>] \subseteq Nat
        BY <1>1, AxisOfType DEF Agree, Reload, Shrink, Shape, TypeOK
      <4>. QED
        BY <1>1, <3>1, <4>1 DEF Agree, FoldsInWidth
    <3>3. ByteOf(i) \in Int /\ ByteOf(i) < bytes
      <4>. HIDE DEF limit, jrBytes
      <4>. QED
        BY <2>5, <3>2 DEF ByteOf, BytesFor
    <3>4. ByteOf(i) >= limit /\ bytes > limit /\ limit = jrBytes
      <4>. HIDE DEF bytes, jrBytes
      <4>. QED
        BY <2>5, <3>1, <3>3 DEF limit
    <3>5. CASE PosOf(CurTP, CurJvar) = "SUB"
      <4>1. i \notin SOFold(CurTP, CurAxis)
        <5>. HIDE DEF limit, bytes
        <5>1. ByteOf(i) < limit + (bytes - limit)
          BY <2>5, <3>3, <3>4
        <5>. QED
          BY <2>3, <2>4, <3>4, <3>5, <5>1 DEF SOFold, bytes
      <4>. QED
        BY <4>1
    <3>6. CASE PosOf(CurTP, CurJvar) = "OBJ"
      <4>1. bytes = BytesFor(NumObjs) /\ jrBytes = BytesFor(NumSubs)
        BY <2>2, <3>6 DEF NumIds
      <4>2. BytesFor(NumCommSO) <= BytesFor(NumSubs)
        BY SizesAssumption DEF BytesFor
      <4>3. ~(/\ ByteOf(i) >= BytesFor(NumCommSO)
              /\ ByteOf(i) < BytesFor(NumCommSO) + (bytes - limit))
        <5>. HIDE DEF limit, bytes
        <5>. QED
          BY <2>3, <2>4, <3>4, <3>6 DEF SOFold, bytes
      <4>4. ByteOf(i) >= BytesFor(NumCommSO) + (BytesFor(NumObjs) - BytesFor(NumSubs))
            /\ ByteOf(i) >= BytesFor(NumSubs) /\ ByteOf(i) < BytesFor(NumObjs)
        <5>. HIDE DEF limit, bytes, jrBytes
        <5>. QED
          BY <2>5, <3>3, <3>4, <4>1, <4>2, <4>3
      <4>. QED
        BY <2>6, <3>2, <3>6, <4>4 DEF Overhang
    <3>. QED
      BY <2>2, <3>5, <3>6
  <2>8. Joinres \subseteq SOFold(CurTP, CurAxis)
    BY <1>3, NewFoldHas DEF Agree, Loaded, NewFold
  <2>. QED
    BY <1>3, <2>7, <2>8 DEF NewFold, IsJoinres
<1>. QED
  BY <1>2, <1>3

\* A pattern that is found unchanged and would be unfolded at once has just the
\* bindings of the join result: its fold, or the copy of it, covers its cells.
LEMMA UnchangedAgrees ==
  ASSUME Agree, Loaded, pc = "unfold", ~Changed(CurTP, CurAxis), UnfoldsNow(CurTP)
  PROVE  Bindings(CurTP, CurJvar) = Joinres
<1>. DEFINE x == <<CurTP, CurAxis>>
<1>1. /\ CurTP \in TP /\ CurAxis = AxisOf(CurTP, CurJvar) /\ CurJvar \in JvarsOf(CurTP)
      /\ Joinres \subseteq Bindings(CurTP, CurJvar)
  BY UnfoldFacts DEF Agree, Loaded, Bindings
<1>2. joinres[CurJvar] # x => Bindings(CurTP, CurJvar) \subseteq fold[x]
  BY <1>1 DEF Agree, Reload, Shrink, FoldsCover, FoldCovers, Bindings
<1>3. joinres[CurJvar] = x => prev[x] # NULL /\ Bindings(CurTP, CurJvar) \subseteq prev[x]
  BY <1>1 DEF Agree, Reload, Shrink, PrevCovers, Bindings
<1>4. prev[x] # NULL => joinres[CurJvar] = x
  BY <1>1 DEF Agree, Reload, PrevOwn
<1>5. CASE SOJoin(CurTP, CurJvar)
  <2>1. joinres[CurJvar] # x /\ fold[x] = WithinLimit(Joinres, CurTP, CurAxis)
    BY <1>5 DEF SOJoin, JoinresDim, Changed
  <2>2. Bindings(CurTP, CurJvar) \subseteq Joinres
    BY <1>2, <2>1 DEF WithinLimit
  <2>. QED
    BY <1>1, <2>2
<1>6. CASE ~SOJoin(CurTP, CurJvar)
  <2>1. Bindings(CurTP, CurJvar) \subseteq Joinres
    BY <1>2, <1>3, <1>4, <1>6 DEF Changed
  <2>. QED
    BY <1>1, <2>1
<1>. QED
  BY <1>5, <1>6

\* Unfolded by the join result, it has the bindings of the join result.
LEMMA UnfoldCellsAgrees ==
  ASSUME Agree, Loaded, UnfoldCells
  PROVE  IsJoinres(SimpleFold(bm'[CurTP], CurAxis), CurTP)
<1>1. pc = "unfold" /\ bm' = [bm EXCEPT ![CurTP] = Kept]
  BY DEF UnfoldCells
<1>2. /\ CurTP \in TP /\ bm \in [TP -> SUBSET Cell]
      /\ Joinres \subseteq SimpleFold(bm[CurTP], CurAxis)
  BY <1>1, UnfoldFacts DEF Agree, Loaded, Reload, Shrink, Shape, TypeOK
<1>3. bm'[CurTP] = SimpleUnfold(bm[CurTP], CurAxis, NewFold(CurTP, CurAxis))
  BY <1>1, <1>2 DEF Kept
<1>4. IsJoinres(NewFold(CurTP, CurAxis), CurTP)
  BY <1>1, NewFoldIsJoinres
<1>. QED
  BY <1>2, <1>3, <1>4 DEF SimpleFold, SimpleUnfold, IsJoinres

----------------------------------------------------------------------------
(* Steps.                                                                  *)

LEMMA InitAgree == ASSUME Loaded, Init PROVE Agree
<1>1. Reload
  BY InitReload DEF Loaded
<1>2. plan \in Plans /\ bm = plan.bm /\ fold = plan.fold /\ pc = "node"
  BY DEF Init
<1>3. FoldsExact(plan)
  BY <1>2 DEF Loaded, ExactFolds
<1>4. FoldsInWidth
  <2>. SUFFICES ASSUME NEW t \in TP, NEW j \in JvarsOf(t), NEW i \in fold[<<t, AxisOf(t, j)>>]
                PROVE  i <= NumIds(PosOf(t, j))
    BY DEF FoldsInWidth
  <2>1. i \in SimpleFold(plan.bm[t], AxisOf(t, j))
    BY <1>2, <1>3 DEF FoldsExact, AxisOf
  <2>2. PICK c \in plan.bm[t] : i = Coord(c, AxisOf(t, j))
    BY <2>1 DEF SimpleFold
  <2>. QED
    BY <1>2, <2>2 DEF Loaded, WellLoaded, AxisOf
<1>. QED
  BY <1>1, <1>2, <1>4 DEF Agree, CellsLoaded, NodeDone

\* A fold that is written gets ids it had, or bindings of its pattern.
LEMMA WidthUpdate ==
  ASSUME Agree, Loaded, plan' = plan,
         \A t \in TP : \A j \in JvarsOf(t) :
           fold'[<<t, AxisOf(t, j)>>] \subseteq fold[<<t, AxisOf(t, j)>>] \cup Bindings(t, j)
  PROVE  FoldsInWidth'
<1>. SUFFICES ASSUME NEW t \in TP, NEW j \in JvarsOf(t), NEW i \in fold'[<<t, AxisOf(t, j)>>]
              PROVE  i <= NumIds(PosOf(t, j))
  BY PlanFrame DEF FoldsInWidth
<1>1. i \in fold[<<t, AxisOf(t, j)>>] \/ i \in Bindings(t, j)
  OBVIOUS
<1>. QED
  BY <1>1, BindingsInWidth DEF Agree, FoldsInWidth

LEMMA OutsideAgree ==
  ASSUME Agree, Reload', UNCHANGED <<plan, fold>>, pc' # "unfold",
         \A t \in TP : bm'[t] \subseteq bm[t]
  PROVE  Agree'
<1>1. FoldsInWidth'
  BY PlanFrame DEF Agree, FoldsInWidth
<1>. QED
  BY <1>1 DEF Agree, CellsLoaded, NodeDone

LEMMA StutterAgree == ASSUME Agree, Reload', UNCHANGED vars PROVE Agree'
<1>1. CurJvar' = CurJvar /\ (\A t, j : AxisOf(t, j)' = AxisOf(t, j))
  BY CurJvarFrame, PlanFrame DEF vars
<1>2. Joinres' = Joinres
  BY <1>1 DEF Joinres, vars
<1>. QED
  BY <1>1, <1>2 DEF vars, Agree, FoldsInWidth, CellsLoaded, NodeDone, Bindings, IsJoinres, Overhang, SOVar

\* What a join writes are ids the fold had, or bindings of a pattern that is
\* unfolded at once.
LEMMA JoinStep ==
  ASSUME Agree, Loaded, JoinFirst \/ JoinAnd, NEW t \in TP, NEW j \in JvarsOf(t)
  PROVE  fold'[<<t, AxisOf(t, j)>>] \subseteq
           fold[<<t, AxisOf(t, j)>>] \cup IF UnfoldsNow(t) THEN Bindings(t, j) ELSE {}
<1>. DEFINE x == <<CurTP, CurAxis>>
            f == [fold EXCEPT ![x] = Folded(CurTP, CurAxis)]
<1>1. pc = "join" /\ <<t, AxisOf(t, j)>> \in TP \X Axis
  BY AxisOfType DEF JoinFirst, JoinAnd
<1>2. /\ CurTP \in TP /\ CurAxis = AxisOf(CurTP, CurJvar) /\ CurAxis \in Axis
      /\ <<t, AxisOf(t, j)>> = x => t = CurTP /\ j = CurJvar
  BY <1>1, CurrentFold DEF Agree, Loaded, Assumed, Reload, Shrink
<1>3. fold \in [TP \X Axis -> SUBSET Nat]
  BY DEF Agree, Reload, Shrink, Shape, TypeOK
<1>4. \A z \in TP \X Axis : fold'[z] \subseteq f[z]
  <2>1. CASE JoinFirst
    BY <2>1 DEF JoinFirst
  <2>2. CASE JoinAnd
    <3>1. PICK res : /\ fold' = [f EXCEPT ![joinres[CurJvar]] = res]
                     /\ res \subseteq f[joinres[CurJvar]]
      BY <2>2 DEF JoinAnd, TruncateToCommonSO
    <3>2. DOMAIN f = TP \X Axis
      BY <1>3
    <3>. HIDE DEF f
    <3>. QED
      BY <3>1, <3>2
  <2>. QED
    BY <2>1, <2>2
<1>5. f[<<t, AxisOf(t, j)>>] \subseteq
        fold[<<t, AxisOf(t, j)>>] \cup IF UnfoldsNow(t) THEN Bindings(t, j) ELSE {}
  <2>1. CASE <<t, AxisOf(t, j)>> = x
    <3>1. f[x] = Folded(CurTP, CurAxis)
      BY <1>1, <1>3, <2>1
    <3>. QED
      BY <1>2, <2>1, <3>1 DEF Folded, UnfoldsNow, Bindings
  <2>2. CASE <<t, AxisOf(t, j)>> # x
    BY <1>1, <1>3, <2>2
  <2>. QED
    BY <2>1, <2>2
<1>. HIDE DEF f
<1>. QED
  BY <1>1, <1>4, <1>5

LEMMA JoinAgree ==
  ASSUME Agree, Loaded, Reload', JoinFirst \/ JoinAnd PROVE Agree'
<1>1. /\ pc = "join" /\ UNCHANGED <<plan, bm>> /\ CurJvar' = CurJvar
      /\ \E res : AfterJoin(res)
  BY CurJvarFrame DEF JoinFirst, JoinAnd, fixed, loopVars
<1>2. pc' = "unfold" => k' = 1
  BY <1>1, AfterJoinNext DEF Agree, Reload, Shrink
<1>3. FoldsInWidth'
  <2>1. ASSUME NEW t \in TP, NEW j \in JvarsOf(t)
        PROVE  fold'[<<t, AxisOf(t, j)>>] \subseteq fold[<<t, AxisOf(t, j)>>] \cup Bindings(t, j)
    BY JoinStep
  <2>. QED
    BY <1>1, <2>1, WidthUpdate
<1>4. NodeDone'
  <2>1. pc' = "unfold" => 1 .. k' - 1 = {}
    BY <1>2
  <2>. QED
    BY <2>1 DEF NodeDone
<1>. QED
  BY <1>1, <1>3, <1>4 DEF Agree, CellsLoaded

Unfold == UnfoldUnchanged \/ UnfoldFoldOnly \/ UnfoldCells

\* What the work on one pattern of the variable does, whichever case it is.
LEMMA UnfoldStep ==
  ASSUME Agree, Loaded, Unfold
  PROVE  /\ pc = "unfold" /\ UNCHANGED <<plan, joinres, answers>> /\ AfterUnfold
         /\ fold'[joinres[CurJvar]] = Joinres
         /\ \A t \in TP : bm'[t] \subseteq bm[t]
         /\ \A t \in TP : t # CurTP => bm'[t] = bm[t]
         /\ ~UnfoldsNow(CurTP) => bm' = bm
         /\ UnfoldsNow(CurTP) => IsJoinres(SimpleFold(bm'[CurTP], CurAxis), CurTP)
         /\ \A t \in TP : \A j \in JvarsOf(t) :
              \/ fold'[<<t, AxisOf(t, j)>>] = fold[<<t, AxisOf(t, j)>>]
              \/ /\ t = CurTP /\ j = CurJvar /\ IsJoinres(fold'[<<t, AxisOf(t, j)>>], t)
                 /\ fold'[<<t, AxisOf(t, j)>>] \subseteq Joinres \cup fold[<<t, AxisOf(t, j)>>]
<1>. DEFINE x == <<CurTP, CurAxis>>
<1>1. pc = "unfold" /\ UNCHANGED <<plan, joinres, answers>> /\ AfterUnfold
  BY DEF Unfold, UnfoldUnchanged, UnfoldFoldOnly, UnfoldCells, fixed
<1>2. /\ CurTP \in TP /\ CurAxis = AxisOf(CurTP, CurJvar) /\ CurJvar \in JvarsOf(CurTP)
      /\ CurAxis \in Axis /\ CurJvar \in Jvar
      /\ \A t \in TP : \A j \in JvarsOf(t) : <<t, AxisOf(t, j)>> = x => t = CurTP /\ j = CurJvar
  BY <1>1, CurrentFold DEF Agree, Loaded, Assumed, Reload, Shrink
<1>3. /\ fold \in [TP \X Axis -> SUBSET Nat] /\ bm \in [TP -> SUBSET Cell]
      /\ joinres[CurJvar] \in TP \X Axis
  BY <1>1, UnfoldFacts DEF Agree, Loaded, Reload, Shrink, Shape, TypeOK
<1>4. CASE UnfoldUnchanged
  <2>1. bm' = bm /\ fold' = fold /\ ~Changed(CurTP, CurAxis)
    BY <1>4 DEF UnfoldUnchanged
  <2>2. UnfoldsNow(CurTP) => IsJoinres(SimpleFold(bm'[CurTP], CurAxis), CurTP)
    BY <1>1, <1>2, <2>1, UnchangedAgrees DEF Bindings, IsJoinres
  <2>. QED
    BY <1>1, <2>1, <2>2 DEF Joinres
<1>5. CASE UnfoldFoldOnly \/ UnfoldCells
  <2>. DEFINE new == NewFold(CurTP, CurAxis)
  <2>1. fold' = [fold EXCEPT ![x] = new] /\ IsJoinres(new, CurTP)
        /\ new \subseteq Joinres \cup fold[x]
    BY <1>1, <1>5, NewFoldIsJoinres, NewFoldHas DEF UnfoldFoldOnly, UnfoldCells, Agree, Loaded
  <2>. HIDE DEF new
  <2>2. \A z \in TP \X Axis : fold'[z] = IF z = x THEN new ELSE fold[z]
    BY <1>3, <2>1
  <2>3. fold'[joinres[CurJvar]] = Joinres
    <3>1. CASE joinres[CurJvar] = x
      <4>1. fold[x] = Joinres
        BY <3>1 DEF Joinres
      <4>2. new = Joinres
        BY <2>1, <4>1 DEF IsJoinres
      <4>. QED
        BY <1>3, <2>2, <3>1, <4>2
    <3>2. CASE joinres[CurJvar] # x
      BY <1>3, <2>2, <3>2 DEF Joinres
    <3>. QED
      BY <3>1, <3>2
  <2>4. /\ \A t \in TP : bm'[t] \subseteq bm[t]
        /\ \A t \in TP : t # CurTP => bm'[t] = bm[t]
    BY <1>3, <1>5 DEF UnfoldFoldOnly, UnfoldCells, Kept, SimpleUnfold
  <2>5. /\ UnfoldsNow(CurTP) => IsJoinres(SimpleFold(bm'[CurTP], CurAxis), CurTP)
        /\ ~UnfoldsNow(CurTP) => bm' = bm
    BY <1>5, UnfoldCellsAgrees DEF UnfoldFoldOnly, UnfoldCells
  <2>6. ASSUME NEW t \in TP, NEW j \in JvarsOf(t)
        PROVE  \/ fold'[<<t, AxisOf(t, j)>>] = fold[<<t, AxisOf(t, j)>>]
               \/ /\ t = CurTP /\ j = CurJvar /\ IsJoinres(fold'[<<t, AxisOf(t, j)>>], t)
                  /\ fold'[<<t, AxisOf(t, j)>>] \subseteq Joinres \cup fold[<<t, AxisOf(t, j)>>]
    <3>1. <<t, AxisOf(t, j)>> \in TP \X Axis
      BY AxisOfType
    <3>2. CASE <<t, AxisOf(t, j)>> = x
      <4>1. fold'[x] = new
        BY <2>2, <3>1, <3>2
      <4>. QED
        BY <1>2, <2>1, <3>2, <4>1
    <3>. QED
      BY <2>2, <3>1, <3>2
  <2>. QED
    BY <1>1, <2>3, <2>4, <2>5, <2>6
<1>. QED
  BY <1>4, <1>5 DEF Unfold

\* The patterns unfolded so far, this one included, have the bindings of the join result.
LEMMA UnfoldDone ==
  ASSUME Agree, Loaded, Unfold, NEW m \in 1 .. k, UnfoldsNow(NextTP[CurJvar][m])
  PROVE  IsJoinres(SimpleFold(bm'[NextTP[CurJvar][m]], AxisOf(NextTP[CurJvar][m], CurJvar)),
                   NextTP[CurJvar][m])
<1>1. pc = "unfold"
  BY UnfoldStep
<1>2. CurTP \in TP /\ CurAxis = AxisOf(CurTP, CurJvar) /\ CurJvar \in Jvar
  BY <1>1, UnfoldFacts DEF Agree, Loaded
<1>3. k \in 1 .. Len(NextTP[CurJvar]) /\ Len(NextTP[CurJvar]) \in Nat /\ NextTP[CurJvar] \in Seq(TP)
  BY <1>1, <1>2, CurTPType, PruneAssumption DEF Agree, Reload, Shrink, Shape, IndexOK
<1>4. CASE m = k
  <2>1. NextTP[CurJvar][m] = CurTP
    BY <1>4 DEF CurTP
  <2>. QED
    BY <1>2, <2>1, UnfoldStep
<1>5. CASE m # k
  <2>1. m \in 1 .. k - 1 /\ m \in DOMAIN NextTP[CurJvar] /\ k \in DOMAIN NextTP[CurJvar]
    BY <1>3, <1>5
  <2>2. NextTP[CurJvar][m] # CurTP /\ NextTP[CurJvar][m] \in TP
    BY <1>2, <1>3, <1>5, <2>1 DEF Loaded, Assumed, DistinctNodes, CurTP
  <2>3. IsJoinres(Bindings(NextTP[CurJvar][m], CurJvar), NextTP[CurJvar][m])
    BY <1>1, <2>1 DEF Agree, NodeDone
  <2>. QED
    BY <2>2, <2>3, UnfoldStep DEF Bindings
<1>. QED
  BY <1>4, <1>5

LEMMA UnfoldAgree ==
  ASSUME Agree, Loaded, Reload', Unfold PROVE Agree'
<1>1. /\ pc = "unfold" /\ UNCHANGED <<plan, joinres>> /\ AfterUnfold
      /\ fold'[joinres[CurJvar]] = Joinres
      /\ \A t \in TP : bm'[t] \subseteq bm[t]
  BY UnfoldStep
<1>2. pc' = "unfold" => k' = k + 1 /\ CurJvar' = CurJvar
  BY <1>1, AfterUnfoldNext DEF Agree, Reload, Shrink
<1>3. CurTP \in TP /\ CurJvar \in JvarsOf(CurTP) /\ Joinres \subseteq Bindings(CurTP, CurJvar)
  BY <1>1, UnfoldFacts DEF Agree, Loaded, Bindings
<1>4. FoldsInWidth'
  <2>1. ASSUME NEW t \in TP, NEW j \in JvarsOf(t)
        PROVE  fold'[<<t, AxisOf(t, j)>>] \subseteq fold[<<t, AxisOf(t, j)>>] \cup Bindings(t, j)
    BY <1>3, UnfoldStep
  <2>. QED
    BY <1>1, <2>1, WidthUpdate
<1>5. NodeDone'
  <2>. SUFFICES ASSUME pc' = "unfold", NEW m \in 1 .. k' - 1, UnfoldsNow(NextTP[CurJvar][m])
                PROVE  IsJoinres(SimpleFold(bm'[NextTP[CurJvar][m]],
                                            AxisOf(NextTP[CurJvar][m], CurJvar)), NextTP[CurJvar][m])
    BY <1>1, <1>2, PlanFrame DEF NodeDone, Bindings, Joinres, IsJoinres, Overhang, SOVar
  <2>1. m \in 1 .. k
    <3>1. k \in Nat
      BY DEF Agree, Reload, Shrink, Shape, TypeOK
    <3>. QED
      BY <1>2, <3>1
  <2>. QED
    BY <2>1, UnfoldDone
<1>. QED
  BY <1>1, <1>4, <1>5 DEF Agree, CellsLoaded

LEMMA NextAgree == ASSUME Agree, Loaded, [Next]_vars PROVE Agree'
<1>1. Reload'
  BY NextReload DEF Agree, Loaded
<1>2. CASE EnterNode
  BY <1>1, <1>2, OutsideAgree DEF EnterNode, fixed
<1>3. CASE SkipLeaf
  <2>1. pc' # "unfold"
    BY <1>3 DEF SkipLeaf, NextNode
  <2>. QED
    BY <1>1, <1>3, <2>1, OutsideAgree DEF SkipLeaf, fixed
<1>4. CASE JoinFirst \/ JoinAnd
  BY <1>1, <1>4, JoinAgree
<1>5. CASE UnfoldUnchanged \/ UnfoldFoldOnly \/ UnfoldCells
  BY <1>1, <1>5, UnfoldAgree DEF Unfold
<1>6. CASE UnfoldReloadsNothing
  BY <1>6, KeptSome DEF UnfoldReloadsNothing, Agree, Loaded
<1>7. CASE TryAgain
  BY <1>1, <1>7, OutsideAgree DEF TryAgain, fixed
<1>8. CASE ReturnTrue
  BY <1>1, <1>8, OutsideAgree DEF ReturnTrue, fixed
<1>9. CASE FixAllTpBitmats
  <2>1. \A t \in TP : bm'[t] \subseteq bm[t]
    BY <1>9, UnfoldFold DEF FixAllTpBitmats
  <2>. QED
    BY <1>1, <1>9, <2>1, OutsideAgree DEF FixAllTpBitmats, fixed
<1>10. CASE UNCHANGED vars
  BY <1>1, <1>10, StutterAgree
<1>. QED
  BY <1>2, <1>3, <1>4, <1>5, <1>6, <1>7, <1>8, <1>9, <1>10 DEF Next, Finished

LEMMA AgreeInvariant == ASSUME Loaded PROVE Spec => []Agree
<1>1. Init => Agree
  BY InitAgree
<1>2. Agree /\ [Next]_vars => Agree'
  BY NextAgree
<1>. QED
  BY <1>1, <1>2, PTL DEF Spec

----------------------------------------------------------------------------
(* Agreement.                                                              *)

\* "objfold is consistent with the latest joinres" after an unfold that changed
\* something, and so is subfold on the other axis, unless the two arrays of a
\* subject-object join have lengths of which object_dim_unfold leaves a tail.
THEOREM FoldsFollow ==
  ASSUME Loaded, CommonTail
  PROVE  Spec => FoldFollowsJoinres
<1>1. ASSUME Agree, UnfoldFoldOnly \/ UnfoldCells PROVE fold'[<<CurTP, CurAxis>>] = Joinres
  <2>1. pc = "unfold" /\ fold' = [fold EXCEPT ![<<CurTP, CurAxis>>] = NewFold(CurTP, CurAxis)]
    BY <1>1 DEF UnfoldFoldOnly, UnfoldCells
  <2>2. fold \in [TP \X Axis -> SUBSET Nat] /\ <<CurTP, CurAxis>> \in TP \X Axis
    BY <1>1, <2>1, UnfoldFacts DEF Agree, Loaded, Reload, Shrink, Shape, TypeOK
  <2>3. Overhang(CurTP, CurJvar) = {}
    BY <1>1, <2>1, UnfoldFacts, NoOverhang DEF Agree, Loaded
  <2>. QED
    BY <1>1, <2>1, <2>2, <2>3, NewFoldIsJoinres DEF IsJoinres
<1>2. Agree /\ [Next]_vars => [UnfoldFoldOnly \/ UnfoldCells => fold'[<<CurTP, CurAxis>>] = Joinres]_vars
  BY <1>1
<1>. QED
  BY <1>2, AgreeInvariant, PTL DEF Spec, FoldFollowsJoinres

\* When prune_for_jvar is done with a variable, all the patterns that are unfolded
\* on it hold the bindings of its join result, those included whose unfold found
\* nothing changed by comparing it with a fold, or a copy, of long before.
THEOREM NodesAgree ==
  ASSUME Loaded, CommonTail
  PROVE  Spec => NodeAgreement
<1>1. ASSUME Agree, Next, pc = "unfold", pc' \in {"node", "check"} PROVE SameBindings(CurJvar)
  <2>1. Unfold
    BY <1>1 DEF Unfold, Next, EnterNode, SkipLeaf, JoinFirst, JoinAnd, UnfoldReloadsNothing,
       TryAgain, ReturnTrue, FixAllTpBitmats, Finished, Returned
  <2>2. ~(k < Len(NextTP[CurJvar]))
    BY <1>1, <2>1, UnfoldStep DEF AfterUnfold
  <2>3. k = Len(NextTP[CurJvar]) /\ k \in Nat /\ CurJvar \in Jvar
    BY <1>1, <2>2, CurTPType, CurJvarType DEF Agree, Reload, Shrink, Shape, IndexOK
  <2>4. ASSUME NEW t \in TP, Mentions(t, CurJvar), UnfoldsNow(t)
        PROVE  SimpleFold(bm'[t], AxisOf(t, CurJvar)) = Joinres
    <3>1. PICK m \in DOMAIN NextTP[CurJvar] : NextTP[CurJvar][m] = t
      BY <2>3, <2>4 DEF Loaded, AllListed, JvarsOf
    <3>2. m \in 1 .. k
      BY <2>3, <3>1, PruneAssumption
    <3>3. Overhang(t, CurJvar) = {}
      BY <2>3, <2>4, NoOverhang DEF JvarsOf
    <3>. QED
      BY <1>1, <2>1, <2>4, <3>1, <3>2, <3>3, UnfoldDone DEF IsJoinres
  <2>. QED
    BY <2>4 DEF SameBindings
<1>2. Agree /\ [Next]_vars =>
        [pc = "unfold" /\ pc' \in {"node", "check"} => SameBindings(CurJvar)]_vars
  BY <1>1
<1>. QED
  BY <1>2, AgreeInvariant, PTL DEF Spec, NodeAgreement

==============================================================================
