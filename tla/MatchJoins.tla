----------------------------- MODULE MatchJoins ------------------------------
(***************************************************************************)
(* Proofs about Match, for every query, every graph of its patterns and    *)
(* every bitmats that pruning may leave: types, the mapping invariant and  *)
(* that no row is written twice, then that the rows are the joins.         *)
(***************************************************************************)
EXTENDS Match, FiniteSetTheorems, SequenceTheorems, WellFoundedInduction, TLAPS

(***************************************************************************)
(* What the phase says of the other variables, so that the properties of a *)
(* running match are inductive.                                            *)
(***************************************************************************)
PhaseOK ==
  /\ phase = "idle" => maps = [t \in TP |-> NULL] /\ unvisited = {} /\ stack = << >>
  /\ phase = "match" => stack # << >>

Inv == TypeOK /\ PhaseOK /\ MapsRestored /\ VisitedOnce

(***************************************************************************)
(* The first cell of a list is one of its cells.                           *)
(***************************************************************************)
LEMMA LeastExists ==
  ASSUME NEW S, S \subseteq Nat, S # {}
  PROVE  \E n \in S : \A m \in S : n <= m
<1>. DEFINE Less == {ss \in Nat \X Nat : ss[1] < ss[2]}
<1>1. IsWellFoundedOn(Less, Nat)
  BY NatLessThanWellFounded DEF OpToRel
<1>. HIDE DEF Less
<1>2. PICK n \in S : \A m \in S : ~ (<<m, n>> \in Less)
  BY <1>1, WFMin
<1>3. \A m \in S : n <= m
  <2>1. TAKE m \in S
  <2>2. m \in Nat /\ n \in Nat
    OBVIOUS
  <2>3. m < n => <<m, n>> \in Less
    BY <2>2 DEF Less
  <2>. QED
    BY <1>2, <2>2, <2>3
<1>. QED
  BY <1>3

LEMMA FirstOfIn ==
  ASSUME NEW cells \in SUBSET (Id \X Id), cells # {}
  PROVE  FirstOf(cells) \in cells
<1>1. \A c \in cells : c[1] \in Nat /\ c[2] \in Nat
  BY DEF Id
<1>2. {c[1] : c \in cells} \subseteq Nat /\ {c[1] : c \in cells} # {}
  BY <1>1
<1>3. PICK r \in {c[1] : c \in cells} : \A m \in {c[1] : c \in cells} : r <= m
  BY <1>2, LeastExists
<1>. DEFINE row == {c \in cells : c[1] = r}
<1>4. {c[2] : c \in row} \subseteq Nat /\ {c[2] : c \in row} # {}
  BY <1>1, <1>3
<1>5. PICK k \in {c[2] : c \in row} : \A m \in {c[2] : c \in row} : k <= m
  BY <1>4, LeastExists
<1>6. PICK c \in row : c[2] = k
  BY <1>5
<1>7. \A d \in cells : c[1] < d[1] \/ (c[1] = d[1] /\ c[2] <= d[2])
  <2>1. TAKE d \in cells
  <2>2. c[1] = r /\ r <= d[1]
    BY <1>3, <1>6
  <2>3. d[1] = r => c[2] <= d[2]
    BY <1>5, <1>6
  <2>. QED
    BY <2>2, <2>3, <1>1, <1>6
<1>8. c \in cells
  BY <1>6
<1>. QED
  BY <1>7, <1>8 DEF FirstOf

----------------------------------------------------------------------------
(* Types of the operators.                                                 *)

LEMMA QueryType ==
  ASSUME NEW t \in TP
  PROVE  Query[t].sub \in Int /\ Query[t].pred \in Int /\ Query[t].obj \in Int
<1>1. Query \in Seq([sub : Int, pred : Int, obj : Int]) /\ t \in 1 .. Len(Query)
  BY QueryAssumption DEF TP
<1>2. Query[t] \in [sub : Int, pred : Int, obj : Int]
  BY <1>1, ElementOfSeq
<1>. QED
  BY <1>2

LEMMA TripleOfType ==
  ASSUME NEW t \in TP, NEW c \in Id \X Id, NEW dim \in Dimension, Oriented(dim, t)
  PROVE  TripleOf(dim, t, c) \in Triple
<1>1. c[1] \in Id /\ c[2] \in Id
  OBVIOUS
<1>2. Query[t].sub \in Int /\ Query[t].pred \in Int /\ Query[t].obj \in Int
  BY QueryType
<1>3. dim \in {"SPO", "OPS", "PSO", "POS"}
  BY DEF Dimension
<1>4. CASE dim = "SPO"
  BY <1>1, <1>2, <1>4 DEF TripleOf, Triple, Oriented, Id
<1>5. CASE dim = "OPS"
  BY <1>1, <1>2, <1>5 DEF TripleOf, Triple, Oriented, Id
<1>6. CASE dim = "PSO"
  BY <1>1, <1>2, <1>6 DEF TripleOf, Triple, Oriented, Id
<1>7. CASE dim = "POS"
  BY <1>1, <1>2, <1>7 DEF TripleOf, Triple, Oriented, Id
<1>. QED
  BY <1>3, <1>4, <1>5, <1>6, <1>7

LEMMA RequiredType ==
  ASSUME NEW m \in [TP -> Triple \cup {NULL}], NEW t \in TP, NEW f
  PROVE  Required(m, t, f) \subseteq Id
<1>1. SUFFICES ASSUME NEW u \in TP, m[u] # NULL
               PROVE  m[u][Edge(t, u)[2]] \in Id
  BY DEF Required, Mapped
<1>2. m[u] \in Triple
  BY <1>1
<1>3. Edge(t, u)[2] \in Fields
  BY DEF Edge, Fields
<1>. QED
  BY <1>2, <1>3 DEF Triple, Fields

LEMMA CandidatesType ==
  ASSUME NEW m \in [TP -> Triple \cup {NULL}], NEW t \in TP, pruned \in Input
  PROVE  Candidates(m, t) \subseteq Id \X Id
<1>1. pruned.bm[t] \subseteq Id \X Id
  BY DEF Input
<1>2. ASSUME ByColumn(m, t), SingleRow(t)
      PROVE  {<<Query[t].pred, FocusId(m, t)>>} \subseteq Id \X Id
  <2>1. Required(m, t, Focus(m, t)) # {}
    BY <1>2 DEF ByColumn, Focus
  <2>2. FocusId(m, t) \in Id
    BY <2>1, RequiredType DEF FocusId
  <2>3. Query[t].pred \in Id
    BY <1>2, QueryType DEF SingleRow, Id
  <2>. QED
    BY <2>2, <2>3
<1>. QED
  BY <1>1, <1>2 DEF Candidates

LEMMA TriplesOfType ==
  ASSUME NEW m, NEW t \in TP, NEW c \in Id \X Id, pruned \in Input
  PROVE  TriplesOf(m, t, c) \subseteq Triple
<1>1. pruned.dimension[t] \in Dimension /\ Oriented(pruned.dimension[t], t)
  BY DEF Input
<1>. QED
  BY <1>1, TripleOfType, MatchAssumption DEF TriplesOf

----------------------------------------------------------------------------
(* A triple of the running call.                                           *)

\* The patterns of the running calls.
OnStack == {stack[i].node : i \in DOMAIN stack}

LEMMA TopType ==
  ASSUME TypeOK, stack # << >>
  PROVE  /\ Len(stack) \in Nat \ {0} /\ DOMAIN stack = 1 .. Len(stack)
         /\ \A i \in 1 .. Len(stack) : stack[i] \in Frame
         /\ Top \in Frame /\ Top.node \in OnStack
<1>1. stack \in Seq(Frame)
  BY DEF TypeOK
<1>2. Len(stack) \in Nat \ {0} /\ DOMAIN stack = 1 .. Len(stack)
  BY <1>1
<1>3. \A i \in 1 .. Len(stack) : stack[i] \in Frame
  BY <1>1, ElementOfSeq
<1>4. Len(stack) \in 1 .. Len(stack)
  BY <1>2
<1>. QED
  BY <1>2, <1>3, <1>4 DEF Top, OnStack

LEMMA RestType ==
  ASSUME TypeOK, stack # << >>
  PROVE  /\ Rest \in Seq(Frame) /\ Len(Rest) = Len(stack)
         /\ \A i \in 1 .. Len(stack) : Rest[i].node = stack[i].node
<1>. DEFINE cut == Top.todo \ {FirstOf(Top.todo)}
            top == [Top EXCEPT !.todo = cut]
<1>1. Len(stack) \in 1 .. Len(stack) /\ stack \in Seq(Frame) /\ Top \in Frame
  BY TopType DEF TypeOK
<1>2. top \in Frame /\ top.node = Top.node
  BY <1>1 DEF Frame
<1>3. Rest = [stack EXCEPT ![Len(stack)] = top]
  BY <1>1 DEF Rest, Top
<1>. HIDE DEF top, cut
<1>4. Rest \in Seq(Frame) /\ Len(Rest) = Len(stack)
  BY <1>1, <1>2, <1>3, ExceptSeq
<1>5. \A i \in 1 .. Len(stack) : Rest[i] = IF i = Len(stack) THEN top ELSE stack[i]
  BY <1>1, <1>3
<1>. QED
  BY <1>2, <1>4, <1>5 DEF Top

LEMMA ExtendedType ==
  ASSUME TypeOK, PhaseOK, Trying, NEW m \in Extended
  PROVE  /\ m \in [TP -> Triple \cup {NULL}]
         /\ Mapped(m) = Mapped(maps) \cup {Top.node}
<1>1. Top \in Frame
  BY TopType DEF PhaseOK, Trying
<1>2. Top.node \in TP /\ Top.todo \in SUBSET (Id \X Id) /\ Top.todo # {}
  BY <1>1 DEF Frame, Trying
<1>3. FirstOf(Top.todo) \in Id \X Id
  BY <1>2, FirstOfIn
<1>4. pruned \in Input
  BY DEF TypeOK
<1>5. TriplesOf(maps, Top.node, FirstOf(Top.todo)) \subseteq Triple
  BY <1>2, <1>3, <1>4, TriplesOfType
<1>6. PICK tr \in Triple : m = [maps EXCEPT ![Top.node] = tr]
  BY <1>5 DEF Extended, Agreeing
<1>7. maps \in [TP -> Triple \cup {NULL}] /\ tr # NULL
  BY <1>6, MatchAssumption DEF TypeOK
<1>. QED
  BY <1>2, <1>6, <1>7 DEF Mapped

LEMMA MappedNow ==
  ASSUME Inv, Trying, NEW m \in Extended
  PROVE  Mapped(m) = OnStack
<1>1. stack # << >> /\ TypeOK /\ PhaseOK
  BY DEF Inv, PhaseOK, Trying
<1>2. Mapped(m) = {stack[i].node : i \in 1 .. Len(stack) - 1} \cup {Top.node}
  BY <1>1, ExtendedType DEF Inv, MapsRestored, Trying
<1>3. Len(stack) \in Nat \ {0} /\ DOMAIN stack = 1 .. Len(stack)
  BY <1>1, TopType
<1>. QED
  BY <1>2, <1>3 DEF OnStack, Top

LEMMA WaitingOutside ==
  ASSUME Inv, Trying, NEW m \in Extended
  PROVE  /\ Waiting(m) \subseteq TP \ OnStack
         /\ Refilled(m) \subseteq TP \ OnStack
<1>1. stack # << >> /\ TypeOK /\ PhaseOK
  BY DEF Inv, PhaseOK, Trying
<1>2. Mapped(m) = OnStack
  BY MappedNow
<1>3. unvisited \subseteq TP \ OnStack
  BY <1>1 DEF Inv, TypeOK, VisitedOnce, OnStack
<1>4. Top.node \in TP
  BY <1>1, TopType DEF Frame
<1>5. Range(Adj[Top.node]) \subseteq TP
  <2>1. Adj[Top.node] \in Seq(TP)
    BY <1>4, MatchAssumption
  <2>. QED
    BY <2>1, ElementOfSeq DEF Range
<1>6. Waiting(m) \subseteq TP \ OnStack
  BY <1>2, <1>3, <1>5 DEF Waiting
<1>. QED
  BY <1>2, <1>6 DEF Refilled, FirstIn, Unmapped

----------------------------------------------------------------------------
(* Every step keeps Inv.                                                   *)

LEMMA VisitInv ==
  ASSUME Inv, Trying, NEW m \in Extended, NEW u \in TP \ OnStack,
         NEW parent \in TP \cup {NULL}, NEW waiting, waiting \subseteq TP \ OnStack,
         Visit(u, parent, m, waiting)
  PROVE  Inv'
<1>. DEFINE new == [node |-> u, parent |-> parent, todo |-> Candidates(m, u)]
<1>1. stack # << >> /\ TypeOK /\ PhaseOK /\ MapsRestored /\ VisitedOnce
  BY DEF Inv, PhaseOK, Trying
<1>2. m \in [TP -> Triple \cup {NULL}] /\ Mapped(m) = OnStack
  BY <1>1, ExtendedType, MappedNow
<1>3. new \in Frame
  BY <1>1, <1>2, CandidatesType DEF Frame, TypeOK
<1>4. /\ Len(stack) \in Nat \ {0} /\ DOMAIN stack = 1 .. Len(stack)
      /\ Rest \in Seq(Frame) /\ Len(Rest) = Len(stack)
      /\ \A i \in 1 .. Len(stack) : Rest[i].node = stack[i].node
  BY <1>1, TopType, RestType
<1>5. /\ stack' = Append(Rest, new) /\ unvisited' = waiting \ {u} /\ maps' = m
      /\ phase' \in {"abort", "match"}
      /\ UNCHANGED <<pruned, stray, rows>>
  BY DEF Visit
<1>6. new.node = u
  OBVIOUS
<1>. HIDE DEF new
<1>7. /\ stack' \in Seq(Frame) /\ Len(stack') = Len(stack) + 1
      /\ \A i \in 1 .. Len(stack) : stack'[i].node = stack[i].node
      /\ stack'[Len(stack) + 1].node = u
      /\ DOMAIN stack' = 1 .. Len(stack) + 1
  BY <1>3, <1>4, <1>5, <1>6, AppendProperties
<1>8. TypeOK'
  BY <1>1, <1>2, <1>5, <1>7 DEF TypeOK
<1>9. PhaseOK'
  BY <1>4, <1>5, <1>7 DEF PhaseOK
<1>10. MapsRestored'
  <2>1. Mapped(maps)' = OnStack
    BY <1>2, <1>5 DEF Mapped
  <2>2. {stack'[i].node : i \in 1 .. Len(stack') - 1} = OnStack
    BY <1>4, <1>7 DEF OnStack
  <2>. QED
    BY <2>1, <2>2 DEF MapsRestored, Mapped
<1>11. VisitedOnce'
  <2>1. \A i \in 1 .. Len(stack) : stack[i].node # u /\ stack[i].node \notin waiting
    BY <1>4 DEF OnStack
  <2>2. \A i, k \in 1 .. Len(stack) : stack[i].node = stack[k].node => i = k
    BY <1>1, <1>4 DEF VisitedOnce
  <2>3. \A i \in 1 .. Len(stack) + 1 : i \in 1 .. Len(stack) \/ i = Len(stack) + 1
    BY <1>4
  <2>4. ASSUME NEW i \in 1 .. Len(stack) + 1, NEW k \in 1 .. Len(stack) + 1,
               stack'[i].node = stack'[k].node
        PROVE  i = k
    BY <1>7, <2>1, <2>2, <2>3, <2>4
  <2>5. \A i \in 1 .. Len(stack) + 1 : stack'[i].node \notin unvisited'
    BY <1>5, <1>7, <2>1, <2>3
  <2>. QED
    BY <1>7, <2>4, <2>5 DEF VisitedOnce
<1>. QED
  BY <1>8, <1>9, <1>10, <1>11 DEF Inv

\* Every call is at a pattern of its own: when there are as many calls as
\* patterns, each pattern is at its turn.
LEMMA AllOnStack ==
  ASSUME Inv, stack # << >>, LastNode
  PROVE  OnStack = TP
<1>. DEFINE n == Len(stack)
            f == [i \in 1 .. n |-> stack[i].node]
<1>1. n \in Nat \ {0} /\ DOMAIN stack = 1 .. n /\ \A i \in 1 .. n : stack[i] \in Frame
  BY TopType DEF Inv
<1>2. TP = 1 .. n
  BY QueryAssumption DEF TP, LastNode
<1>3. f \in Injection(1 .. n, TP)
  <2>1. f \in [1 .. n -> TP]
    BY <1>1 DEF Frame
  <2>2. \A i, k \in 1 .. n : f[i] = f[k] => i = k
    BY <1>1 DEF Inv, VisitedOnce
  <2>. HIDE DEF f
  <2>. QED
    BY <2>1, <2>2, Zenon DEF Injection, IsInjective
<1>4. IsFiniteSet(TP) /\ Cardinality(1 .. n) = Cardinality(TP)
  BY <1>1, <1>2, FS_Interval
<1>5. f \in Surjection(1 .. n, TP)
  BY <1>3, <1>4, FS_Injection
<1>6. \A t \in TP : \E i \in 1 .. n : f[i] = t
  BY <1>5 DEF Surjection
<1>7. OnStack \subseteq TP
  BY <1>1 DEF OnStack, Frame
<1>. QED
  BY <1>1, <1>6, <1>7 DEF OnStack

LEMMA InitInv == Init => Inv
<1>1. SUFFICES ASSUME Init PROVE Inv
  OBVIOUS
<1>2. << >> \in Seq(Frame) /\ << >> \in Seq([TP -> Triple])
  OBVIOUS
<1>3. TypeOK
  BY <1>1, <1>2 DEF Init, Idle, TypeOK
<1>4. PhaseOK /\ MapsRestored /\ VisitedOnce
  BY <1>1 DEF Init, Idle, PhaseOK, MapsRestored, VisitedOnce
<1>. QED
  BY <1>3, <1>4 DEF Inv

LEMMA BeginInv == Inv /\ Begin => Inv'
<1>1. SUFFICES ASSUME Inv, Begin PROVE Inv'
  OBVIOUS
<1>2. PICK t \in TP : stack' = << [node |-> t, parent |-> NULL, todo |-> pruned.bm[t]] >>
  BY <1>1 DEF Begin
<1>. DEFINE new == [node |-> t, parent |-> NULL, todo |-> pruned.bm[t]]
<1>3. new \in Frame /\ new.node = t
  BY <1>1 DEF Inv, TypeOK, Input, Frame
<1>. HIDE DEF new
<1>4. stack' = << new >> /\ stack' \in Seq(Frame) /\ Len(stack') = 1 /\ stack'[1] = new
      /\ DOMAIN stack' = {1}
  BY <1>2, <1>3 DEF new
<1>5. maps' = [u \in TP |-> NULL] /\ unvisited' = {} /\ phase' = "match"
  BY <1>1 DEF Begin, Inv, PhaseOK
<1>6. stray' \subseteq TP
  BY <1>1 DEF Begin, WithoutBitmat2
<1>7. TypeOK'
  BY <1>1, <1>4, <1>5, <1>6 DEF Inv, TypeOK, Begin
<1>8. PhaseOK' /\ VisitedOnce'
  BY <1>4, <1>5 DEF PhaseOK, VisitedOnce
<1>9. MapsRestored'
  BY <1>4, <1>5 DEF MapsRestored, Mapped
<1>. QED
  BY <1>7, <1>8, <1>9 DEF Inv

LEMMA BeginNowhereInv == Inv /\ BeginNowhere => Inv'
<1>1. SUFFICES ASSUME Inv, BeginNowhere PROVE Inv'
  OBVIOUS
<1>. QED
  BY <1>1 DEF Inv, BeginNowhere, TypeOK, PhaseOK, MapsRestored, VisitedOnce

\* What a step does that only takes a cell off the list, and may write a row.
LEMMA CutInv ==
  ASSUME Inv, Trying, stack' = Rest, rows' \in Seq([TP -> Triple]),
         UNCHANGED <<pruned, stray, maps, unvisited, phase>>
  PROVE  Inv'
<1>1. stack # << >> /\ TypeOK
  BY DEF Inv, PhaseOK, Trying
<1>2. /\ Len(stack) \in Nat \ {0} /\ DOMAIN stack = 1 .. Len(stack)
      /\ stack' \in Seq(Frame) /\ Len(stack') = Len(stack)
      /\ DOMAIN stack' = 1 .. Len(stack)
      /\ \A i \in 1 .. Len(stack) : stack'[i].node = stack[i].node
  BY <1>1, TopType, RestType
<1>3. TypeOK' /\ PhaseOK'
  BY <1>1, <1>2 DEF TypeOK, PhaseOK, Trying
<1>4. MapsRestored'
  <2>1. {stack'[i].node : i \in 1 .. Len(stack) - 1} = {stack[i].node : i \in 1 .. Len(stack) - 1}
    BY <1>2
  <2>. QED
    BY <1>2, <2>1 DEF Inv, MapsRestored, Mapped
<1>5. VisitedOnce'
  BY <1>2 DEF Inv, VisitedOnce
<1>. QED
  BY <1>3, <1>4, <1>5 DEF Inv

LEMMA MismatchedTripleInv == Inv /\ MismatchedTriple => Inv'
<1>1. SUFFICES ASSUME Inv, MismatchedTriple PROVE Inv'
  OBVIOUS
<1>. QED
  BY <1>1, CutInv DEF MismatchedTriple, Inv, TypeOK

LEMMA WriteRowInv == Inv /\ WriteRow => Inv'
<1>1. SUFFICES ASSUME Inv, WriteRow PROVE Inv'
  OBVIOUS
<1>2. PICK m \in Extended : rows' = Append(rows, m)
  BY <1>1 DEF WriteRow
<1>3. stack # << >> /\ TypeOK /\ PhaseOK /\ Trying
  BY <1>1 DEF Inv, PhaseOK, WriteRow, Trying
<1>4. m \in [TP -> Triple \cup {NULL}] /\ Mapped(m) = TP
  BY <1>1, <1>3, ExtendedType, MappedNow, AllOnStack DEF WriteRow
<1>5. m \in [TP -> Triple]
  BY <1>4 DEF Mapped
<1>6. rows' \in Seq([TP -> Triple])
  BY <1>2, <1>3, <1>5, AppendProperties DEF TypeOK
<1>. QED
  BY <1>1, <1>3, <1>6, CutInv DEF WriteRow

LEMMA ExploreInv == Inv /\ (ExploreChild \/ ExploreSibling \/ ExploreUnvisited) => Inv'
<1>1. SUFFICES ASSUME Inv, ExploreChild \/ ExploreSibling \/ ExploreUnvisited PROVE Inv'
  OBVIOUS
<1>2. stack # << >> /\ Trying /\ Top \in Frame
  BY <1>1, TopType DEF Inv, PhaseOK, Trying, ExploreChild, ExploreSibling, ExploreUnvisited
<1>3. ASSUME NEW m \in Extended, NEW u \in Unmapped(m)
      PROVE  u \notin OnStack
  BY <1>1, <1>2, <1>3, MappedNow DEF Unmapped
<1>4. CASE ExploreChild
  <2>1. PICK m \in Extended, u \in TP : u \in Unmapped(m) /\ Visit(u, Top.node, m, Waiting(m))
    BY <1>4 DEF ExploreChild, FirstIn
  <2>. QED
    BY <1>1, <1>2, <1>3, <2>1, WaitingOutside, VisitInv DEF Frame
<1>5. CASE ExploreSibling
  <2>1. PICK m \in Extended, u \in TP : u \in Unmapped(m) /\ Visit(u, Top.parent, m, Waiting(m))
    BY <1>5 DEF ExploreSibling, FirstIn
  <2>. QED
    BY <1>1, <1>2, <1>3, <2>1, WaitingOutside, VisitInv DEF Frame
<1>6. CASE ExploreUnvisited
  <2>1. PICK m \in Extended : \E u \in Refilled(m) : Visit(u, NULL, m, Refilled(m))
    BY <1>6 DEF ExploreUnvisited
  <2>2. Refilled(m) \subseteq TP \ OnStack
    BY <1>1, <1>2, WaitingOutside
  <2>. QED
    BY <1>1, <1>2, <2>1, <2>2, VisitInv
<1>. QED
  BY <1>1, <1>4, <1>5, <1>6

LEMMA ReturnInv == Inv /\ Return => Inv'
<1>1. SUFFICES ASSUME Inv, Return PROVE Inv'
  OBVIOUS
<1>. DEFINE n == Len(stack)
<1>2. /\ n \in Nat \ {0} /\ DOMAIN stack = 1 .. n /\ stack \in Seq(Frame)
      /\ \A i \in 1 .. n : stack[i] \in Frame
  BY <1>1, TopType DEF Inv, PhaseOK, TypeOK, Return
<1>3. /\ stack' = [i \in 1 .. n - 1 |-> stack[i]]
      /\ UNCHANGED <<pruned, stray, unvisited, rows>>
  BY <1>1 DEF Return
<1>4. /\ stack' \in Seq(Frame) /\ Len(stack') = n - 1 /\ DOMAIN stack' = 1 .. n - 1
      /\ \A i \in 1 .. n - 1 : stack'[i] = stack[i]
  BY <1>2, <1>3
<1>5. VisitedOnce'
  <2>1. /\ \A i, k \in 1 .. n : stack[i].node = stack[k].node => i = k
        /\ \A i \in 1 .. n : stack[i].node \notin unvisited
    BY <1>1, <1>2 DEF Inv, VisitedOnce
  <2>2. \A i \in 1 .. n - 1 : i \in 1 .. n /\ stack'[i] = stack[i]
    BY <1>2, <1>4
  <2>3. unvisited' = unvisited
    BY <1>3
  <2>. HIDE DEF n
  <2>. QED
    BY <1>4, <2>1, <2>2, <2>3 DEF VisitedOnce
<1>6. CASE n = 1
  <2>1. maps' = maps /\ phase' = "done"
    BY <1>1, <1>6 DEF Return
  <2>2. TypeOK' /\ PhaseOK' /\ MapsRestored'
    BY <1>1, <1>3, <1>4, <2>1 DEF Inv, TypeOK, PhaseOK, MapsRestored
  <2>. QED
    BY <1>5, <2>2 DEF Inv
<1>7. CASE n # 1
  <2>1. maps' = [maps EXCEPT ![Below.node] = NULL] /\ phase' = "match"
    BY <1>1, <1>7 DEF Return
  <2>2. Below = stack[n - 1] /\ n - 1 \in 1 .. n - 1 /\ Below.node \in TP
    BY <1>2, <1>7 DEF Below, Frame
  <2>3. maps \in [TP -> Triple \cup {NULL}]
    BY <1>1 DEF Inv, TypeOK
  <2>4. TypeOK'
    BY <1>1, <1>3, <1>4, <2>1, <2>2, <2>3 DEF Inv, TypeOK
  <2>5. PhaseOK'
    BY <1>4, <2>1, <2>2 DEF PhaseOK
  <2>6. Mapped(maps) = {stack[i].node : i \in 1 .. n - 1}
    BY <1>1 DEF Inv, MapsRestored, Return
  <2>7. Mapped(maps') = Mapped(maps) \ {Below.node}
    BY <2>1, <2>2, <2>3 DEF Mapped
  <2>8. \A i \in 1 .. n - 1 : stack[i].node = Below.node => i = n - 1
    <3>1. \A i, k \in 1 .. n : stack[i].node = stack[k].node => i = k
      BY <1>1, <1>2 DEF Inv, VisitedOnce
    <3>2. \A i \in 1 .. n - 1 : i \in 1 .. n
      BY <1>2
    <3>. HIDE DEF n
    <3>. QED
      BY <2>2, <3>1, <3>2
  <2>9. Mapped(maps') = {stack[i].node : i \in 1 .. n - 2}
    <3>1. \A i : i \in 1 .. n - 1 <=> i \in 1 .. n - 2 \/ i = n - 1
      BY <1>2, <1>7
    <3>n. n \in Nat
      BY <1>2
    <3>. HIDE DEF n
    <3>2. \A i \in 1 .. n - 2 : i # n - 1
      BY <3>n
    <3>. QED
      BY <2>2, <2>6, <2>7, <2>8, <3>1, <3>2
  <2>10. {stack'[i].node : i \in 1 .. Len(stack') - 1} = {stack[i].node : i \in 1 .. n - 2}
    BY <1>2, <1>4
  <2>11. MapsRestored'
    BY <2>9, <2>10 DEF MapsRestored, Mapped
  <2>. QED
    BY <1>5, <2>4, <2>5, <2>11 DEF Inv
<1>. QED
  BY <1>6, <1>7

LEMMA NextInv == Inv /\ [Next]_vars => Inv'
<1>1. SUFFICES ASSUME Inv, [Next]_vars PROVE Inv'
  OBVIOUS
<1>2. CASE UNCHANGED vars
  BY <1>1, <1>2 DEF Inv, vars, TypeOK, PhaseOK, MapsRestored, VisitedOnce, Mapped
<1>. QED
  BY <1>1, <1>2, BeginInv, BeginNowhereInv, MismatchedTripleInv, WriteRowInv, ExploreInv,
     ReturnInv DEF Next

LEMMA InvAlways == Spec => []Inv
BY InitInv, NextInv, PTL DEF Spec

----------------------------------------------------------------------------
\* The state has its type; in particular every line of the results file has a
\* triple for every pattern, though it is written when the depth of the
\* recursion says so and not when the mapping is complete.
THEOREM MatchTyped == Spec => []TypeOK
<1>1. Inv => TypeOK
  BY DEF Inv
<1>. QED
  BY <1>1, InvAlways, PTL

\* Every way back out of match_query_graph restores q_to_gr_node_map.
THEOREM MapsAlwaysRestored == Spec => []MapsRestored
<1>1. Inv => MapsRestored
  BY DEF Inv
<1>. QED
  BY <1>1, InvAlways, PTL

\* The unvisited set, which no way back restores, never leads the walk to a
\* pattern that is being matched.
THEOREM NeverVisitedTwice == Spec => []VisitedOnce
<1>1. Inv => VisitedOnce
  BY DEF Inv
<1>. QED
  BY <1>1, InvAlways, PTL

----------------------------------------------------------------------------
(***************************************************************************)
(* No row of the results is written twice.  The walk keeps no list of what *)
(* it has written; that it never comes back to a row follows from where it *)
(* stands: every row it wrote differs from what the running calls hold in  *)
(* a triple one of them has already passed.                                *)
(***************************************************************************)

\* A pattern whose predicate is a join variable has no other one: otherwise the
\* triple may be whatever is found in uninitialized memory, twice the same too.
PredicateJoinsAlone == \A t \in TP : Query[t].pred < 0 => NumJvars(t) = 1

\* The triples that call i has still to try.
Ahead(i) == {TripleOf(pruned.dimension[stack[i].node], stack[i].node, c) : c \in stack[i].todo}

\* The mapped triple of a call is one it has passed.
MapsPassed == phase = "match" =>
  \A i \in 1 .. Len(stack) - 1 : maps[stack[i].node] \notin Ahead(i)

\* The walk is past row r: up to some call r is what is mapped, and there it has
\* a triple the call has passed and left.
Past(r) ==
  \E i \in 1 .. Len(stack) :
    /\ \A k \in 1 .. i - 1 : r[stack[k].node] = maps[stack[k].node]
    /\ r[stack[i].node] \notin Ahead(i)
    /\ i < Len(stack) => r[stack[i].node] # maps[stack[i].node]

RowsPast == phase = "match" => \A n \in DOMAIN rows : Past(rows[n])

NoRowsYet == phase = "idle" => rows = << >>

OnceInv == Inv /\ NoRowsYet /\ MapsPassed /\ RowsPast /\ RowsOnce

----------------------------------------------------------------------------
(* Cells and triples.                                                      *)

\* Different cells of a bitmat are different triples.
LEMMA TripleInjective ==
  ASSUME NEW t, NEW dim \in Dimension, NEW c \in Id \X Id, NEW d \in Id \X Id,
         TripleOf(dim, t, c) = TripleOf(dim, t, d)
  PROVE  c = d
<1>1. c = <<c[1], c[2]>> /\ d = <<d[1], d[2]>>
  OBVIOUS
<1>2. CASE dim = "SPO"
  BY <1>1, <1>2 DEF TripleOf
<1>3. CASE dim = "OPS"
  BY <1>1, <1>3 DEF TripleOf
<1>4. CASE dim = "PSO"
  BY <1>1, <1>4 DEF TripleOf
<1>5. CASE dim = "POS"
  BY <1>1, <1>5 DEF TripleOf
<1>. QED
  BY <1>2, <1>3, <1>4, <1>5 DEF Dimension

\* A PSO or POS bitmat has no two join variables.
LEMMA PredicateBitmat ==
  ASSUME PredicateJoinsAlone, NEW t \in TP, NEW dim \in {"PSO", "POS"}, Oriented(dim, t)
  PROVE  NumJvars(t) # 2
<1>1. CASE Query[t].pred < 0
  BY <1>1 DEF PredicateJoinsAlone
<1>2. CASE ~(Query[t].pred < 0)
  <2>1. PICK f \in {"obj", "sub"} : {g \in Fields : Query[t][g] < 0} \subseteq {f}
    <3>1. Query[t].sub > 0 \/ Query[t].obj > 0
      BY DEF Oriented
    <3>2. Query[t].sub \in Int /\ Query[t].obj \in Int
      BY QueryType
    <3>3. CASE Query[t].sub > 0
      <4>1. {g \in Fields : Query[t][g] < 0} \subseteq {"obj"}
        BY <1>2, <3>2, <3>3 DEF Fields
      <4>. QED
        BY <4>1
    <3>4. CASE Query[t].obj > 0
      <4>1. {g \in Fields : Query[t][g] < 0} \subseteq {"sub"}
        BY <1>2, <3>2, <3>4 DEF Fields
      <4>. QED
        BY <4>1
    <3>. QED
      BY <3>1, <3>3, <3>4
  <2>2. IsFiniteSet({f}) /\ Cardinality({f}) = 1
    BY FS_Singleton
  <2>3. Cardinality({g \in Fields : Query[t][g] < 0}) <= 1
    BY <2>1, <2>2, FS_Subset
  <2>. QED
    BY <2>3 DEF NumJvars
<1>. QED
  BY <1>1, <1>2

\* The cell a call takes stands for one triple.
LEMMA OneTriple ==
  ASSUME Inv, PredicateJoinsAlone, Trying
  PROVE  /\ TriplesOf(maps, Top.node, FirstOf(Top.todo)) =
              {TripleOf(pruned.dimension[Top.node], Top.node, FirstOf(Top.todo))}
         /\ Top.node \in TP /\ Top.todo \in SUBSET (Id \X Id)
         /\ FirstOf(Top.todo) \in Top.todo
         /\ pruned.dimension[Top.node] \in Dimension
<1>1. stack # << >> /\ TypeOK
  BY DEF Inv, PhaseOK, Trying
<1>2. Top.node \in TP /\ Top.todo \in SUBSET (Id \X Id) /\ Top.todo # {}
  BY <1>1, TopType DEF Frame, Trying
<1>3. FirstOf(Top.todo) \in Top.todo
  BY <1>2, FirstOfIn
<1>4. pruned.dimension[Top.node] \in Dimension /\ Oriented(pruned.dimension[Top.node], Top.node)
  BY <1>1, <1>2 DEF TypeOK, Input
<1>5. ~(NumJvars(Top.node) = 2 /\ pruned.dimension[Top.node] \in {"PSO", "POS"})
  BY <1>2, <1>4, PredicateBitmat
<1>. QED
  BY <1>2, <1>3, <1>4, <1>5 DEF TriplesOf

\* What the step of a call that takes cell FirstOf(Top.todo) may map.
LEMMA ExtendedOnce ==
  ASSUME Inv, PredicateJoinsAlone, Trying, NEW m \in Extended
  PROVE  /\ m = [maps EXCEPT ![Top.node] =
                   TripleOf(pruned.dimension[Top.node], Top.node, FirstOf(Top.todo))]
         /\ Top.node \in TP /\ Top.todo \in SUBSET (Id \X Id)
         /\ FirstOf(Top.todo) \in Top.todo
         /\ pruned.dimension[Top.node] \in Dimension
BY OneTriple DEF Extended, Agreeing

----------------------------------------------------------------------------
(* Steps.                                                                  *)

\* What is left of the stack once the first cell of the top frame is off.
LEMMA RestFrames ==
  ASSUME TypeOK, stack # << >>
  PROVE  /\ DOMAIN Rest = DOMAIN stack
         /\ \A i \in 1 .. Len(stack) - 1 : Rest[i] = stack[i]
         /\ Rest[Len(stack)].node = Top.node
         /\ Rest[Len(stack)].todo = Top.todo \ {FirstOf(Top.todo)}
<1>. DEFINE n == Len(stack)
<1>1. n \in Nat \ {0} /\ DOMAIN stack = 1 .. n /\ Top \in Frame /\ n \in 1 .. n
  BY TopType
<1>2. Rest = [stack EXCEPT ![n] = [stack[n] EXCEPT !.todo = stack[n].todo \ {FirstOf(stack[n].todo)}]]
  BY DEF Rest
<1>3. Rest[n] = [stack[n] EXCEPT !.todo = stack[n].todo \ {FirstOf(stack[n].todo)}]
  BY <1>1, <1>2
<1>4. stack[n] \in Frame
  BY <1>1, TopType
<1>. QED
  BY <1>1, <1>2, <1>3, <1>4 DEF Top, Frame

\* The call on top has only triples to try that the others, and itself, have not
\* passed; taking the first cell off the list takes exactly one away.
LEMMA CutAhead ==
  ASSUME Inv, Trying, UNCHANGED pruned, NEW n, n = Len(stack),
         \A i \in 1 .. n : stack'[i] = Rest[i]
  PROVE  /\ \A i \in 1 .. n : stack'[i].node = stack[i].node
         /\ \A i \in 1 .. n : Ahead(i)' \subseteq Ahead(i)
         /\ TripleOf(pruned.dimension[Top.node], Top.node, FirstOf(Top.todo)) \in Ahead(n)
         /\ TripleOf(pruned.dimension[Top.node], Top.node, FirstOf(Top.todo)) \notin Ahead(n)'
<1>1. stack # << >> /\ TypeOK
  BY DEF Inv, PhaseOK, Trying
<1>2. /\ n \in Nat \ {0} /\ DOMAIN stack = 1 .. n /\ n \in 1 .. n
      /\ Top.node \in TP /\ Top.todo \in SUBSET (Id \X Id) /\ Top.todo # {}
  BY <1>1, TopType DEF Frame, Trying
<1>3. /\ \A i \in 1 .. n - 1 : stack'[i] = stack[i]
      /\ stack'[n].node = Top.node
      /\ stack'[n].todo = Top.todo \ {FirstOf(Top.todo)}
  BY <1>1, <1>2, RestFrames
<1>4. Top = stack[n]
  BY DEF Top
<1>5. \A i \in 1 .. n : i \in 1 .. n - 1 \/ i = n
  BY <1>2
<1>6. \A i \in 1 .. n : stack'[i].node = stack[i].node /\ stack'[i].todo \subseteq stack[i].todo
  BY <1>3, <1>4, <1>5
<1>7. \A i \in 1 .. n : Ahead(i)' \subseteq Ahead(i)
  BY <1>6 DEF Ahead
<1>8. FirstOf(Top.todo) \in Top.todo /\ pruned.dimension[Top.node] \in Dimension
  BY <1>1, <1>2, FirstOfIn DEF TypeOK, Input
<1>9. TripleOf(pruned.dimension[Top.node], Top.node, FirstOf(Top.todo)) \in Ahead(n)
  BY <1>4, <1>8 DEF Ahead
<1>10. TripleOf(pruned.dimension[Top.node], Top.node, FirstOf(Top.todo)) \notin Ahead(n)'
  <2>1. \A c \in Top.todo \ {FirstOf(Top.todo)} :
          TripleOf(pruned.dimension[Top.node], Top.node, c)
            # TripleOf(pruned.dimension[Top.node], Top.node, FirstOf(Top.todo))
    BY <1>2, <1>8, TripleInjective
  <2>2. Ahead(n)' = {TripleOf(pruned.dimension[Top.node], Top.node, c) :
                       c \in Top.todo \ {FirstOf(Top.todo)}}
    BY <1>3 DEF Ahead
  <2>. QED
    BY <2>1, <2>2
<1>. QED
  BY <1>6, <1>7, <1>9, <1>10

\* A row the walk is past stays so when the stack and the map stay.
LEMMA CutPast ==
  ASSUME Inv, Trying, UNCHANGED <<pruned, maps>>, stack' = Rest, NEW r, Past(r)
  PROVE  Past(r)'
<1>1. stack # << >> /\ TypeOK
  BY DEF Inv, PhaseOK, Trying
<1>2. Len(stack') = Len(stack) /\ Len(stack) \in Nat
  BY <1>1, RestType
<1>3. PICK i \in 1 .. Len(stack) :
        /\ \A k \in 1 .. i - 1 : r[stack[k].node] = maps[stack[k].node]
        /\ r[stack[i].node] \notin Ahead(i)
        /\ i < Len(stack) => r[stack[i].node] # maps[stack[i].node]
  BY DEF Past
<1>4. \A k \in 1 .. Len(stack) : stack'[k].node = stack[k].node /\ Ahead(k)' \subseteq Ahead(k)
  BY CutAhead
<1>5. \A k \in 1 .. i - 1 : k \in 1 .. Len(stack)
  BY <1>2
<1>. QED
  BY <1>2, <1>3, <1>4, <1>5 DEF Past

LEMMA MismatchedTripleOnce == ASSUME OnceInv, MismatchedTriple PROVE OnceInv'
<1>1. Inv /\ Trying /\ UNCHANGED <<pruned, maps, rows, phase>> /\ stack' = Rest
  BY DEF OnceInv, MismatchedTriple
<1>2. Inv'
  BY <1>1, MismatchedTripleInv
<1>3. stack # << >> /\ TypeOK
  BY <1>1 DEF Inv, PhaseOK, Trying
<1>4. Len(stack') = Len(stack) /\ Len(stack) \in Nat
  BY <1>1, <1>3, RestType
<1>5. MapsPassed'
  <2>1. \A i \in 1 .. Len(stack) : stack'[i].node = stack[i].node /\ Ahead(i)' \subseteq Ahead(i)
    BY <1>1, CutAhead
  <2>. QED
    BY <1>1, <1>4, <2>1 DEF OnceInv, MapsPassed
<1>6. RowsPast'
  BY <1>1, CutPast DEF OnceInv, RowsPast
<1>. QED
  BY <1>1, <1>2, <1>5, <1>6 DEF OnceInv, NoRowsYet, RowsOnce

\* The new row differs from every old one, and the walk is past it at once.
LEMMA WriteRowOnce == ASSUME OnceInv, PredicateJoinsAlone, WriteRow PROVE OnceInv'
<1>1. Inv /\ Trying /\ UNCHANGED <<pruned, maps, phase>> /\ stack' = Rest /\ phase = "match"
  BY DEF OnceInv, WriteRow, Trying
<1>2. PICK m \in Extended : rows' = Append(rows, m)
  BY DEF WriteRow
<1>3. Inv'
  BY <1>1, WriteRowInv
<1>4. stack # << >> /\ TypeOK
  BY <1>1 DEF Inv, PhaseOK, Trying
<1>0. PICK n \in Nat : n = Len(stack)
  BY <1>4, TopType
<1>5. n \in Nat \ {0} /\ DOMAIN stack = 1 .. n /\ Len(stack') = n /\ n \in 1 .. n
  BY <1>1, <1>4, <1>0, RestType, TopType
<1>. DEFINE tr == TripleOf(pruned.dimension[Top.node], Top.node, FirstOf(Top.todo))
<1>6. m = [maps EXCEPT ![Top.node] = tr] /\ Top.node \in TP /\ maps \in [TP -> Triple \cup {NULL}]
  BY <1>1, <1>4, ExtendedOnce DEF TypeOK
<1>7. /\ \A i \in 1 .. n : stack'[i].node = stack[i].node /\ Ahead(i)' \subseteq Ahead(i)
      /\ tr \in Ahead(n) /\ tr \notin Ahead(n)'
  BY <1>1, <1>0, CutAhead
<1>. HIDE DEF tr
<1>8. Top.node = stack[n].node /\ \A i \in 1 .. n - 1 : stack[i].node # Top.node /\ stack[i].node \in TP
  <2>1. \A i, k \in 1 .. n : stack[i].node = stack[k].node => i = k
    BY <1>1, <1>5 DEF Inv, VisitedOnce
  <2>2. \A i \in 1 .. n : stack[i].node \in TP
    BY <1>4, <1>0, TopType DEF Frame
  <2>3. \A i \in 1 .. n - 1 : i \in 1 .. n /\ i # n
    BY <1>5
  <2>. QED
    BY <1>0, <1>5, <2>1, <2>2, <2>3 DEF Top
<1>9. m[Top.node] = tr /\ \A i \in 1 .. n - 1 : m[stack[i].node] = maps[stack[i].node]
  BY <1>6, <1>8
<1>10. ASSUME NEW r, Past(r) PROVE r # m
  <2>1. PICK i \in 1 .. n : /\ r[stack[i].node] \notin Ahead(i)
                            /\ i < n => r[stack[i].node] # maps[stack[i].node]
    BY <1>0, <1>10 DEF Past
  <2>2. CASE i < n
    <3>1. i \in 1 .. n - 1
      BY <1>5, <2>2
    <3>. QED
      BY <1>9, <2>1, <2>2, <3>1
  <2>3. CASE i = n
    BY <1>7, <1>8, <1>9, <2>1, <2>3
  <2>. QED
    BY <1>5, <2>2, <2>3
<1>11. rows \in Seq([TP -> Triple]) /\ m \in [TP -> Triple]
  <2>1. rows' \in Seq([TP -> Triple]) /\ rows \in Seq([TP -> Triple])
    BY <1>3, <1>4 DEF Inv, TypeOK
  <2>2. m \in [TP -> Triple \cup {NULL}] /\ Mapped(m) = TP
    BY <1>1, <1>4, ExtendedType, MappedNow, AllOnStack DEF Inv, WriteRow
  <2>. QED
    BY <2>1, <2>2 DEF Mapped
<1>12. /\ Len(rows) \in Nat /\ DOMAIN rows = 1 .. Len(rows)
       /\ DOMAIN rows' = 1 .. Len(rows) + 1
       /\ \A i \in 1 .. Len(rows) : rows'[i] = rows[i]
       /\ rows'[Len(rows) + 1] = m
  BY <1>2, <1>11, AppendProperties
<1>13. \A i \in 1 .. Len(rows) + 1 : i \in 1 .. Len(rows) \/ i = Len(rows) + 1
  BY <1>12
<1>14. \A i \in 1 .. Len(rows) : Past(rows[i])
  BY <1>1, <1>12 DEF OnceInv, RowsPast
<1>15. RowsOnce'
  <2>1. \A i \in 1 .. Len(rows) : rows[i] # m
    BY <1>10, <1>14
  <2>2. \A i, k \in 1 .. Len(rows) : rows[i] = rows[k] => i = k
    BY <1>12 DEF OnceInv, RowsOnce
  <2>3. ASSUME NEW i \in 1 .. Len(rows) + 1, NEW k \in 1 .. Len(rows) + 1, rows'[i] = rows'[k]
        PROVE  i = k
    BY <1>12, <1>13, <2>1, <2>2, <2>3
  <2>. QED
    BY <1>12, <2>3 DEF RowsOnce
<1>16. RowsPast'
  <2>1. Past(m)'
    <3>1. \A k \in 1 .. n - 1 : m[stack'[k].node] = maps'[stack'[k].node]
      <4>1. \A k \in 1 .. n - 1 : k \in 1 .. n
        BY <1>5
      <4>. QED
        BY <1>1, <1>7, <1>9, <4>1
    <3>2. m[stack'[n].node] \notin Ahead(n)'
      BY <1>5, <1>7, <1>8, <1>9
    <3>. QED
      BY <1>5, <3>1, <3>2 DEF Past
  <2>2. \A i \in 1 .. Len(rows) : Past(rows[i])'
    BY <1>1, <1>12, <1>14, CutPast
  <2>. QED
    BY <1>12, <1>13, <2>1, <2>2 DEF RowsPast
<1>17. MapsPassed'
  BY <1>1, <1>0, <1>5, <1>7 DEF OnceInv, MapsPassed
<1>. QED
  BY <1>1, <1>3, <1>15, <1>16, <1>17 DEF OnceInv, NoRowsYet

\* Going on with another pattern: the triple just mapped is off the list, so the
\* walk leaves it only for good.
LEMMA VisitOnce ==
  ASSUME OnceInv, PredicateJoinsAlone, Trying, Inv', NEW m \in Extended, NEW u \in TP,
         NEW parent, NEW waiting, Visit(u, parent, m, waiting)
  PROVE  OnceInv'
<1>1. /\ Inv /\ UNCHANGED <<pruned, rows>> /\ maps' = m /\ phase = "match"
      /\ stack' = Append(Rest, [node |-> u, parent |-> parent, todo |-> Candidates(m, u)])
      /\ phase' \in {"match", "abort"}
  BY DEF OnceInv, Visit, Trying
<1>2. stack # << >> /\ TypeOK
  BY <1>1 DEF Inv, PhaseOK
<1>0. PICK n \in Nat : n = Len(stack)
  BY <1>2, TopType
<1>3. /\ n \in Nat \ {0} /\ DOMAIN stack = 1 .. n /\ n \in 1 .. n
      /\ Rest \in Seq(Frame) /\ Len(Rest) = n
  BY <1>0, <1>2, RestType, TopType
<1>4. /\ Len(stack') = n + 1
      /\ \A i \in 1 .. n : stack'[i] = Rest[i]
  <2>1. \A i \in 1 .. n : i \in DOMAIN Rest
    BY <1>3
  <2>. QED
    BY <1>1, <1>3, <2>1
<1>. DEFINE tr == TripleOf(pruned.dimension[Top.node], Top.node, FirstOf(Top.todo))
<1>5. m = [maps EXCEPT ![Top.node] = tr] /\ Top.node \in TP /\ maps \in [TP -> Triple \cup {NULL}]
  BY <1>1, <1>2, ExtendedOnce DEF TypeOK
<1>6. /\ \A i \in 1 .. n : stack'[i].node = stack[i].node /\ Ahead(i)' \subseteq Ahead(i)
      /\ tr \in Ahead(n) /\ tr \notin Ahead(n)'
  BY <1>0, <1>1, <1>4, CutAhead
<1>. HIDE DEF tr
<1>7. Top.node = stack[n].node /\ \A i \in 1 .. n - 1 : stack[i].node # Top.node /\ stack[i].node \in TP
  <2>1. \A i, k \in 1 .. n : stack[i].node = stack[k].node => i = k
    BY <1>1, <1>3 DEF Inv, VisitedOnce
  <2>2. \A i \in 1 .. n : stack[i].node \in TP
    BY <1>0, <1>2, TopType DEF Frame
  <2>3. \A i \in 1 .. n - 1 : i \in 1 .. n /\ i # n
    BY <1>3
  <2>. QED
    BY <1>0, <1>3, <2>1, <2>2, <2>3 DEF Top
<1>8. m[Top.node] = tr /\ \A i \in 1 .. n - 1 : m[stack[i].node] = maps[stack[i].node]
  BY <1>5, <1>7
<1>9. \A i \in 1 .. n : i \in 1 .. n - 1 \/ i = n
  BY <1>3
<1>10. MapsPassed'
  <2>1. ASSUME NEW i \in 1 .. n PROVE maps'[stack'[i].node] \notin Ahead(i)'
    <3>1. CASE i = n
      BY <1>1, <1>3, <1>6, <1>7, <1>8, <3>1
    <3>2. CASE i # n
      <4>1. maps[stack[i].node] \notin Ahead(i)
        BY <1>0, <1>1, <1>9, <3>2 DEF OnceInv, MapsPassed
      <4>. QED
        BY <1>1, <1>6, <1>8, <1>9, <3>2, <4>1
    <3>. QED
      BY <3>1, <3>2
  <2>2. Len(stack') - 1 = n
    BY <1>3, <1>4
  <2>. QED
    BY <2>1, <2>2 DEF MapsPassed
<1>11. RowsPast'
  <2>. SUFFICES ASSUME NEW r, Past(r) PROVE Past(r)'
    BY <1>1 DEF OnceInv, RowsPast
  <2>1. PICK i \in 1 .. n :
          /\ \A k \in 1 .. i - 1 : r[stack[k].node] = maps[stack[k].node]
          /\ r[stack[i].node] \notin Ahead(i)
          /\ i < n => r[stack[i].node] # maps[stack[i].node]
    BY <1>0 DEF Past
  <2>2. \A k \in 1 .. i - 1 : k \in 1 .. n - 1 /\ k \in 1 .. n
    BY <1>3
  <2>3. \A k \in 1 .. i - 1 : r[stack'[k].node] = maps'[stack'[k].node]
    BY <1>1, <1>6, <1>8, <2>1, <2>2
  <2>4. r[stack'[i].node] \notin Ahead(i)'
    BY <1>6, <2>1
  <2>5. r[stack'[i].node] # maps'[stack'[i].node]
    <3>1. CASE i = n
      BY <1>1, <1>6, <1>7, <1>8, <2>1, <3>1
    <3>2. CASE i # n
      BY <1>1, <1>3, <1>6, <1>8, <1>9, <2>1, <3>2
    <3>. QED
      BY <3>1, <3>2
  <2>6. i \in 1 .. n + 1
    BY <1>3
  <2>. QED
    BY <1>4, <2>3, <2>4, <2>5, <2>6 DEF Past
<1>. QED
  BY <1>1, <1>10, <1>11 DEF OnceInv, NoRowsYet, RowsOnce

\* Whichever way explore_other_nodes finds the pattern, it goes on with one.
LEMMA ExploreVisits ==
  ASSUME Inv, ExploreChild \/ ExploreSibling \/ ExploreUnvisited
  PROVE  /\ Inv' /\ Trying
         /\ \E m \in Extended, u \in TP : \E parent, waiting : Visit(u, parent, m, waiting)
<1>1. Inv' /\ Trying
  BY ExploreInv DEF ExploreChild, ExploreSibling, ExploreUnvisited
<1>2. CASE ExploreChild
  BY <1>1, <1>2 DEF ExploreChild
<1>3. CASE ExploreSibling
  BY <1>1, <1>3 DEF ExploreSibling
<1>4. CASE ExploreUnvisited
  <2>1. PICK m \in Extended : \E u \in Refilled(m) : Visit(u, NULL, m, Refilled(m))
    BY <1>4 DEF ExploreUnvisited
  <2>2. Refilled(m) \subseteq TP
    BY <1>1, WaitingOutside
  <2>. QED
    BY <1>1, <2>1, <2>2
<1>. QED
  BY <1>2, <1>3, <1>4

LEMMA ExploreOnce ==
  ASSUME OnceInv, PredicateJoinsAlone, ExploreChild \/ ExploreSibling \/ ExploreUnvisited
  PROVE  OnceInv'
BY ExploreVisits, VisitOnce DEF OnceInv

\* Back in the caller: what the call wrote has the triple the caller had mapped,
\* and that one is not tried again.
LEMMA ReturnOnce == ASSUME OnceInv, Return PROVE OnceInv'
<1>1. Inv /\ Inv' /\ UNCHANGED <<pruned, rows>> /\ phase = "match"
  BY ReturnInv DEF OnceInv, Return
<1>2. stack # << >> /\ TypeOK
  BY <1>1 DEF Inv, PhaseOK
<1>0. PICK n \in Nat : n = Len(stack)
  BY <1>2, TopType
<1>3. n \in Nat \ {0} /\ DOMAIN stack = 1 .. n /\ stack' = [i \in 1 .. n - 1 |-> stack[i]]
  BY <1>0, <1>2, TopType DEF Return
<1>4. CASE n = 1
  <2>1. phase' = "done"
    BY <1>0, <1>4 DEF Return
  <2>. QED
    BY <1>1, <2>1 DEF OnceInv, NoRowsYet, MapsPassed, RowsPast, RowsOnce
<1>5. CASE n # 1
  <2>1. maps' = [maps EXCEPT ![Below.node] = NULL] /\ phase' = "match"
    BY <1>0, <1>5 DEF Return
  <2>2. Below = stack[n - 1] /\ n - 1 \in 1 .. n - 1 /\ n - 1 \in 1 .. n
    BY <1>0, <1>3, <1>5 DEF Below
  <2>3. Len(stack') = n - 1 /\ \A i \in 1 .. n - 1 : stack'[i] = stack[i]
    BY <1>3
  <2>4. \A i \in 1 .. n - 1 : Ahead(i)' = Ahead(i)
    BY <1>1, <2>3 DEF Ahead
  <2>5. \A i \in 1 .. n - 2 : i \in 1 .. n - 1 /\ i \in 1 .. n /\ i # n - 1
    BY <1>3
  <2>6. \A i \in 1 .. n - 2 : maps'[stack[i].node] = maps[stack[i].node]
    <3>1. \A i, k \in 1 .. n : stack[i].node = stack[k].node => i = k
      BY <1>1, <1>3 DEF Inv, VisitedOnce
    <3>2. \A i \in 1 .. n : stack[i].node \in TP
      BY <1>0, <1>2, TopType DEF Frame
    <3>3. maps \in [TP -> Triple \cup {NULL}]
      BY <1>2 DEF TypeOK
    <3>. QED
      BY <2>1, <2>2, <2>5, <3>1, <3>2, <3>3
  <2>7. \A i \in 1 .. n - 1 : maps[stack[i].node] \notin Ahead(i)
    BY <1>0, <1>1 DEF OnceInv, MapsPassed
  <2>8. MapsPassed'
    <3>1. Len(stack') - 1 = n - 2
      BY <1>3, <2>3
    <3>2. \A i \in 1 .. n - 2 : maps'[stack'[i].node] \notin Ahead(i)'
      BY <2>3, <2>4, <2>5, <2>6, <2>7
    <3>. QED
      BY <3>1, <3>2 DEF MapsPassed
  <2>9. RowsPast'
    <3>. SUFFICES ASSUME NEW r, Past(r) PROVE Past(r)'
      BY <1>1 DEF OnceInv, RowsPast
    <3>1. PICK i \in 1 .. n :
            /\ \A k \in 1 .. i - 1 : r[stack[k].node] = maps[stack[k].node]
            /\ r[stack[i].node] \notin Ahead(i)
            /\ i < n => r[stack[i].node] # maps[stack[i].node]
      BY <1>0 DEF Past
    <3>2. CASE i \in 1 .. n - 2
      <4>1. \A k \in 1 .. i - 1 : k \in 1 .. n - 2 /\ k \in 1 .. n - 1
        BY <1>3, <3>2
      <4>2. i \in 1 .. n - 1 /\ i < n
        BY <1>3, <3>2
      <4>3. \A k \in 1 .. i - 1 : r[stack'[k].node] = maps'[stack'[k].node]
        BY <2>3, <2>6, <3>1, <4>1
      <4>4. r[stack'[i].node] \notin Ahead(i)' /\ r[stack'[i].node] # maps'[stack'[i].node]
        BY <2>3, <2>4, <2>6, <3>1, <3>2, <4>2
      <4>. QED
        BY <2>3, <4>2, <4>3, <4>4 DEF Past
    <3>3. CASE i \in {n - 1, n}
      <4>1. r[stack[n - 1].node] \notin Ahead(n - 1)
        <5>1. CASE i = n - 1
          BY <3>1, <5>1
        <5>2. CASE i = n
          <6>1. r[stack[n - 1].node] = maps[stack[n - 1].node]
            BY <2>2, <3>1, <5>2
          <6>. QED
            BY <2>2, <2>7, <6>1
        <5>. QED
          BY <3>3, <5>1, <5>2
      <4>2. \A k \in 1 .. n - 2 : k \in 1 .. i - 1
        BY <1>3, <3>3
      <4>3. \A k \in 1 .. (n - 1) - 1 : r[stack'[k].node] = maps'[stack'[k].node]
        <5>1. \A k : k \in 1 .. (n - 1) - 1 => k \in 1 .. n - 2
          BY <1>3
        <5>. QED
          BY <2>3, <2>5, <2>6, <3>1, <4>2, <5>1
      <4>4. r[stack'[n - 1].node] \notin Ahead(n - 1)'
        BY <2>2, <2>3, <2>4, <4>1
      <4>5. ~(n - 1 < Len(stack'))
        BY <1>3, <2>3
      <4>. QED
        BY <2>2, <2>3, <4>3, <4>4, <4>5 DEF Past
    <3>4. i \in 1 .. n - 2 \/ i \in {n - 1, n}
      BY <1>3
    <3>. QED
      BY <3>2, <3>3, <3>4
  <2>. QED
    BY <1>1, <2>1, <2>8, <2>9 DEF OnceInv, NoRowsYet, RowsOnce
<1>. QED
  BY <1>4, <1>5

LEMMA BeginOnce == ASSUME OnceInv, Begin \/ BeginNowhere PROVE OnceInv'
<1>1. Inv' /\ rows' = rows /\ rows = << >> /\ phase' # "idle"
  BY BeginInv, BeginNowhereInv DEF OnceInv, NoRowsYet, Begin, BeginNowhere
<1>2. MapsPassed'
  <2>1. CASE Begin
    <3>1. Len(stack') - 1 = 0
      BY <2>1 DEF Begin
    <3>2. 1 .. Len(stack') - 1 = {}
      BY <3>1
    <3>. QED
      BY <3>2 DEF MapsPassed
  <2>2. CASE BeginNowhere
    BY <2>2 DEF BeginNowhere, MapsPassed
  <2>. QED
    BY <2>1, <2>2
<1>. QED
  BY <1>1, <1>2 DEF OnceInv, NoRowsYet, RowsPast, RowsOnce

LEMMA InitOnce == ASSUME Init PROVE OnceInv
<1>1. Inv
  BY InitInv
<1>. QED
  BY <1>1 DEF Init, Idle, OnceInv, NoRowsYet, MapsPassed, RowsPast, RowsOnce

LEMMA NextOnce == ASSUME OnceInv, PredicateJoinsAlone, [Next]_vars PROVE OnceInv'
<1>1. CASE UNCHANGED vars
  <2>1. Inv'
    BY <1>1, NextInv DEF OnceInv
  <2>. QED
    BY <1>1, <2>1 DEF vars, OnceInv, NoRowsYet, MapsPassed, RowsPast, RowsOnce, Past, Ahead
<1>. QED
  BY <1>1, BeginOnce, MismatchedTripleOnce, WriteRowOnce, ExploreOnce, ReturnOnce DEF Next

\* Every line of the results file is a row of its own: match_query_graph, which
\* keeps no record of what it printed, never comes back to a mapping.
THEOREM NoRowTwice ==
  ASSUME PredicateJoinsAlone
  PROVE  Spec => []RowsOnce
<1>1. Init => OnceInv
  BY InitOnce
<1>2. OnceInv /\ [Next]_vars => OnceInv'
  BY NextOnce
<1>3. OnceInv => RowsOnce
  BY DEF OnceInv
<1>. QED
  BY <1>1, <1>2, <1>3, PTL DEF Spec

----------------------------------------------------------------------------
(***************************************************************************)
(* The rows matching writes are the joins of the bitmats it is given: it   *)
(* writes no other, and it misses none.                                    *)
(*                                                                         *)
(* The first takes that no edge of the query goes unchecked in the order   *)
(* the walk takes (BackEdgesSeen).  The second takes nothing of the order: *)
(* a join that is not written yet is among what the running calls have     *)
(* still to try.                                                           *)
(***************************************************************************)

\* Two patterns share a join variable, in these fields.
Share(t, f, u, g) == Query[t][f] < 0 /\ Query[t][f] = Query[u][g]

\* An edge is one from either end, and between fields that hold a variable:
\* no two patterns share one as ?a 1 ?b and ?b 2 ?a do, crosswise twice.
EdgesMeet ==
  \A t \in TP : \A u \in Range(Adj[t]) :
    /\ t \in Range(Adj[u])
    /\ Query[t][Edge(t, u)[1]] < 0
    /\ Edge(u, t) = <<Edge(t, u)[2], Edge(t, u)[1]>>

\* A single row is the row of its predicate, and its object fold is its columns.
SingleRowsTidy ==
  \A t \in TP : SingleRow(t) =>
    /\ \A c \in pruned.bm[t] : c[1] = Query[t].pred
    /\ pruned.objfold[t] = {c[2] : c \in pruned.bm[t]}

Triples(t) == {TripleOf(pruned.dimension[t], t, c) : c \in pruned.bm[t]}

\* What is mapped so far: triples of the bitmats that agree with each other.
Fits(m) ==
  \A t \in Mapped(m) :
    /\ m[t] \in Triples(t)
    /\ \A u \in Mapped(m) \cap Range(Adj[t]) : m[t][Edge(t, u)[1]] = m[u][Edge(t, u)[2]]

----------------------------------------------------------------------------
(* The graph.                                                              *)

LEMMA AdjType ==
  ASSUME NEW t \in TP
  PROVE  Range(Adj[t]) \subseteq TP /\ t \notin Range(Adj[t])
<1>1. Adj[t] \in Seq(TP)
  BY MatchAssumption
<1>2. \A i \in DOMAIN Adj[t] : Adj[t][i] \in TP /\ Adj[t][i] # t
  BY <1>1, MatchAssumption, ElementOfSeq
<1>. QED
  BY <1>2 DEF Range

LEMMA EdgeFields ==
  ASSUME NEW t, NEW u
  PROVE  Edge(t, u)[1] \in Fields /\ Edge(t, u)[2] \in Fields
BY DEF Edge, Fields

\* The field of a triple that holds a variable is a coordinate of its cell.
PosName(f) == [sub |-> "SUB", pred |-> "PRED", obj |-> "OBJ"][f]

LEMMA FieldOfTriple ==
  ASSUME NEW t \in TP, NEW f \in Fields, Query[t][f] < 0,
         NEW dim \in Dimension, Oriented(dim, t), NEW c
  PROVE  TripleOf(dim, t, c)[f] = Coord(c, JoinAxis(dim, PosName(f)))
<1>1. Query[t].sub \in Int /\ Query[t].pred \in Int /\ Query[t].obj \in Int
  BY QueryType
<1>2. CASE dim = "SPO"
  <2>1. f \in {"sub", "obj"}
    BY <1>1, <1>2 DEF Oriented, Fields
  <2>. QED
    BY <1>2, <2>1 DEF TripleOf, Coord, JoinAxis, PosName
<1>3. CASE dim = "OPS"
  <2>1. f \in {"sub", "obj"}
    BY <1>1, <1>3 DEF Oriented, Fields
  <2>. QED
    BY <1>3, <2>1 DEF TripleOf, Coord, JoinAxis, PosName
<1>4. CASE dim = "PSO"
  <2>1. f \in {"pred", "obj"}
    BY <1>1, <1>4 DEF Oriented, Fields
  <2>. QED
    BY <1>4, <2>1 DEF TripleOf, Coord, JoinAxis, PosName
<1>5. CASE dim = "POS"
  <2>1. f \in {"pred", "sub"}
    BY <1>1, <1>5 DEF Oriented, Fields
  <2>. QED
    BY <1>5, <2>1 DEF TripleOf, Coord, JoinAxis, PosName
<1>. QED
  BY <1>2, <1>3, <1>4, <1>5 DEF Dimension

----------------------------------------------------------------------------
(* The search for the triples of a pattern.                                *)

LEMMA FocusField ==
  ASSUME NEW m, NEW t \in TP, Focus(m, t) # NULL
  PROVE  /\ Focus(m, t) \in Fields
         /\ FocusId(m, t) \in Required(m, t, Focus(m, t))
<1>1. Required(m, t, Focus(m, t)) # {} /\ Focus(m, t) \in Fields
  BY DEF Focus, Fields
<1>. QED
  BY <1>1 DEF FocusId

\* A neighbour asks for an id in a field that is a variable of the pattern.
LEMMA FocusJvar ==
  ASSUME EdgesMeet, NEW m, NEW t \in TP, Focus(m, t) # NULL
  PROVE  Query[t][Focus(m, t)] < 0
<1>1. PICK u \in Mapped(m) \cap Range(Adj[t]) : Edge(t, u)[1] = Focus(m, t)
  BY FocusField DEF Required
<1>. QED
  BY <1>1 DEF EdgesMeet

\* Its triples have the id asked for where their cells have it on the axis.
LEMMA FocusCoord ==
  ASSUME EdgesMeet, NEW m, NEW t \in TP, Focus(m, t) # NULL, pruned \in Input, NEW c
  PROVE  TripleOf(pruned.dimension[t], t, c)[Focus(m, t)] = Coord(c, FocusAxis(m, t))
<1>1. pruned.dimension[t] \in Dimension /\ Oriented(pruned.dimension[t], t)
  BY DEF Input
<1>. QED
  BY <1>1, FocusField, FocusJvar, FieldOfTriple DEF FocusAxis, PosName

LEMMA CellPair ==
  ASSUME NEW t \in TP, pruned \in Input, NEW c \in pruned.bm[t]
  PROVE  c = <<c[1], c[2]>> /\ c \in Id \X Id
<1>1. pruned.bm[t] \subseteq Id \X Id
  BY DEF Input
<1>. QED
  BY <1>1

\* No cell is tried that is not one of the bitmat, unless the assertion fails.
LEMMA CandidatesIn ==
  ASSUME NEW m, NEW t \in TP, pruned \in Input, SingleRowsTidy, ~AssertFails(m, t)
  PROVE  Candidates(m, t) \subseteq pruned.bm[t]
<1>1. ASSUME ~Conflict(m, t), ByColumn(m, t), SingleRow(t)
      PROVE  <<Query[t].pred, FocusId(m, t)>> \in pruned.bm[t]
  <2>1. FocusId(m, t) \in pruned.objfold[t]
    BY <1>1 DEF AssertFails
  <2>2. PICK c \in pruned.bm[t] : c[2] = FocusId(m, t)
    BY <1>1, <2>1 DEF SingleRowsTidy
  <2>3. c[1] = Query[t].pred
    BY <1>1 DEF SingleRowsTidy
  <2>. QED
    BY <2>2, <2>3, CellPair
<1>. QED
  BY <1>1 DEF Candidates

\* A neighbour that asks in the field the search goes by gets its answer, if
\* triples are looked up at all.
LEMMA LookupAgrees ==
  ASSUME EdgesMeet, pruned \in Input, NEW m, NEW t \in TP, LookedUp(m, t),
         NEW c \in Candidates(m, t), NEW u \in Mapped(m) \cap Range(Adj[t]),
         Edge(t, u)[1] = Focus(m, t)
  PROVE  TripleOf(pruned.dimension[t], t, c)[Edge(t, u)[1]] = m[u][Edge(t, u)[2]]
<1>1. Focus(m, t) \in Fields
  BY EdgeFields
<1>2. Focus(m, t) # NULL
  BY <1>1, MatchAssumption
<1>3. ~Conflict(m, t)
  BY DEF Candidates
<1>4. m[u][Edge(t, u)[2]] = FocusId(m, t)
  <2>1. m[u][Edge(t, u)[2]] \in Required(m, t, Focus(m, t))
    BY DEF Required
  <2>. QED
    BY <1>1, <1>2, <1>3, <2>1, FocusField DEF Conflict
<1>5. Coord(c, FocusAxis(m, t)) = FocusId(m, t)
  <2>1. CASE ~ByColumn(m, t) \/ NumJvars(t) = 2
    BY <1>2, <1>3, <2>1 DEF Candidates
  <2>2. CASE ByColumn(m, t) /\ NumJvars(t) # 2
    <3>1. c = <<Query[t].pred, FocusId(m, t)>>
      BY <1>2, <1>3, <2>2 DEF Candidates, LookedUp
    <3>2. FocusAxis(m, t) = "objfold"
      BY <2>2 DEF ByColumn
    <3>. QED
      BY <3>1, <3>2 DEF Coord
  <2>. QED
    BY <2>1, <2>2
<1>. QED
  BY <1>2, <1>4, <1>5, FocusCoord

----------------------------------------------------------------------------
(* The joins.                                                              *)

IsJoin(r) ==
  /\ r \in [TP -> Triple]
  /\ \A t \in TP : r[t] \in Triples(t)
  /\ \A t \in TP : \A u \in Range(Adj[t]) : r[t][Edge(t, u)[1]] = r[u][Edge(t, u)[2]]

LEMMA TriplesType ==
  ASSUME pruned \in Input, NEW t \in TP
  PROVE  Triples(t) \subseteq Triple
<1>1. /\ pruned.dimension[t] \in Dimension /\ Oriented(pruned.dimension[t], t)
      /\ pruned.bm[t] \subseteq Id \X Id
  BY DEF Input
<1>. QED
  BY <1>1, TripleOfType DEF Triples

LEMMA JoinsAre ==
  ASSUME pruned \in Input, NEW r
  PROVE  r \in Joins <=> IsJoin(r)
<1>. DEFINE triples == [t \in TP |-> {TripleOf(pruned.dimension[t], t, c) : c \in pruned.bm[t]}]
            all     == UNION Range(triples)
<1>1. \A t \in TP : triples[t] = Triples(t)
  BY DEF Triples
<1>2. \A t \in TP : Triples(t) \subseteq all
  BY <1>1 DEF Range
<1>3. all \subseteq Triple
  BY <1>1, TriplesType DEF Range
<1>4. r \in Joins <=>
        /\ r \in [TP -> all]
        /\ \A t \in TP : r[t] \in triples[t]
        /\ \A t \in TP : \A u \in Range(Adj[t]) : r[t][Edge(t, u)[1]] = r[u][Edge(t, u)[2]]
  BY DEF Joins
<1>. HIDE DEF triples, all
<1>5. ASSUME \A t \in TP : r[t] \in Triples(t)
      PROVE  r \in [TP -> all] <=> r \in [TP -> Triple]
  BY <1>2, <1>3, <1>5, TriplesType
<1>. QED
  BY <1>1, <1>4, <1>5 DEF IsJoin

\* What the mapped neighbours ask for is what the join has.
LEMMA LookupFinds ==
  ASSUME EdgesMeet, pruned \in Input, SingleRowsTidy, stray = {}, NEW r, IsJoin(r),
         NEW m, \A t \in Mapped(m) : m[t] = r[t], NEW t \in TP
  PROVE  \E c \in Candidates(m, t) : r[t] = TripleOf(pruned.dimension[t], t, c)
<1>1. PICK c \in pruned.bm[t] : r[t] = TripleOf(pruned.dimension[t], t, c)
  BY DEF IsJoin, Triples
<1>2. ASSUME NEW f, NEW x \in Required(m, t, f)
      PROVE  x = r[t][f]
  <2>1. PICK u \in Mapped(m) \cap Range(Adj[t]) : Edge(t, u)[1] = f /\ x = m[u][Edge(t, u)[2]]
    BY <1>2 DEF Required
  <2>2. r[t][f] = r[u][Edge(t, u)[2]]
    BY <2>1 DEF IsJoin
  <2>. QED
    BY <2>1, <2>2
<1>3. ~Conflict(m, t)
  BY <1>2 DEF Conflict
<1>4. CASE Focus(m, t) = NULL
  BY <1>1, <1>3, <1>4 DEF Candidates
<1>5. CASE Focus(m, t) # NULL
  <2>1. Coord(c, FocusAxis(m, t)) = FocusId(m, t)
    BY <1>1, <1>2, <1>5, FocusField, FocusCoord
  <2>2. ASSUME ByColumn(m, t), SingleRow(t)
        PROVE  c = <<Query[t].pred, FocusId(m, t)>>
    <3>1. c[1] = Query[t].pred
      BY <2>2 DEF SingleRowsTidy
    <3>2. c[2] = FocusId(m, t)
      BY <2>1, <2>2 DEF ByColumn, Coord
    <3>. QED
      BY <3>1, <3>2, CellPair
  <2>3. c \in Candidates(m, t)
    BY <1>1, <1>3, <1>5, <2>1, <2>2 DEF Candidates
  <2>. QED
    BY <1>1, <2>3
<1>. QED
  BY <1>4, <1>5

----------------------------------------------------------------------------
(* No other row is written.                                                *)

\* The map that call i was given: the patterns of its callers.
Given(i) ==
  [t \in TP |-> IF \E k \in 1 .. i - 1 : stack[k].node = t THEN maps[t] ELSE NULL]

\* Call i tries cells it looked up in the map it was given, and no others.
KeptAt(i) ==
  \A t \in TP : \A g \in [TP -> Triple \cup {NULL}] :
    t = stack[i].node /\ g = Given(i) =>
      stack[i].todo \subseteq Candidates(g, t) /\ ~AssertFails(g, t)

Kept == phase = "match" => \A i \in 1 .. Len(stack) : KeptAt(i)

MapsFit == phase = "match" => Fits(maps)

RowsFit == \A i \in DOMAIN rows : IsJoin(rows[i])

JoinInv == Inv /\ NoRowsYet /\ SingleRowsTidy /\ Kept /\ MapsFit /\ RowsFit

\* What is tried for a pattern depends on the bitmats and on the map.
LEMMA CandidatesStay ==
  ASSUME UNCHANGED <<pruned, stray>>, NEW CONSTANT m, NEW CONSTANT t
  PROVE  Candidates(m, t)' = Candidates(m, t) /\ AssertFails(m, t)' = AssertFails(m, t)
BY DEF Candidates, AssertFails, ByColumn, FocusAxis

\* So do the joins.
LEMMA JoinsStay ==
  ASSUME UNCHANGED pruned
  PROVE  /\ SingleRowsTidy' = SingleRowsTidy /\ Joins' = Joins
         /\ \A r : IsJoin(r)' = IsJoin(r)
         /\ \A m : Fits(m)' = Fits(m)
BY DEF SingleRowsTidy, Joins, IsJoin, Fits, Triples

\* The call on top was given the map as it is.
LEMMA GivenTop ==
  ASSUME Inv, phase = "match"
  PROVE  Given(Len(stack)) = maps
<1>1. maps \in [TP -> Triple \cup {NULL}]
  BY DEF Inv, TypeOK
<1>2. Mapped(maps) = {stack[i].node : i \in 1 .. Len(stack) - 1}
  BY DEF Inv, MapsRestored
<1>3. \A t \in TP : maps[t] # NULL <=> \E k \in 1 .. Len(stack) - 1 : stack[k].node = t
  BY <1>2 DEF Mapped
<1>. QED
  BY <1>1, <1>3 DEF Given

\* The triple a call maps goes with those that are mapped.
LEMMA ExtendedFits ==
  ASSUME JoinInv, EdgesMeet, PredicateJoinsAlone, BackEdgesSeen, Trying, NEW m \in Extended
  PROVE  Fits(m)
<1>. DEFINE t  == Top.node
            c  == FirstOf(Top.todo)
            tr == TripleOf(pruned.dimension[t], t, c)
<1>1. Inv /\ phase = "match" /\ pruned \in Input /\ maps \in [TP -> Triple \cup {NULL}]
  BY DEF JoinInv, Inv, TypeOK, Trying
<1>2. m = [maps EXCEPT ![t] = tr] /\ t \in TP /\ c \in Top.todo
  BY <1>1, ExtendedOnce
<1>3. stack # << >> /\ TypeOK
  BY <1>1 DEF Inv, PhaseOK
<1>4. Len(stack) \in 1 .. Len(stack)
  BY <1>3, TopType
<1>5. Top.todo \subseteq Candidates(maps, t) /\ ~AssertFails(maps, t)
  BY <1>1, <1>2, <1>4, GivenTop DEF JoinInv, Kept, KeptAt, Top
<1>6. c \in pruned.bm[t] /\ c \in Candidates(maps, t)
  BY <1>1, <1>2, <1>5, CandidatesIn DEF JoinInv
<1>7. tr \in Triples(t)
  BY <1>6 DEF Triples
<1>8. \A u \in Compared(maps, t) : tr[Edge(t, u)[1]] = maps[u][Edge(t, u)[2]]
  <2>1. PICK x \in Agreeing : m = [maps EXCEPT ![t] = x]
    BY DEF Extended
  <2>2. x = m[t] /\ m[t] = tr
    BY <1>1, <1>2, <2>1
  <2>. QED
    BY <2>1, <2>2 DEF Agreeing, CheckBackEdges
<1>9. t \notin Mapped(maps)
  <2>1. \A i, k \in 1 .. Len(stack) : stack[i].node = stack[k].node => i = k
    BY <1>1, <1>3, TopType DEF Inv, VisitedOnce
  <2>2. \A i \in 1 .. Len(stack) - 1 : i \in 1 .. Len(stack) /\ i # Len(stack)
    <3>1. Len(stack) \in Nat
      BY <1>3, TopType
    <3>. QED
      BY <3>1
  <2>3. Mapped(maps) = {stack[i].node : i \in 1 .. Len(stack) - 1}
    BY <1>1 DEF Inv, MapsRestored
  <2>. QED
    BY <1>4, <2>1, <2>2, <2>3 DEF Top
<1>. HIDE DEF tr, c
<1>10. ASSUME NEW u \in Mapped(maps) \cap Range(Adj[t])
       PROVE  tr[Edge(t, u)[1]] = maps[u][Edge(t, u)[2]]
  <2>1. CASE u \in Compared(maps, t)
    BY <1>8, <2>1
  <2>2. CASE u \notin Compared(maps, t)
    <3>1. Edge(t, u)[1] = Focus(maps, t) /\ LookedUp(maps, t)
      BY <1>1, <2>2 DEF BackEdgesSeen
    <3>. QED
      BY <1>1, <1>2, <1>6, <3>1, LookupAgrees DEF tr
  <2>. QED
    BY <2>1, <2>2
<1>11. Mapped(m) = Mapped(maps) \cup {t} /\ m[t] = tr /\ \A u \in Mapped(maps) : m[u] = maps[u]
  <2>1. Mapped(m) = Mapped(maps) \cup {t}
    BY <1>1, <1>3, ExtendedType DEF Inv
  <2>. QED
    BY <1>1, <1>2, <1>9, <2>1 DEF Mapped
<1>12. Fits(maps) /\ Mapped(maps) \subseteq TP
  BY <1>1 DEF JoinInv, MapsFit, Mapped
<1>. HIDE DEF t
<1>13. SUFFICES ASSUME NEW x \in Mapped(m)
                PROVE  /\ m[x] \in Triples(x)
                       /\ \A u \in Mapped(m) \cap Range(Adj[x]) :
                            m[x][Edge(x, u)[1]] = m[u][Edge(x, u)[2]]
  BY DEF Fits
<1>14. m[x] \in Triples(x)
  BY <1>7, <1>11, <1>12 DEF Fits
<1>15. ASSUME NEW u \in Mapped(m) \cap Range(Adj[x])
       PROVE  m[x][Edge(x, u)[1]] = m[u][Edge(x, u)[2]]
  <2>1. x \in TP /\ u # x
    BY <1>2, <1>11, <1>12, AdjType
  <2>2. CASE x = t
    BY <1>10, <1>11, <2>1, <2>2
  <2>3. CASE x # t /\ u = t
    <3>1. x \in Range(Adj[t]) /\ Edge(t, x) = <<Edge(x, t)[2], Edge(x, t)[1]>>
      BY <2>1, <2>3 DEF EdgesMeet
    <3>2. tr[Edge(t, x)[1]] = maps[x][Edge(t, x)[2]]
      BY <1>10, <1>11, <2>3, <3>1
    <3>. QED
      BY <1>11, <2>3, <3>1, <3>2
  <2>4. CASE x # t /\ u # t
    BY <1>11, <1>12, <2>4 DEF Fits
  <2>. QED
    BY <2>2, <2>3, <2>4
<1>. QED
  BY <1>14, <1>15

----------------------------------------------------------------------------
(* What a step does to the stack.                                          *)

\* It takes the first cell off the list of the top call, the others stay.
TakesCell ==
  /\ Len(stack) \in Nat \ {0}
  /\ \A i \in 1 .. Len(stack) :
       stack'[i].node = stack[i].node /\ stack'[i].todo \subseteq stack[i].todo
  /\ \A i \in 1 .. Len(stack) - 1 : stack'[i] = stack[i]
  /\ stack'[Len(stack)].todo = stack[Len(stack)].todo \ {FirstOf(Top.todo)}

LEMMA CutStack ==
  ASSUME Inv, Trying, stack' = Rest
  PROVE  TakesCell /\ Len(stack') = Len(stack)
<1>1. stack # << >> /\ TypeOK
  BY DEF Inv, PhaseOK, Trying
<1>2. PICK n \in Nat \ {0} : n = Len(stack)
  BY <1>1, TopType
<1>3. Len(stack') = n
  BY <1>1, <1>2, RestType
<1>4. /\ \A i \in 1 .. n - 1 : stack'[i] = stack[i]
      /\ stack'[n].node = Top.node /\ stack'[n].todo = Top.todo \ {FirstOf(Top.todo)}
  BY <1>1, <1>2, RestFrames
<1>5. \A i \in 1 .. n : i \in 1 .. n - 1 \/ i = n
  BY <1>2
<1>. QED
  BY <1>2, <1>3, <1>4, <1>5 DEF Top, TakesCell

LEMMA NodesApart ==
  ASSUME Inv, stack # << >>
  PROVE  /\ Len(stack) \in Nat \ {0}
         /\ \A i \in 1 .. Len(stack) : stack[i].node \in TP
         /\ \A i, k \in 1 .. Len(stack) : stack[i].node = stack[k].node => i = k
<1>1. /\ Len(stack) \in Nat \ {0} /\ DOMAIN stack = 1 .. Len(stack)
      /\ \A i \in 1 .. Len(stack) : stack[i] \in Frame
  BY TopType DEF Inv
<1>. QED
  BY <1>1 DEF Frame, Inv, VisitedOnce

LEMMA VisitStack ==
  ASSUME Inv, PredicateJoinsAlone, Trying, NEW m \in Extended, NEW u \in TP,
         NEW parent, NEW waiting, Visit(u, parent, m, waiting)
  PROVE  /\ TakesCell /\ Len(stack') = Len(stack) + 1
         /\ stack'[Len(stack) + 1].node = u
         /\ stack'[Len(stack) + 1].todo = Candidates(m, u)
         /\ \A i \in 1 .. Len(stack) - 1 : m[stack[i].node] = maps[stack[i].node]
         /\ m[stack[Len(stack)].node] =
              TripleOf(pruned.dimension[Top.node], Top.node, FirstOf(Top.todo))
<1>. DEFINE new == [node |-> u, parent |-> parent, todo |-> Candidates(m, u)]
<1>1. stack # << >> /\ TypeOK /\ stack' = Append(Rest, new)
  BY DEF Inv, PhaseOK, Trying, Visit
<1>0. PICK n \in Nat \ {0} : n = Len(stack)
  BY <1>1, TopType
<1>2. /\ Rest \in Seq(Frame) /\ Len(Rest) = n /\ DOMAIN Rest = 1 .. n
  BY <1>0, <1>1, RestType, RestFrames, TopType
<1>3. new.node = u /\ new.todo = Candidates(m, u)
  OBVIOUS
<1>. HIDE DEF new
<1>4. /\ Len(stack') = n + 1 /\ stack'[n + 1] = new
      /\ \A i \in 1 .. n : stack'[i] = Rest[i]
  BY <1>1, <1>2
<1>5. /\ \A i \in 1 .. n - 1 : stack'[i] = stack[i]
      /\ stack'[n].node = Top.node /\ stack'[n].todo = Top.todo \ {FirstOf(Top.todo)}
  <2>1. \A i \in 1 .. n - 1 : i \in 1 .. n
    BY <1>2
  <2>2. n \in 1 .. n
    BY <1>2
  <2>. QED
    BY <1>0, <1>1, <1>4, <2>1, <2>2, RestFrames
<1>6. \A i \in 1 .. n : i \in 1 .. n - 1 \/ i = n
  BY <1>2
<1>7. Top = stack[n]
  BY <1>0 DEF Top
<1>8. /\ m = [maps EXCEPT ![Top.node] =
                TripleOf(pruned.dimension[Top.node], Top.node, FirstOf(Top.todo))]
      /\ Top.node \in TP /\ maps \in [TP -> Triple \cup {NULL}]
  BY <1>1, ExtendedOnce DEF TypeOK
<1>9. \A i \in 1 .. n - 1 : stack[i].node # Top.node /\ stack[i].node \in TP
  <2>1. \A i \in 1 .. n - 1 : i \in 1 .. n /\ i # n /\ n \in 1 .. n
    BY <1>2
  <2>. QED
    BY <1>0, <1>1, <1>7, <2>1, NodesApart
<1>10. \A i \in 1 .. n - 1 : m[stack[i].node] = maps[stack[i].node]
  BY <1>8, <1>9
<1>11. m[stack[n].node] = TripleOf(pruned.dimension[Top.node], Top.node, FirstOf(Top.todo))
  BY <1>0, <1>7, <1>8
<1>. QED
  BY <1>0, <1>3, <1>4, <1>5, <1>6, <1>7, <1>10, <1>11 DEF TakesCell

LEMMA ReturnStack ==
  ASSUME Inv, Return, NEW n, n = Len(stack), n # 1
  PROVE  /\ n \in Nat \ {0, 1} /\ Len(stack') = n - 1
         /\ \A i \in 1 .. n - 1 : stack'[i] = stack[i]
         /\ maps' = [maps EXCEPT ![stack[n - 1].node] = NULL]
         /\ stack[n - 1].node \in TP
         /\ \A i \in 1 .. n - 2 : maps'[stack[i].node] = maps[stack[i].node]
<1>1. stack # << >> /\ TypeOK
  BY DEF Inv, PhaseOK, Return
<1>2. n \in Nat \ {0, 1} /\ n - 1 \in 1 .. n
  BY <1>1, NodesApart
<1>3. stack' = [i \in 1 .. n - 1 |-> stack[i]]
  BY DEF Return
<1>4. Len(stack') = n - 1 /\ \A i \in 1 .. n - 1 : stack'[i] = stack[i]
  BY <1>2, <1>3
<1>5. maps' = [maps EXCEPT ![stack[n - 1].node] = NULL]
  BY DEF Return, Below
<1>6. \A i \in 1 .. n - 2 : i \in 1 .. n /\ i # n - 1
  BY <1>2
<1>7. maps \in [TP -> Triple \cup {NULL}]
  BY <1>1 DEF TypeOK
<1>8. /\ \A i \in 1 .. n : stack[i].node \in TP
      /\ \A i, k \in 1 .. n : stack[i].node = stack[k].node => i = k
  BY <1>1, NodesApart
<1>. QED
  BY <1>2, <1>4, <1>5, <1>6, <1>7, <1>8

----------------------------------------------------------------------------
(* Every step keeps JoinInv.                                               *)

LEMMA GivenStays ==
  ASSUME NEW i \in Nat,
         \A k \in 1 .. i - 1 : /\ stack'[k].node = stack[k].node
                               /\ maps'[stack[k].node] = maps[stack[k].node]
  PROVE  Given(i)' = Given(i)
BY DEF Given

LEMMA KeptAtStays ==
  ASSUME NEW i \in Nat, KeptAt(i), UNCHANGED <<pruned, stray>>, Given(i)' = Given(i),
         stack'[i].node = stack[i].node, stack'[i].todo \subseteq stack[i].todo
  PROVE  KeptAt(i)'
<1>1. SUFFICES ASSUME NEW t \in TP, NEW g \in [TP -> Triple \cup {NULL}],
                      t = stack'[i].node, g = Given(i)'
               PROVE  stack'[i].todo \subseteq Candidates(g, t)' /\ ~AssertFails(g, t)'
  BY DEF KeptAt
<1>2. stack[i].todo \subseteq Candidates(g, t) /\ ~AssertFails(g, t)
  BY <1>1 DEF KeptAt
<1>3. Candidates(g, t)' = Candidates(g, t) /\ AssertFails(g, t)' = AssertFails(g, t)
  BY CandidatesStay
<1>. QED
  BY <1>2, <1>3

LEMMA CutJoin ==
  ASSUME JoinInv, Inv', Trying, stack' = Rest, UNCHANGED <<pruned, stray, maps, phase>>
  PROVE  /\ NoRowsYet' /\ SingleRowsTidy' /\ Kept' /\ MapsFit'
<1>1. Inv /\ phase = "match" /\ Kept
  BY DEF JoinInv, Trying
<1>2. PICK n \in Nat \ {0} : n = Len(stack)
  BY <1>1, CutStack DEF TakesCell
<1>3. /\ Len(stack') = n
      /\ \A i \in 1 .. n :
           stack'[i].node = stack[i].node /\ stack'[i].todo \subseteq stack[i].todo
  BY <1>1, <1>2, CutStack DEF TakesCell
<1>4. ASSUME NEW i \in 1 .. n PROVE KeptAt(i)'
  <2>1. \A k \in 1 .. i - 1 : k \in 1 .. n
    OBVIOUS
  <2>2. Given(i)' = Given(i)
    BY <1>3, <2>1, GivenStays
  <2>3. KeptAt(i)
    BY <1>1, <1>2 DEF Kept
  <2>. QED
    BY <1>3, <2>2, <2>3, KeptAtStays
<1>5. Kept'
  BY <1>3, <1>4 DEF Kept
<1>6. SingleRowsTidy' /\ MapsFit'
  BY JoinsStay DEF JoinInv, MapsFit
<1>. QED
  BY <1>1, <1>5, <1>6 DEF NoRowsYet

LEMMA MismatchedTripleJoin ==
  ASSUME JoinInv, MismatchedTriple
  PROVE  JoinInv'
<1>1. Inv' /\ Trying /\ stack' = Rest /\ UNCHANGED <<pruned, stray, maps, rows, phase>>
  BY MismatchedTripleInv DEF JoinInv, MismatchedTriple
<1>2. RowsFit'
  BY <1>1, JoinsStay DEF JoinInv, RowsFit
<1>. QED
  BY <1>1, <1>2, CutJoin DEF JoinInv

LEMMA WriteRowJoin ==
  ASSUME JoinInv, EdgesMeet, PredicateJoinsAlone, BackEdgesSeen, WriteRow
  PROVE  JoinInv'
<1>1. Inv /\ Inv' /\ Trying /\ stack' = Rest /\ UNCHANGED <<pruned, stray, maps, phase>>
  BY WriteRowInv DEF JoinInv, WriteRow
<1>2. PICK m \in Extended : rows' = Append(rows, m)
  BY DEF WriteRow
<1>3. stack # << >> /\ TypeOK
  BY <1>1 DEF Inv, PhaseOK, Trying
<1>4. m \in [TP -> Triple \cup {NULL}] /\ Mapped(m) = TP
  BY <1>1, <1>3, ExtendedType, MappedNow, AllOnStack DEF Inv, WriteRow
<1>5. Fits(m)
  BY <1>1, ExtendedFits
<1>6. IsJoin(m)
  <2>1. m \in [TP -> Triple]
    BY <1>4 DEF Mapped
  <2>2. \A t \in TP : \A u \in Range(Adj[t]) : u \in Mapped(m)
    BY <1>4, AdjType
  <2>. QED
    BY <1>4, <1>5, <2>1, <2>2 DEF IsJoin, Fits
<1>7. rows \in Seq([TP -> Triple])
  BY <1>3 DEF TypeOK
<1>8. m \in [TP -> Triple]
  BY <1>6 DEF IsJoin
<1>9. /\ Len(rows) \in Nat /\ DOMAIN rows = 1 .. Len(rows)
      /\ DOMAIN rows' = 1 .. Len(rows) + 1
      /\ \A i \in 1 .. Len(rows) : rows'[i] = rows[i]
      /\ rows'[Len(rows) + 1] = m
  BY <1>2, <1>7, <1>8, AppendProperties
<1>10. RowsFit'
  <2>1. ASSUME NEW i \in 1 .. Len(rows) + 1 PROVE IsJoin(rows'[i])
    BY <1>6, <1>9 DEF JoinInv, RowsFit
  <2>2. \A r : IsJoin(r)' = IsJoin(r)
    BY <1>1, JoinsStay
  <2>. QED
    BY <1>9, <2>1, <2>2 DEF RowsFit
<1>. QED
  BY <1>1, <1>10, CutJoin DEF JoinInv

LEMMA VisitJoin ==
  ASSUME JoinInv, EdgesMeet, PredicateJoinsAlone, BackEdgesSeen, Trying, Inv',
         NEW m \in Extended, NEW u \in TP, NEW parent, NEW waiting,
         Visit(u, parent, m, waiting)
  PROVE  JoinInv'
<1>1. /\ Inv /\ UNCHANGED <<pruned, stray, rows>> /\ maps' = m /\ phase = "match"
      /\ phase' = IF AssertFails(m, u) THEN "abort" ELSE "match"
  BY DEF JoinInv, Visit, Trying
<1>2. PICK n \in Nat : n = Len(stack)
  BY <1>1, NodesApart DEF Inv, PhaseOK
<1>3. /\ n \in Nat \ {0} /\ Len(stack') = n + 1
      /\ \A i \in 1 .. n :
           stack'[i].node = stack[i].node /\ stack'[i].todo \subseteq stack[i].todo
      /\ stack'[n + 1].node = u /\ stack'[n + 1].todo = Candidates(m, u)
      /\ \A i \in 1 .. n - 1 : m[stack[i].node] = maps[stack[i].node]
  <2>1. TakesCell
    BY <1>1, VisitStack
  <2>. QED
    BY <1>1, <1>2, <2>1, VisitStack DEF TakesCell
<1>4. m \in [TP -> Triple \cup {NULL}] /\ Mapped(m) = OnStack
  BY <1>1, ExtendedType, MappedNow DEF Inv
<1>5. ASSUME NEW i \in 1 .. n PROVE KeptAt(i)'
  <2>1. \A k \in 1 .. i - 1 : k \in 1 .. n /\ k \in 1 .. n - 1
    BY <1>3
  <2>2. Given(i)' = Given(i)
    BY <1>1, <1>3, <2>1, GivenStays
  <2>3. KeptAt(i)
    BY <1>1, <1>2 DEF JoinInv, Kept
  <2>. QED
    BY <1>1, <1>3, <2>2, <2>3, KeptAtStays
<1>6. ASSUME phase' = "match" PROVE KeptAt(n + 1)'
  <2>1. Given(n + 1)' = m
    <3>1. Mapped(m) = {stack[k].node : k \in 1 .. n}
      BY <1>1, <1>2, <1>4, TopType DEF OnStack, Inv, PhaseOK
    <3>2. \A t \in TP : m[t] # NULL <=> \E k \in 1 .. n : stack'[k].node = t
      BY <1>3, <3>1 DEF Mapped
    <3>3. (n + 1) - 1 = n
      BY <1>2
    <3>4. Given(n + 1)' = [t \in TP |-> IF \E k \in 1 .. n : stack'[k].node = t THEN m[t] ELSE NULL]
      BY <1>1, <3>3 DEF Given
    <3>. QED
      BY <1>4, <3>2, <3>4
  <2>2. ~AssertFails(m, u)
    BY <1>1, <1>6
  <2>3. Candidates(m, u)' = Candidates(m, u) /\ AssertFails(m, u)' = AssertFails(m, u)
    BY <1>1, CandidatesStay
  <2>4. SUFFICES ASSUME NEW t \in TP, NEW g \in [TP -> Triple \cup {NULL}],
                        t = stack'[n + 1].node, g = Given(n + 1)'
                 PROVE  stack'[n + 1].todo \subseteq Candidates(g, t)' /\ ~AssertFails(g, t)'
    BY DEF KeptAt
  <2>5. t = u /\ g = m
    BY <1>3, <2>1, <2>4
  <2>. QED
    BY <1>3, <2>2, <2>3, <2>5
<1>7. Kept'
  <2>1. \A i \in 1 .. n + 1 : i \in 1 .. n \/ i = n + 1
    BY <1>2
  <2>. QED
    BY <1>3, <1>5, <1>6, <2>1 DEF Kept
<1>8. MapsFit'
  <2>1. Fits(m)
    BY ExtendedFits
  <2>2. Fits(m)' = Fits(m)
    BY <1>1, JoinsStay
  <2>3. Fits(maps)' = Fits(m)'
    BY <1>1 DEF Fits, Mapped
  <2>. QED
    BY <2>1, <2>2, <2>3 DEF MapsFit
<1>9. SingleRowsTidy' /\ RowsFit' /\ NoRowsYet'
  <2>1. phase' # "idle"
    BY <1>1
  <2>. QED
    BY <1>1, <2>1, JoinsStay DEF JoinInv, RowsFit, NoRowsYet
<1>. QED
  BY <1>7, <1>8, <1>9 DEF JoinInv

LEMMA ExploreJoin ==
  ASSUME JoinInv, EdgesMeet, PredicateJoinsAlone, BackEdgesSeen,
         ExploreChild \/ ExploreSibling \/ ExploreUnvisited
  PROVE  JoinInv'
BY ExploreVisits, VisitJoin DEF JoinInv

LEMMA ReturnJoin ==
  ASSUME JoinInv, Return
  PROVE  JoinInv'
<1>1. /\ Inv /\ Inv' /\ UNCHANGED <<pruned, stray, rows>>
      /\ phase = "match" /\ phase' # "idle"
  BY ReturnInv DEF JoinInv, Return
<1>2. PICK n \in Nat : n = Len(stack)
  BY <1>1, NodesApart DEF Inv, PhaseOK
<1>3. SingleRowsTidy' /\ RowsFit' /\ NoRowsYet'
  BY <1>1, JoinsStay DEF JoinInv, RowsFit, NoRowsYet
<1>4. CASE n = 1
  <2>1. phase' = "done"
    BY <1>2, <1>4 DEF Return
  <2>. QED
    BY <1>1, <1>3, <2>1 DEF JoinInv, Kept, MapsFit
<1>5. CASE n # 1
  <2>1. /\ n \in Nat \ {0, 1} /\ Len(stack') = n - 1
        /\ \A i \in 1 .. n - 1 : stack'[i] = stack[i]
        /\ maps' = [maps EXCEPT ![stack[n - 1].node] = NULL]
        /\ stack[n - 1].node \in TP
        /\ \A i \in 1 .. n - 2 : maps'[stack[i].node] = maps[stack[i].node]
    BY <1>1, <1>2, <1>5, ReturnStack
  <2>2. ASSUME NEW i \in 1 .. n - 1 PROVE KeptAt(i)'
    <3>1. \A k \in 1 .. i - 1 : k \in 1 .. n - 2 /\ k \in 1 .. n - 1
      BY <2>1
    <3>2. Given(i)' = Given(i)
      BY <2>1, <3>1, GivenStays
    <3>3. KeptAt(i)
      <4>1. i \in 1 .. n
        BY <2>1
      <4>. QED
        BY <1>1, <1>2, <4>1 DEF JoinInv, Kept
    <3>. QED
      BY <1>1, <2>1, <3>2, <3>3, KeptAtStays
  <2>3. Kept'
    BY <2>1, <2>2 DEF Kept
  <2>4. MapsFit'
    <3>1. Fits(maps) /\ maps \in [TP -> Triple \cup {NULL}]
      BY <1>1 DEF JoinInv, MapsFit, Inv, TypeOK
    <3>2. Mapped(maps') \subseteq Mapped(maps) /\ \A t \in Mapped(maps') : maps'[t] = maps[t]
      BY <2>1, <3>1 DEF Mapped
    <3>3. \A t : Triples(t)' = Triples(t)
      BY <1>1 DEF Triples
    <3>4. Fits(maps)' <=> \A t \in Mapped(maps') :
            /\ maps'[t] \in Triples(t)
            /\ \A u \in Mapped(maps') \cap Range(Adj[t]) :
                 maps'[t][Edge(t, u)[1]] = maps'[u][Edge(t, u)[2]]
      BY <3>3 DEF Fits, Mapped
    <3>. QED
      BY <3>1, <3>2, <3>4 DEF MapsFit, Fits
  <2>. QED
    BY <1>1, <1>3, <2>3, <2>4 DEF JoinInv
<1>. QED
  BY <1>4, <1>5

\* The first call tries all cells of its bitmat, and nothing asks it for an id.
LEMMA BeginJoin ==
  ASSUME JoinInv, Begin
  PROVE  JoinInv'
<1>1. /\ Inv /\ Inv' /\ UNCHANGED <<pruned, maps, rows>> /\ phase = "idle" /\ phase' = "match"
      /\ maps = [u \in TP |-> NULL]
  BY BeginInv DEF JoinInv, Begin, Inv, PhaseOK
<1>2. PICK t \in TP : stack' = << [node |-> t, parent |-> NULL, todo |-> pruned.bm[t]] >>
  BY DEF Begin
<1>3. Len(stack') = 1 /\ stack'[1].node = t /\ stack'[1].todo = pruned.bm[t]
  BY <1>2
<1>. DEFINE none == [u \in TP |-> NULL]
<1>4. Mapped(none) = {}
  BY DEF Mapped
<1>5. \A f : Required(none, t, f) = {}
  BY <1>4 DEF Required
<1>6. ~Conflict(none, t) /\ Focus(none, t) = NULL
  BY <1>5 DEF Conflict, Focus
<1>7. Candidates(none, t)' = pruned.bm[t] /\ ~AssertFails(none, t)'
  BY <1>1, <1>6 DEF Candidates, AssertFails, ByColumn
<1>8. Given(1)' = none
  <2>1. 1 .. 1 - 1 = {}
    OBVIOUS
  <2>. QED
    BY <2>1 DEF Given
<1>9. Kept'
  BY <1>3, <1>7, <1>8 DEF Kept, KeptAt
<1>10. MapsFit'
  <2>1. Mapped(maps') = {}
    BY <1>1, <1>4
  <2>. QED
    BY <2>1 DEF MapsFit, Fits, Mapped
<1>. QED
  BY <1>1, <1>9, <1>10, JoinsStay DEF JoinInv, RowsFit, NoRowsYet

LEMMA IdleJoin ==
  ASSUME JoinInv, BeginNowhere \/ UNCHANGED vars
  PROVE  JoinInv'
<1>1. CASE BeginNowhere
  <2>1. Inv' /\ UNCHANGED <<pruned, rows>> /\ phase' = "crash"
    BY <1>1, BeginNowhereInv DEF JoinInv, BeginNowhere
  <2>. QED
    BY <2>1, JoinsStay DEF JoinInv, NoRowsYet, Kept, MapsFit, RowsFit
<1>2. CASE UNCHANGED vars
  <2>1. Inv' /\ UNCHANGED <<pruned, stray, maps, stack, rows, phase>>
    BY <1>2, NextInv DEF JoinInv, vars
  <2>2. Kept'
    <3>1. \A i \in 1 .. Len(stack) : i \in Nat
      OBVIOUS
    <3>2. ASSUME phase = "match", NEW i \in 1 .. Len(stack) PROVE KeptAt(i)'
      <4>1. Given(i)' = Given(i)
        BY <2>1 DEF Given
      <4>. QED
        BY <2>1, <3>1, <3>2, <4>1, KeptAtStays DEF JoinInv, Kept
    <3>. QED
      BY <2>1, <3>2 DEF Kept
  <2>3. MapsFit'
    BY <2>1 DEF JoinInv, MapsFit, Fits, Mapped, Triples
  <2>. QED
    BY <2>1, <2>2, <2>3, JoinsStay DEF JoinInv, NoRowsYet, RowsFit
<1>. QED
  BY <1>1, <1>2

LEMMA InitJoin ==
  ASSUME Init, SingleRowsTidy
  PROVE  JoinInv
<1>1. Inv /\ phase = "idle" /\ rows = << >>
  BY InitInv DEF Init, Idle
<1>. QED
  BY <1>1 DEF JoinInv, NoRowsYet, Kept, MapsFit, RowsFit

LEMMA NextJoin ==
  ASSUME JoinInv, EdgesMeet, PredicateJoinsAlone, BackEdgesSeen, [Next]_vars
  PROVE  JoinInv'
BY BeginJoin, IdleJoin, MismatchedTripleJoin, WriteRowJoin, ExploreJoin, ReturnJoin DEF Next

\* match_query_graph and check_back_edges between them check every edge: as long
\* as the walk keeps to BackEdgesSeen, every line it prints is a join of the
\* bitmats it was given, whatever it mapped and took back in between.
THEOREM RowsOnlyJoins ==
  ASSUME EdgesMeet, PredicateJoinsAlone
  PROVE  Spec /\ SingleRowsTidy /\ []BackEdgesSeen => [](Range(rows) \subseteq Joins)
<1>1. Init /\ SingleRowsTidy => JoinInv
  BY InitJoin
<1>2. JoinInv /\ BackEdgesSeen /\ [Next]_vars => JoinInv'
  BY NextJoin
<1>3. JoinInv => Range(rows) \subseteq Joins
  BY JoinsAre DEF JoinInv, Inv, TypeOK, RowsFit, Range
<1>. QED
  BY <1>1, <1>2, <1>3, PTL DEF Spec

----------------------------------------------------------------------------
(* The neighbours agree on what they ask for.                              *)

\* What build_graph_new makes of a query whose patterns share one variable each
\* with another, at most: neighbours are the patterns that share one.
GraphOfQuery ==
  \A t, u \in TP : t # u =>
    (u \in Range(Adj[t]) <=> \E f, g \in Fields : Share(t, f, u, g))

SharedOnce ==
  \A t, u \in TP : t # u =>
    \A f, g \in Fields : Share(t, f, u, g) => Edge(t, u) = <<f, g>>

LEMMA SharedEdges ==
  ASSUME GraphOfQuery, SharedOnce
  PROVE  /\ EdgesMeet
         /\ \A t \in TP : \A u \in Range(Adj[t]) : Share(t, Edge(t, u)[1], u, Edge(t, u)[2])
<1>1. SUFFICES ASSUME NEW t \in TP, NEW u \in Range(Adj[t])
               PROVE  /\ t \in Range(Adj[u])
                      /\ Query[t][Edge(t, u)[1]] < 0
                      /\ Edge(u, t) = <<Edge(t, u)[2], Edge(t, u)[1]>>
                      /\ Share(t, Edge(t, u)[1], u, Edge(t, u)[2])
  BY DEF EdgesMeet
<1>2. u \in TP /\ u # t
  BY AdjType
<1>3. PICK f \in Fields, g \in Fields : Share(t, f, u, g)
  BY <1>2 DEF GraphOfQuery
<1>4. Share(u, g, t, f)
  BY <1>3 DEF Share
<1>5. Edge(t, u) = <<f, g>> /\ Edge(u, t) = <<g, f>>
  BY <1>2, <1>3, <1>4 DEF SharedOnce
<1>6. t \in Range(Adj[u])
  BY <1>2, <1>4 DEF GraphOfQuery
<1>. QED
  BY <1>3, <1>5, <1>6 DEF Share

\* Two neighbours that ask in the same field share the variable that is there.
LEMMA FitsNoConflict ==
  ASSUME GraphOfQuery, SharedOnce, NEW m, Fits(m), NEW t \in TP
  PROVE  ~Conflict(m, t)
<1>1. SUFFICES ASSUME NEW f \in Fields, NEW x \in Required(m, t, f), NEW y \in Required(m, t, f)
               PROVE  x = y
  BY DEF Conflict
<1>2. PICK u \in Mapped(m) \cap Range(Adj[t]) : Edge(t, u)[1] = f /\ x = m[u][Edge(t, u)[2]]
  BY DEF Required
<1>3. PICK v \in Mapped(m) \cap Range(Adj[t]) : Edge(t, v)[1] = f /\ y = m[v][Edge(t, v)[2]]
  BY DEF Required
<1>. DEFINE g == Edge(t, u)[2]
            h == Edge(t, v)[2]
<1>4. Share(t, f, u, g) /\ Share(t, f, v, h)
  BY <1>2, <1>3, SharedEdges
<1>5. Share(u, g, v, h) /\ g \in Fields /\ h \in Fields /\ u \in TP /\ v \in TP
  BY <1>4, EdgeFields, AdjType DEF Share
<1>6. CASE u = v
  BY <1>2, <1>3, <1>6
<1>7. CASE u # v
  <2>1. v \in Range(Adj[u]) /\ Edge(u, v) = <<g, h>>
    BY <1>5, <1>7 DEF GraphOfQuery, SharedOnce
  <2>. HIDE DEF g, h
  <2>2. m[u][g] = m[v][h]
    BY <2>1 DEF Fits
  <2>. QED
    BY <1>2, <1>3, <2>2 DEF g, h
<1>. QED
  BY <1>6, <1>7

\* "FATAL ERROR.. this kind of thing should have never happened": indeed it does
\* not, as long as BackEdgesSeen holds and no two patterns share two variables.
THEOREM NoFatalError ==
  ASSUME GraphOfQuery, SharedOnce, PredicateJoinsAlone
  PROVE  Spec /\ SingleRowsTidy /\ []BackEdgesSeen => []NeverFatal
<1>1. Init /\ SingleRowsTidy => JoinInv
  BY InitJoin
<1>2. JoinInv /\ BackEdgesSeen /\ [Next]_vars => JoinInv'
  BY SharedEdges, NextJoin
<1>3. JoinInv => NeverFatal
  <2>1. SUFFICES ASSUME JoinInv, phase = "match" PROVE ~Conflict(maps, Top.node)
    BY DEF NeverFatal
  <2>2. Top.node \in TP /\ Fits(maps)
    BY <2>1, TopType DEF JoinInv, Inv, PhaseOK, MapsFit, Frame
  <2>. QED
    BY <2>2, FitsNoConflict
<1>. QED
  BY <1>1, <1>2, <1>3, PTL DEF Spec

----------------------------------------------------------------------------
(* No join is missed.                                                      *)

\* The walk is to come to join r: up to some call r is what is mapped, and there
\* it has a triple the call has still to try.
Future(r) ==
  \E i \in 1 .. Len(stack) :
    /\ \A k \in 1 .. i - 1 : r[stack[k].node] = maps[stack[k].node]
    /\ r[stack[i].node] \in Ahead(i)

JoinsAhead ==
  /\ phase = "match" => \A r : IsJoin(r) => r \in Range(rows) \/ Future(r)
  /\ phase = "done" => \A r : IsJoin(r) => r \in Range(rows)

AheadInv == Inv /\ SingleRowsTidy /\ JoinsAhead

\* The walk does not turn away from a join: the triple of the top call that is
\* one of its is accepted.
LEMMA JoinAgrees ==
  ASSUME Inv, Trying, NEW r, IsJoin(r), \A t \in Mapped(maps) : r[t] = maps[t]
  PROVE  CheckBackEdges(maps, Top.node, r[Top.node])
<1>1. Top.node \in TP
  BY NodesApart DEF Inv, PhaseOK, Trying, Top
<1>2. SUFFICES ASSUME NEW u \in Compared(maps, Top.node)
               PROVE  r[Top.node][Edge(Top.node, u)[1]] = maps[u][Edge(Top.node, u)[2]]
  BY DEF CheckBackEdges
<1>3. u \in Range(Adj[Top.node]) /\ u \in Mapped(maps)
  <2>1. \A k \in DOMAIN Adj[Top.node] : k \in 1 .. k
    <3>1. Adj[Top.node] \in Seq(TP)
      BY <1>1, MatchAssumption
    <3>2. \A k \in DOMAIN Adj[Top.node] : k \in Nat \ {0}
      BY <3>1
    <3>. QED
      BY <3>2
  <2>. QED
    BY <2>1 DEF Compared, Range
<1>. QED
  BY <1>1, <1>3 DEF IsJoin

\* What is mapped are the triples of the callers.
LEMMA BelowTop ==
  ASSUME Inv, phase = "match", NEW r,
         \A k \in 1 .. Len(stack) - 1 : r[stack[k].node] = maps[stack[k].node]
  PROVE  \A t \in Mapped(maps) : r[t] = maps[t]
BY DEF Inv, MapsRestored

\* Join r is the one of the cell the top call takes next.
AtCell(r) ==
  /\ \A k \in 1 .. Len(stack) - 1 : r[stack[k].node] = maps[stack[k].node]
  /\ r[Top.node] = TripleOf(pruned.dimension[Top.node], Top.node, FirstOf(Top.todo))

\* When the call has taken its cell, a join the walk is to come to is the one of
\* that cell or still to come.
LEMMA TakenFuture ==
  ASSUME NEW r, Future(r), TakesCell, UNCHANGED pruned,
         Len(stack') \in {Len(stack), Len(stack) + 1},
         \A i \in 1 .. Len(stack) - 1 : maps'[stack[i].node] = maps[stack[i].node]
  PROVE  AtCell(r) \/ Future(r)'
<1>0. PICK n \in Nat \ {0} : n = Len(stack)
  BY DEF TakesCell
<1>1. PICK i \in 1 .. n : /\ \A k \in 1 .. i - 1 : r[stack[k].node] = maps[stack[k].node]
                          /\ r[stack[i].node] \in Ahead(i)
  BY <1>0 DEF Future
<1>2. PICK c \in stack[i].todo :
        r[stack[i].node] = TripleOf(pruned.dimension[stack[i].node], stack[i].node, c)
  BY <1>1 DEF Ahead
<1>3. CASE i = n /\ c = FirstOf(Top.todo)
  BY <1>0, <1>1, <1>2, <1>3 DEF AtCell, Top
<1>4. CASE ~(i = n /\ c = FirstOf(Top.todo))
  <2>1. i \in 1 .. n - 1 \/ i = n
    OBVIOUS
  <2>2. c \in stack'[i].todo
    BY <1>0, <1>2, <1>4, <2>1 DEF TakesCell
  <2>3. r[stack'[i].node] \in Ahead(i)'
    BY <1>0, <1>2, <2>2 DEF Ahead, TakesCell
  <2>4. \A k \in 1 .. i - 1 : k \in 1 .. n - 1 /\ k \in 1 .. n
    OBVIOUS
  <2>5. \A k \in 1 .. i - 1 : r[stack'[k].node] = maps'[stack'[k].node]
    BY <1>0, <1>1, <2>4 DEF TakesCell
  <2>6. i \in 1 .. Len(stack')
    BY <1>0
  <2>. QED
    BY <2>3, <2>5, <2>6 DEF Future
<1>. QED
  BY <1>3, <1>4

LEMMA CutFuture ==
  ASSUME Inv, Trying, stack' = Rest, UNCHANGED <<pruned, maps>>, NEW r, Future(r)
  PROVE  AtCell(r) \/ Future(r)'
BY CutStack, TakenFuture

LEMMA MismatchedTripleAhead ==
  ASSUME AheadInv, PredicateJoinsAlone, MismatchedTriple
  PROVE  AheadInv'
<1>1. /\ Inv /\ Inv' /\ Trying /\ stack' = Rest /\ phase = "match"
      /\ UNCHANGED <<pruned, stray, maps, rows, phase>>
  BY MismatchedTripleInv DEF AheadInv, MismatchedTriple, Trying
<1>2. ASSUME NEW r, IsJoin(r), AtCell(r)
      PROVE  FALSE
  <2>1. CheckBackEdges(maps, Top.node, r[Top.node])
    BY <1>1, <1>2, BelowTop, JoinAgrees DEF AtCell
  <2>2. TriplesOf(maps, Top.node, FirstOf(Top.todo)) = {r[Top.node]}
    BY <1>1, <1>2, OneTriple DEF AtCell
  <2>. QED
    BY <2>1, <2>2 DEF MismatchedTriple, Agreeing
<1>3. JoinsAhead'
  BY <1>1, <1>2, CutFuture, JoinsStay DEF AheadInv, JoinsAhead
<1>. QED
  BY <1>1, <1>3, JoinsStay DEF AheadInv

\* The last triple completes the join.
LEMMA WriteRowAhead ==
  ASSUME AheadInv, PredicateJoinsAlone, WriteRow
  PROVE  AheadInv'
<1>1. /\ Inv /\ Inv' /\ Trying /\ stack' = Rest /\ phase = "match"
      /\ UNCHANGED <<pruned, stray, maps, phase>>
  BY WriteRowInv DEF AheadInv, WriteRow, Trying
<1>2. PICK m \in Extended : rows' = Append(rows, m)
  BY DEF WriteRow
<1>3. stack # << >> /\ TypeOK /\ maps \in [TP -> Triple \cup {NULL}]
  BY <1>1 DEF Inv, PhaseOK, Trying, TypeOK
<1>4. m \in [TP -> Triple \cup {NULL}] /\ Mapped(m) = TP
  BY <1>1, <1>3, ExtendedType, MappedNow, AllOnStack DEF Inv, WriteRow
<1>5. rows \in Seq([TP -> Triple]) /\ m \in [TP -> Triple]
  BY <1>3, <1>4 DEF TypeOK, Mapped
<1>6. Range(rows') = Range(rows) \cup {m}
  <2>1. /\ Len(rows) \in Nat /\ DOMAIN rows = 1 .. Len(rows)
        /\ DOMAIN rows' = 1 .. Len(rows) + 1
        /\ \A i \in 1 .. Len(rows) : rows'[i] = rows[i]
        /\ rows'[Len(rows) + 1] = m
    BY <1>2, <1>5, AppendProperties
  <2>2. \A i \in 1 .. Len(rows) + 1 : i \in 1 .. Len(rows) \/ i = Len(rows) + 1
    BY <2>1
  <2>3. \A i \in 1 .. Len(rows) : i \in 1 .. Len(rows) + 1
    BY <2>1
  <2>4. Len(rows) + 1 \in 1 .. Len(rows) + 1
    BY <2>1
  <2>. QED
    BY <2>1, <2>2, <2>3, <2>4 DEF Range
<1>7. ASSUME NEW r, IsJoin(r), AtCell(r)
      PROVE  r = m
  <2>1. \A t \in Mapped(maps) : r[t] = maps[t]
    BY <1>1, <1>7, BelowTop DEF AtCell
  <2>2. /\ m = [maps EXCEPT ![Top.node] = r[Top.node]]
        /\ Mapped(m) = Mapped(maps) \cup {Top.node}
    BY <1>1, <1>3, <1>7, ExtendedOnce, ExtendedType DEF AtCell, Inv
  <2>3. \A t \in TP : m[t] = r[t]
    BY <1>3, <1>4, <2>1, <2>2
  <2>. QED
    BY <1>5, <1>7, <2>3 DEF IsJoin
<1>8. JoinsAhead'
  BY <1>1, <1>6, <1>7, CutFuture, JoinsStay DEF AheadInv, JoinsAhead
<1>. QED
  BY <1>1, <1>8, JoinsStay DEF AheadInv

\* The search for the next pattern finds the triple of the join.
LEMMA VisitAhead ==
  ASSUME AheadInv, EdgesMeet, PredicateJoinsAlone, stray = {}, Trying, Inv',
         NEW m \in Extended, NEW u \in TP, NEW parent, NEW waiting,
         Visit(u, parent, m, waiting)
  PROVE  AheadInv'
<1>1. /\ Inv /\ UNCHANGED <<pruned, stray, rows>> /\ maps' = m /\ phase = "match"
      /\ phase' \in {"abort", "match"}
  BY DEF AheadInv, Visit, Trying
<1>2. PICK n \in Nat : n = Len(stack)
  BY <1>1, NodesApart DEF Inv, PhaseOK
<1>3. /\ n \in Nat \ {0} /\ TakesCell /\ Len(stack') = n + 1
      /\ stack'[n + 1].node = u /\ stack'[n + 1].todo = Candidates(m, u)
      /\ \A i \in 1 .. n - 1 : m[stack[i].node] = maps[stack[i].node]
      /\ m[stack[n].node] = TripleOf(pruned.dimension[Top.node], Top.node, FirstOf(Top.todo))
  <2>1. TakesCell
    BY <1>1, VisitStack
  <2>. QED
    BY <1>1, <1>2, <2>1, VisitStack DEF TakesCell
<1>4. pruned \in Input /\ SingleRowsTidy /\ Top = stack[n]
  BY <1>1, <1>2 DEF AheadInv, Inv, TypeOK, Top
<1>5. ASSUME NEW r, IsJoin(r), AtCell(r)
      PROVE  Future(r)'
  <2>1. \A k \in 1 .. n : r[stack[k].node] = m[stack[k].node]
    <3>1. \A k \in 1 .. n : k \in 1 .. n - 1 \/ k = n
      BY <1>2
    <3>. QED
      BY <1>2, <1>3, <1>4, <1>5, <3>1 DEF AtCell
  <2>2. Mapped(m) = {stack[k].node : k \in 1 .. n}
    BY <1>1, <1>2, MappedNow, TopType DEF OnStack, Inv, PhaseOK
  <2>3. \E c \in Candidates(m, u) : r[u] = TripleOf(pruned.dimension[u], u, c)
    BY <1>4, <1>5, <2>1, <2>2, LookupFinds
  <2>4. r[stack'[n + 1].node] \in Ahead(n + 1)'
    BY <1>1, <1>3, <2>3 DEF Ahead
  <2>5. \A k \in 1 .. (n + 1) - 1 : r[stack'[k].node] = maps'[stack'[k].node]
    <3>1. \A k \in 1 .. (n + 1) - 1 : k \in 1 .. n
      BY <1>2
    <3>. QED
      BY <1>1, <1>2, <1>3, <2>1, <3>1 DEF TakesCell
  <2>6. n + 1 \in 1 .. Len(stack')
    BY <1>3
  <2>. QED
    BY <2>4, <2>5, <2>6 DEF Future
<1>6. ASSUME NEW r, Future(r)
      PROVE  AtCell(r) \/ Future(r)'
  BY <1>1, <1>2, <1>3, <1>6, TakenFuture
<1>7. JoinsAhead'
  BY <1>1, <1>5, <1>6, JoinsStay DEF AheadInv, JoinsAhead
<1>. QED
  BY <1>1, <1>7, JoinsStay DEF AheadInv

LEMMA ExploreAhead ==
  ASSUME AheadInv, EdgesMeet, PredicateJoinsAlone, stray = {},
         ExploreChild \/ ExploreSibling \/ ExploreUnvisited
  PROVE  AheadInv'
BY ExploreVisits, VisitAhead DEF AheadInv

\* A call with nothing left to try has no join ahead: those to come are the
\* callers'.
LEMMA ReturnAhead ==
  ASSUME AheadInv, Return
  PROVE  AheadInv'
<1>1. /\ Inv /\ Inv' /\ UNCHANGED <<pruned, rows>> /\ phase = "match" /\ Top.todo = {}
  BY ReturnInv DEF AheadInv, Return
<1>2. PICK n \in Nat \ {0} : n = Len(stack)
  BY <1>1, NodesApart DEF Inv, PhaseOK
<1>3. ASSUME NEW r, Future(r)
      PROVE  \E i \in 1 .. n - 1 :
               /\ \A k \in 1 .. i - 1 : r[stack[k].node] = maps[stack[k].node]
               /\ r[stack[i].node] \in Ahead(i)
  <2>1. PICK i \in 1 .. n : /\ \A k \in 1 .. i - 1 : r[stack[k].node] = maps[stack[k].node]
                            /\ r[stack[i].node] \in Ahead(i)
    BY <1>2, <1>3 DEF Future
  <2>2. i # n
    BY <1>1, <1>2, <2>1 DEF Ahead, Top
  <2>. QED
    BY <2>1, <2>2
<1>4. CASE n = 1
  <2>1. phase' = "done"
    BY <1>2, <1>4 DEF Return
  <2>2. \A r : ~Future(r)
    BY <1>3, <1>4
  <2>3. JoinsAhead'
    BY <1>1, <2>1, <2>2, JoinsStay DEF AheadInv, JoinsAhead
  <2>. QED
    BY <1>1, <2>3, JoinsStay DEF AheadInv
<1>5. CASE n # 1
  <2>1. /\ Len(stack') = n - 1 /\ phase' = "match"
        /\ \A i \in 1 .. n - 1 : stack'[i] = stack[i]
        /\ \A i \in 1 .. n - 2 : maps'[stack[i].node] = maps[stack[i].node]
    BY <1>1, <1>2, <1>5, ReturnStack DEF Return
  <2>2. ASSUME NEW r, Future(r)
        PROVE  Future(r)'
    <3>1. PICK i \in 1 .. n - 1 :
            /\ \A k \in 1 .. i - 1 : r[stack[k].node] = maps[stack[k].node]
            /\ r[stack[i].node] \in Ahead(i)
      BY <1>3, <2>2
    <3>2. \A k \in 1 .. i - 1 : k \in 1 .. n - 2 /\ k \in 1 .. n - 1
      BY <1>2
    <3>3. r[stack'[i].node] \in Ahead(i)'
      BY <1>1, <2>1, <3>1 DEF Ahead
    <3>4. \A k \in 1 .. i - 1 : r[stack'[k].node] = maps'[stack'[k].node]
      BY <2>1, <3>1, <3>2
    <3>. QED
      BY <2>1, <3>3, <3>4 DEF Future
  <2>3. JoinsAhead'
    BY <1>1, <2>1, <2>2, JoinsStay DEF AheadInv, JoinsAhead
  <2>. QED
    BY <1>1, <2>3, JoinsStay DEF AheadInv
<1>. QED
  BY <1>4, <1>5

\* All joins are ahead of the first call, which tries all cells of its bitmat.
LEMMA BeginAhead ==
  ASSUME AheadInv, Begin \/ BeginNowhere
  PROVE  AheadInv'
<1>1. Inv' /\ UNCHANGED <<pruned, rows>>
  BY BeginInv, BeginNowhereInv DEF AheadInv, Begin, BeginNowhere
<1>2. CASE BeginNowhere
  BY <1>1, <1>2, JoinsStay DEF AheadInv, JoinsAhead, BeginNowhere
<1>3. CASE Begin
  <2>1. PICK t \in TP : stack' = << [node |-> t, parent |-> NULL, todo |-> pruned.bm[t]] >>
    BY <1>3 DEF Begin
  <2>2. Len(stack') = 1 /\ stack'[1].node = t /\ stack'[1].todo = pruned.bm[t]
    BY <2>1
  <2>3. Ahead(1)' = Triples(t)
    BY <1>1, <2>2 DEF Ahead, Triples
  <2>4. ASSUME NEW r, IsJoin(r)
        PROVE  Future(r)'
    <3>1. r[stack'[1].node] \in Ahead(1)'
      BY <2>2, <2>3, <2>4 DEF IsJoin
    <3>2. 1 .. 1 - 1 = {} /\ 1 \in 1 .. Len(stack')
      BY <2>2
    <3>. QED
      BY <3>1, <3>2 DEF Future
  <2>5. phase' = "match"
    BY <1>3 DEF Begin
  <2>. QED
    BY <1>1, <2>4, <2>5, JoinsStay DEF AheadInv, JoinsAhead
<1>. QED
  BY <1>2, <1>3

LEMMA InitAhead ==
  ASSUME Init, SingleRowsTidy
  PROVE  AheadInv
<1>1. Inv /\ phase = "idle"
  BY InitInv DEF Init, Idle
<1>. QED
  BY <1>1 DEF AheadInv, JoinsAhead

LEMMA NextAhead ==
  ASSUME AheadInv, EdgesMeet, PredicateJoinsAlone, stray = {}, [Next]_vars
  PROVE  AheadInv'
<1>1. CASE UNCHANGED vars
  <2>1. Inv' /\ UNCHANGED <<pruned, maps, stack, rows, phase>>
    BY <1>1, NextInv DEF AheadInv, vars
  <2>2. \A r : Future(r)' = Future(r)
    BY <2>1 DEF Future, Ahead
  <2>. QED
    BY <2>1, <2>2, JoinsStay DEF AheadInv, JoinsAhead
<1>. QED
  BY <1>1, BeginAhead, MismatchedTripleAhead, WriteRowAhead, ExploreAhead, ReturnAhead DEF Next

\* The walk misses no join: whatever it maps, takes back and leaves unvisited, and
\* though check_back_edges may look at too few neighbours, every join of the
\* bitmats is printed by the time it ends, if no unset bitmat2 is searched.
THEOREM NoJoinMissed ==
  ASSUME EdgesMeet, PredicateJoinsAlone
  PROVE  Spec /\ SingleRowsTidy /\ [](stray = {})
           => [](phase = "done" => Joins \subseteq Range(rows))
<1>1. Init /\ SingleRowsTidy => AheadInv
  BY InitAhead
<1>2. AheadInv /\ stray = {} /\ [Next]_vars => AheadInv'
  BY NextAhead
<1>3. AheadInv => (phase = "done" => Joins \subseteq Range(rows))
  BY JoinsAre DEF AheadInv, Inv, TypeOK, JoinsAhead
<1>. QED
  BY <1>1, <1>2, <1>3, PTL DEF Spec

\* The results file has a line for every join and no other, each once.
THEOREM RowsAreTheJoins ==
  ASSUME EdgesMeet, PredicateJoinsAlone
  PROVE  Spec /\ SingleRowsTidy /\ []BackEdgesSeen /\ [](stray = {}) => []RowsAreJoins
<1>1. ASSUME TypeOK, RowsOnce, Range(rows) = Joins
      PROVE  Len(rows) = Cardinality(Joins)
  <2>1. Len(rows) \in Nat /\ DOMAIN rows = 1 .. Len(rows) /\ rows \in [1 .. Len(rows) -> Range(rows)]
    BY <1>1 DEF TypeOK, Range
  <2>2. rows \in Bijection(1 .. Len(rows), Joins)
    <3>1. rows \in [1 .. Len(rows) -> Joins]
      BY <1>1, <2>1
    <3>2. \A i, k \in 1 .. Len(rows) : rows[i] = rows[k] => i = k
      BY <1>1, <2>1 DEF RowsOnce
    <3>3. \A r \in Joins : \E i \in 1 .. Len(rows) : rows[i] = r
      BY <1>1, <2>1 DEF Range
    <3>. QED
      BY <3>1, <3>2, <3>3, Zenon DEF Bijection, Injection, Surjection, IsInjective
  <2>3. IsFiniteSet(1 .. Len(rows)) /\ Cardinality(1 .. Len(rows)) = Len(rows)
    BY <2>1, FS_Interval
  <2>4. ExistsBijection(1 .. Len(rows), Joins)
    BY <2>2 DEF ExistsBijection
  <2>. QED
    BY <2>3, <2>4, FS_Bijection
<1>2. TypeOK /\ RowsOnce /\ Range(rows) \subseteq Joins
        /\ (phase = "done" => Joins \subseteq Range(rows)) => RowsAreJoins
  BY <1>1 DEF RowsAreJoins
<1>. QED
  BY <1>2, MatchTyped, NoRowTwice, RowsOnlyJoins, NoJoinMissed, PTL

----------------------------------------------------------------------------
(* Stars.                                                                  *)

\* A star: every pattern joins on one variable, and none has a free predicate
\* besides, so that no bitmat2 is missing.
Star == (\A t \in TP : NumJvars(t) = 1) /\ WithoutBitmat2 = {}

\* init_tp_nodes_new loads a pattern with one join variable and a free position by
\* that variable.
LoadedByJvar ==
  \A t \in TP : NumJvars(t) = 1 /\ Query[t].pred > 0 /\ ~SingleRow(t) =>
    /\ Query[t].sub < 0 => pruned.dimension[t] = "SPO"
    /\ Query[t].obj < 0 => pruned.dimension[t] = "OPS"

LEMMA OneVariable ==
  ASSUME NEW t \in TP, NumJvars(t) = 1
  PROVE  \E f \in Fields : {g \in Fields : Query[t][g] < 0} = {f}
<1>. DEFINE jvars == {g \in Fields : Query[t][g] < 0}
<1>1. IsFiniteSet(jvars)
  <2>1. IsFiniteSet({"sub"}) /\ IsFiniteSet({"pred"}) /\ IsFiniteSet({"obj"})
    BY FS_Singleton
  <2>2. IsFiniteSet(({"sub"} \cup {"pred"}) \cup {"obj"})
    <3>1. IsFiniteSet({"sub"} \cup {"pred"})
      BY <2>1, FS_Union
    <3>. QED
      BY <2>1, <3>1, FS_Union
  <2>3. jvars \subseteq ({"sub"} \cup {"pred"}) \cup {"obj"}
    BY DEF Fields
  <2>. HIDE DEF jvars
  <2>. QED
    BY <2>2, <2>3, FS_Subset
<1>2. Cardinality(jvars) = 1
  BY DEF NumJvars
<1>. HIDE DEF jvars
<1>3. PICK f : jvars = {f}
  BY <1>1, <1>2, FS_Singleton
<1>. QED
  BY <1>3 DEF jvars

LEMMA OneJvar ==
  ASSUME Star, NEW t \in TP
  PROVE  \E f \in Fields : {g \in Fields : Query[t][g] < 0} = {f}
BY OneVariable DEF Star

\* A pattern with one join variable has a row of its bitmat for each id there, or is a
\* single row: it is looked up by that variable without a bitmat2.
LEMMA LooksUpOwn ==
  ASSUME LoadedByJvar, WithoutBitmat2 = {}, pruned \in Input, NEW t \in TP, NumJvars(t) = 1,
         NEW f \in Fields, {g \in Fields : Query[t][g] < 0} = {f}, NEW m, Focus(m, t) = f
  PROVE  LookedUp(m, t)
<1>. SUFFICES ASSUME ~SingleRow(t), FocusAxis(m, t) = "objfold" PROVE FALSE
  BY DEF LookedUp, ByColumn
<1>1. /\ Query[t].sub \in Int /\ Query[t].pred \in Int /\ Query[t].obj \in Int
      /\ Query[t][f] < 0 /\ \A g \in Fields : Query[t][g] < 0 => g = f
  BY QueryType
<1>2. pruned.dimension[t] \in Dimension /\ Oriented(pruned.dimension[t], t)
  BY DEF Input
<1>3. CASE f = "pred"
  <2>1. ~Oriented("SPO", t) /\ ~Oriented("OPS", t)
    BY <1>1, <1>3 DEF Oriented
  <2>2. pruned.dimension[t] \in {"PSO", "POS"}
    BY <1>2, <2>1 DEF Dimension
  <2>. QED
    BY <1>3, <2>2 DEF FocusAxis, JoinAxis
<1>4. CASE f # "pred"
  <2>1. ~(Query[t].pred < 0) /\ Query[t].pred # 0
    BY <1>1, <1>4 DEF WithoutBitmat2, Fields
  <2>2. Query[t].pred > 0
    BY <1>1, <2>1
  <2>3. \/ f = "sub" /\ pruned.dimension[t] = "SPO"
        \/ f = "obj" /\ pruned.dimension[t] = "OPS"
    BY <1>1, <1>4, <2>2 DEF LoadedByJvar, Fields
  <2>. QED
    BY <2>3 DEF FocusAxis, JoinAxis
<1>. QED
  BY <1>3, <1>4

\* All neighbours of a pattern of a star ask in the one field it joins on, and
\* its bitmat has a row for each id there.
LEMMA StarBackEdges ==
  ASSUME EdgesMeet, Star, LoadedByJvar, Inv
  PROVE  BackEdgesSeen
<1>. DEFINE t == Top.node
<1>1. SUFFICES ASSUME phase = "match", NEW u \in Mapped(maps) \cap Range(Adj[t])
               PROVE  Edge(t, u)[1] = Focus(maps, t) /\ LookedUp(maps, t)
  BY DEF BackEdgesSeen
<1>2. t \in TP /\ pruned \in Input
  BY <1>1, NodesApart DEF Inv, PhaseOK, Top, TypeOK
<1>3. PICK f \in Fields : {g \in Fields : Query[t][g] < 0} = {f}
  BY <1>2, OneJvar
<1>4. \A v \in Range(Adj[t]) : Edge(t, v)[1] = f
  BY <1>2, <1>3, EdgeFields DEF EdgesMeet
<1>5. Required(maps, t, f) # {} /\ \A g : g # f => Required(maps, t, g) = {}
  BY <1>1, <1>4 DEF Required
<1>6. Focus(maps, t) = f
  BY <1>5 DEF Focus, Fields
<1>7. LookedUp(maps, t)
  BY <1>2, <1>3, <1>6, LooksUpOwn DEF Star
<1>. QED
  BY <1>1, <1>4, <1>6, <1>7

\* check_back_edges looks at every edge to a mapped neighbour in the walk of a star,
\* whatever its order.
THEOREM StarEdgesSeen ==
  ASSUME EdgesMeet, Star
  PROVE  Spec /\ LoadedByJvar => []BackEdgesSeen
<1>1. LoadedByJvar /\ [Next]_vars => LoadedByJvar'
  <2>1. [Next]_vars => UNCHANGED pruned
    BY DEF Next, vars, Begin, BeginNowhere, MismatchedTriple, WriteRow, ExploreChild,
       ExploreSibling, ExploreUnvisited, Visit, Return
  <2>. QED
    BY <2>1 DEF LoadedByJvar
<1>2. Inv /\ LoadedByJvar => BackEdgesSeen
  BY StarBackEdges
<1>. QED
  BY <1>1, <1>2, InvAlways, PTL DEF Spec

\* Of a star the results file has every join and no other, each once, whatever
\* the order of the walk.
THEOREM StarRowsAreTheJoins ==
  ASSUME EdgesMeet, Star
  PROVE  Spec /\ SingleRowsTidy /\ LoadedByJvar => []RowsAreJoins
<1>1. PredicateJoinsAlone
  BY DEF Star, PredicateJoinsAlone
<1>2. Init => stray = {}
  BY DEF Init, Idle
<1>3. stray = {} /\ [Next]_vars => (stray = {})'
  <2>1. Begin => stray' = {}
    BY DEF Begin, Star
  <2>. QED
    BY <2>1 DEF Next, vars, BeginNowhere, MismatchedTriple, WriteRow, ExploreChild,
       ExploreSibling, ExploreUnvisited, Visit, Return
<1>4. Spec /\ LoadedByJvar => []BackEdgesSeen
  BY StarEdgesSeen
<1>5. Spec /\ SingleRowsTidy /\ []BackEdgesSeen /\ [](stray = {}) => []RowsAreJoins
  BY <1>1, RowsAreTheJoins
<1>. QED
  BY <1>2, <1>3, <1>4, <1>5, PTL DEF Spec
----------------------------------------------------------------------------
(***************************************************************************)
(* Acyclic queries.                                                        *)
(*                                                                         *)
(* If every triple of a pattern has one of each neighbour to go with, as   *)
(* prune_triples_sim leaves the bitmats, then no call is without a cell,   *)
(* every cell leads to a row, and so all patterns are visited before any   *)
(* call returns.  The mapped patterns hang together then, and a pattern    *)
(* reaches them through one of its variables only: the one its triples     *)
(* are looked up by.  What backtracking does not restore (unvisited) and   *)
(* what check_back_edges does not look at are not missed.                  *)
(***************************************************************************)

\* A tree edge is an edge of the query.
WalksEdges == \A s, t \in TP : Range(TreeEdges[s][t]) \subseteq Range(Adj[t])

Consistent ==
  \A t \in TP : \A u \in Range(Adj[t]) : \A tr \in Triples(t) :
    \E x \in Triples(u) : tr[Edge(t, u)[1]] = x[Edge(t, u)[2]]

AcyclicWalk ==
  /\ Acyclic /\ GraphOfQuery /\ SharedOnce /\ WalksEdges
  /\ PredicateJoinsAlone /\ WithoutBitmat2 = {}

\* Each call is at a neighbour of the pattern of an earlier one.
Kin ==
  \A i \in 2 .. Len(stack) : \E k \in 1 .. i - 1 : stack[i].node \in Range(Adj[stack[k].node])

\* The parent a call was given is the pattern of an earlier one.
Parents ==
  \A i \in 1 .. Len(stack) :
    stack[i].parent # NULL => \E k \in 1 .. i - 1 : stack[k].node = stack[i].parent

\* A pattern that waits is a neighbour of a mapped one.
Near == \A u \in unvisited : \E k \in 1 .. Len(stack) - 1 : u \in Range(Adj[stack[k].node])

\* While patterns wait, the running call has tried none of its cells.
Fresh == unvisited # {} => Top.todo = Candidates(maps, Top.node)

TreeInv ==
  /\ JoinInv /\ LoadedByJvar /\ Consistent /\ stray = {}
  /\ phase = "match" => Kin /\ Parents /\ Near /\ Fresh /\ \A t \in TP : pruned.bm[t] # {}

\* A pattern with a variable in a field has another, or no other.
LEMMA OneOrTwo ==
  ASSUME PredicateJoinsAlone, NEW t \in TP, NEW f \in Fields, Query[t][f] < 0, NumJvars(t) # 2
  PROVE  NumJvars(t) = 1 /\ {g \in Fields : Query[t][g] < 0} = {f}
<1>. DEFINE jvars == {g \in Fields : Query[t][g] < 0}
<1>1. f \in jvars
  OBVIOUS
<1>2. CASE Query[t].pred < 0
  <2>1. NumJvars(t) = 1
    BY <1>2 DEF PredicateJoinsAlone
  <2>2. \E g \in Fields : jvars = {g}
    BY <2>1, OneVariable
  <2>. HIDE DEF jvars
  <2>3. jvars = {f}
    BY <1>1, <2>2
  <2>. QED
    BY <2>1, <2>3 DEF jvars
<1>3. CASE ~(Query[t].pred < 0)
  <2>1. jvars \subseteq {"sub", "obj"}
    BY <1>3 DEF Fields
  <2>2. jvars # {"sub", "obj"}
    <3>. SUFFICES ASSUME jvars = {"sub", "obj"} PROVE Cardinality(jvars) = 2
      BY DEF NumJvars
    <3>. HIDE DEF jvars
    <3>1. IsFiniteSet({"obj"}) /\ Cardinality({"obj"}) = 1 /\ "sub" \notin {"obj"}
      BY FS_Singleton
    <3>2. Cardinality({"obj"} \cup {"sub"}) = Cardinality({"obj"}) + 1
      BY <3>1, FS_AddElement
    <3>3. {"obj"} \cup {"sub"} = {"sub", "obj"}
      OBVIOUS
    <3>. QED
      BY <3>1, <3>2, <3>3
  <2>. HIDE DEF jvars
  <2>3. jvars = {f}
    BY <1>1, <2>1, <2>2
  <2>4. Cardinality(jvars) = 1
    BY <2>3, FS_Singleton
  <2>. QED
    BY <2>3, <2>4 DEF jvars, NumJvars
<1>. QED
  BY <1>2, <1>3

\* The mapped neighbours of the running call's pattern share one variable with it: two
\* variables would be linked by the pattern and by the mapped ones, which hang together.
LEMMA OneWayIn ==
  ASSUME Inv, phase = "match", Kin, Acyclic, GraphOfQuery, SharedOnce, NEW t, t = Top.node,
         NEW u \in Mapped(maps) \cap Range(Adj[t]), NEW v \in Mapped(maps) \cap Range(Adj[t])
  PROVE  Edge(t, u)[1] = Edge(t, v)[1]
<1>. DEFINE e == Edge(t, u)[1]
            f == Edge(t, v)[1]
            i == Query[t][e]
            j == Query[t][f]
<1>. SUFFICES ASSUME e # f PROVE FALSE
  OBVIOUS
<1>1. PICK n \in Nat \ {0} : n = Len(stack)
  BY NodesApart DEF Inv, PhaseOK
<1>2. /\ t \in TP /\ \A k \in 1 .. n : stack[k].node \in TP
      /\ \A k, l \in 1 .. n : stack[k].node = stack[l].node => k = l
      /\ t = stack[n].node
  <2>1. stack # << >> /\ n \in 1 .. n
    BY <1>1 DEF Inv, PhaseOK
  <2>. QED
    BY <1>1, <2>1, NodesApart DEF Top
<1>3. /\ e \in Fields /\ f \in Fields /\ i < 0 /\ j < 0 /\ u \in TP /\ v \in TP
      /\ Share(t, e, u, Edge(t, u)[2]) /\ Share(t, f, v, Edge(t, v)[2])
      /\ Edge(t, u)[2] \in Fields /\ Edge(t, v)[2] \in Fields
  BY <1>2, SharedEdges, EdgeFields, AdjType DEF EdgesMeet
<1>4. i # j
  <2>. SUFFICES ASSUME i = j PROVE FALSE
    OBVIOUS
  <2>1. Share(t, f, u, Edge(t, u)[2])
    BY <1>3 DEF Share
  <2>2. t # u
    BY <1>2, AdjType
  <2>3. Edge(t, u) = <<e, Edge(t, u)[2]>> /\ Edge(t, u) = <<f, Edge(t, u)[2]>>
    BY <1>2, <1>3, <2>1, <2>2 DEF SharedOnce
  <2>. QED
    BY <2>3
<1>5. i \in Jvar /\ j \in Jvar /\ Mentions(t, i) /\ Mentions(t, j) /\ Mentions(u, i) /\ Mentions(v, j)
  BY <1>2, <1>3 DEF Jvar, Mentions, Share
<1>. HIDE DEF e, f, i, j
<1>6. PICK C \in SUBSET Jvar : i \in C /\ j \notin C /\ \A p \in TP \ {t} : ~Crosses(p, C)
  BY <1>2, <1>4, <1>5 DEF Acyclic
<1>. DEFINE In(p) == \E x \in C : Mentions(p, x)
            Bad   == {k \in 1 .. n - 1 : ~(In(stack[k].node) <=> In(stack[1].node))}
<1>7. Bad = {}
  <2>. SUFFICES ASSUME Bad # {} PROVE FALSE
    OBVIOUS
  <2>0. Bad \subseteq Nat
    OBVIOUS
  <2>1. PICK k \in Bad : \A l \in Bad : k <= l
    BY <2>0, LeastExists
  <2>2. k \in 2 .. n /\ k \in 1 .. n /\ k # n /\ 1 \in 1 .. n - 1
    <3>1. k \in 1 .. n - 1 /\ k # 1
      OBVIOUS
    <3>. QED
      BY <3>1
  <2>3. PICK l \in 1 .. k - 1 : stack[k].node \in Range(Adj[stack[l].node])
    BY <1>1, <2>2 DEF Kin
  <2>4. l \in 1 .. n - 1 /\ l \in 1 .. n /\ l # n /\ l < k
    BY <2>2
  <2>5. In(stack[l].node) <=> In(stack[1].node)
    <3>1. l \notin Bad
      BY <2>1, <2>2, <2>4
    <3>. QED
      BY <2>4, <3>1
  <2>. DEFINE p == stack[k].node
              q == stack[l].node
  <2>6. p \in TP \ {t} /\ q \in TP \ {t}
    <3>1. p # t /\ q # t
      <4>1. n \in 1 .. n
        BY <2>2
      <4>. QED
        BY <1>2, <2>2, <2>4, <4>1
    <3>. QED
      BY <1>2, <2>2, <2>4, <3>1
  <2>7. PICK x \in Jvar : Mentions(p, x) /\ Mentions(q, x)
    <3>. HIDE DEF p, q
    <3>1. p \in Range(Adj[q])
      BY <2>3 DEF p, q
    <3>2. Share(q, Edge(q, p)[1], p, Edge(q, p)[2])
      BY <2>6, <3>1, SharedEdges
    <3>. QED
      BY <2>6, <3>2, EdgeFields DEF Share, Jvar, Mentions
  <2>8. ~Crosses(p, C) /\ ~Crosses(q, C)
    BY <1>6, <2>6
  <2>9. In(p) <=> In(q)
    BY <2>7, <2>8 DEF Crosses
  <2>10. ~(In(p) <=> In(stack[1].node))
    BY <2>1
  <2>. QED
    BY <2>5, <2>9, <2>10
<1>8. \A p \in Mapped(maps) : /\ p \in TP \ {t}
                              /\ In(p) <=> In(stack[1].node)
  <2>. SUFFICES ASSUME NEW p \in Mapped(maps) PROVE p \in TP \ {t} /\ (In(p) <=> In(stack[1].node))
    OBVIOUS
  <2>1. PICK k \in 1 .. n - 1 : p = stack[k].node
    BY <1>1 DEF Inv, MapsRestored
  <2>2. k \notin Bad /\ k \in 1 .. n /\ k # n /\ n \in 1 .. n
    BY <1>7
  <2>3. In(p) <=> In(stack[1].node)
    BY <2>1, <2>2
  <2>. QED
    BY <1>2, <2>1, <2>2, <2>3
<1>9. In(u)
  BY <1>5, <1>6
<1>10. ~In(v)
  <2>1. ~Crosses(v, C)
    BY <1>6, <1>8
  <2>. QED
    BY <1>5, <1>6, <2>1 DEF Crosses
<1>. QED
  BY <1>8, <1>9, <1>10

\* So the triples of that pattern are looked up by the field in which every mapped
\* neighbour asks.
LEMMA TreeLooksUp ==
  ASSUME Inv, phase = "match", Kin, AcyclicWalk, LoadedByJvar, NEW t, t = Top.node,
         NEW u \in Mapped(maps) \cap Range(Adj[t])
  PROVE  Edge(t, u)[1] = Focus(maps, t) /\ LookedUp(maps, t)
<1>. DEFINE f == Edge(t, u)[1]
<1>1. t \in TP /\ pruned \in Input
  BY NodesApart DEF Inv, PhaseOK, Top, TypeOK
<1>2. f \in Fields /\ Query[t][f] < 0
  BY <1>1, SharedEdges, EdgeFields DEF AcyclicWalk, EdgesMeet
<1>3. \A v \in Mapped(maps) \cap Range(Adj[t]) : Edge(t, v)[1] = f
  BY OneWayIn DEF AcyclicWalk
<1>. HIDE DEF f
<1>4. Required(maps, t, f) # {} /\ \A g : g # f => Required(maps, t, g) = {}
  BY <1>3 DEF Required, f
<1>5. Focus(maps, t) = f
  BY <1>2, <1>4 DEF Focus, Fields
<1>6. LookedUp(maps, t)
  <2>1. CASE NumJvars(t) = 2
    BY <2>1 DEF LookedUp
  <2>2. CASE NumJvars(t) # 2
    BY <1>1, <1>2, <1>5, <2>2, OneOrTwo, LooksUpOwn DEF AcyclicWalk
  <2>. QED
    BY <2>1, <2>2
<1>. QED
  BY <1>5, <1>6 DEF f

LEMMA TreeBackEdges ==
  ASSUME AcyclicWalk, TreeInv
  PROVE  BackEdgesSeen
<1>. SUFFICES ASSUME phase = "match", NEW u \in Mapped(maps) \cap Range(Adj[Top.node])
              PROVE  Edge(Top.node, u)[1] = Focus(maps, Top.node) /\ LookedUp(maps, Top.node)
  BY DEF BackEdgesSeen
<1>. QED
  BY TreeLooksUp DEF TreeInv, JoinInv

\* No call is without a cell to try: its neighbours have only triples it can go with.
LEMMA HasCandidates ==
  ASSUME AcyclicWalk, pruned \in Input, Consistent, NEW m, Fits(m), NEW t \in TP, stray = {},
         pruned.bm[t] # {}
  PROVE  Candidates(m, t) # {}
<1>1. ~Conflict(m, t) /\ EdgesMeet
  BY FitsNoConflict, SharedEdges DEF AcyclicWalk
<1>2. CASE Focus(m, t) = NULL
  BY <1>1, <1>2 DEF Candidates
<1>3. CASE Focus(m, t) # NULL
  <2>. DEFINE f == Focus(m, t)
  <2>1. FocusId(m, t) \in Required(m, t, f)
    BY <1>3, FocusField
  <2>. HIDE DEF f
  <2>2. PICK u \in Mapped(m) \cap Range(Adj[t]) :
               Edge(t, u)[1] = f /\ FocusId(m, t) = m[u][Edge(t, u)[2]]
    BY <2>1 DEF Required
  <2>3. u \in TP /\ t \in Range(Adj[u]) /\ Edge(u, t) = <<Edge(t, u)[2], Edge(t, u)[1]>>
    BY <1>1, <2>2, AdjType DEF EdgesMeet
  <2>4. m[u] \in Triples(u)
    BY <2>2 DEF Fits
  <2>5. PICK x \in Triples(t) : m[u][Edge(u, t)[1]] = x[Edge(u, t)[2]]
    BY <2>3, <2>4 DEF Consistent
  <2>6. PICK c \in pruned.bm[t] : x = TripleOf(pruned.dimension[t], t, c)
    BY <2>5 DEF Triples
  <2>7. Coord(c, FocusAxis(m, t)) = FocusId(m, t)
    BY <1>1, <1>3, <2>2, <2>3, <2>5, <2>6, FocusCoord DEF f
  <2>. QED
    BY <1>1, <1>3, <2>6, <2>7 DEF Candidates
<1>. QED
  BY <1>2, <1>3

\* Every cell of the running call goes with what is mapped.
LEMMA TreeAgrees ==
  ASSUME AcyclicWalk, TreeInv, Trying
  PROVE  ~MismatchedTriple
<1>. DEFINE t  == Top.node
            c  == FirstOf(Top.todo)
            tr == TripleOf(pruned.dimension[t], t, c)
<1>1. /\ Inv /\ phase = "match" /\ Kin /\ LoadedByJvar /\ PredicateJoinsAlone /\ EdgesMeet
      /\ pruned \in Input /\ stack # << >> /\ TypeOK
  BY SharedEdges DEF TreeInv, JoinInv, Trying, AcyclicWalk, Inv, PhaseOK, TypeOK
<1>2. TriplesOf(maps, t, c) = {tr} /\ t \in TP /\ c \in Top.todo
  BY <1>1, OneTriple
<1>3. c \in Candidates(maps, t)
  <2>1. Len(stack) \in 1 .. Len(stack)
    BY <1>1, TopType
  <2>2. Top.todo \subseteq Candidates(maps, t)
    BY <1>1, <1>2, <2>1, GivenTop DEF TreeInv, JoinInv, Kept, KeptAt, Top, TypeOK
  <2>. QED
    BY <1>2, <2>2
<1>. HIDE DEF c
<1>4. ASSUME NEW u \in Compared(maps, t) PROVE tr[Edge(t, u)[1]] = maps[u][Edge(t, u)[2]]
  <2>1. u \in Mapped(maps) \cap Range(Adj[t])
    <3>1. PICK i \in DOMAIN Adj[t] : u = Adj[t][i] /\ \A l \in 1 .. i : Adj[t][l] \in Mapped(maps)
      BY DEF Compared
    <3>2. i \in 1 .. i
      <4>1. Adj[t] \in Seq(TP)
        BY <1>2, MatchAssumption
      <4>. QED
        BY <4>1
    <3>. QED
      BY <3>1, <3>2 DEF Range
  <2>2. Edge(t, u)[1] = Focus(maps, t) /\ LookedUp(maps, t)
    BY <1>1, <2>1, TreeLooksUp
  <2>. QED
    BY <1>1, <1>2, <1>3, <2>1, <2>2, LookupAgrees
<1>5. tr \in Agreeing
  BY <1>2, <1>4 DEF Agreeing, CheckBackEdges, c
<1>. QED
  BY <1>2, <1>5 DEF MismatchedTriple, c

\* A call keeps its parent.
LEMMA RestParents ==
  ASSUME TypeOK, stack # << >>
  PROVE  \A i \in 1 .. Len(stack) : Rest[i].parent = stack[i].parent
<1>. DEFINE n == Len(stack)
<1>1. n \in Nat \ {0} /\ DOMAIN stack = 1 .. n /\ n \in 1 .. n /\ \A i \in 1 .. n : stack[i] \in Frame
  BY TopType
<1>2. Rest = [stack EXCEPT ![n] = [stack[n] EXCEPT !.todo = stack[n].todo \ {FirstOf(stack[n].todo)}]]
  BY DEF Rest
<1>3. Rest[n] = [stack[n] EXCEPT !.todo = stack[n].todo \ {FirstOf(stack[n].todo)}]
  BY <1>1, <1>2
<1>4. Rest[n].parent = stack[n].parent
  BY <1>1, <1>3 DEF Frame
<1>5. \A i \in 1 .. n - 1 : Rest[i] = stack[i]
  BY RestFrames
<1>. HIDE DEF n
<1>6. \A i \in 1 .. n : i = n \/ i \in 1 .. n - 1
  BY <1>1
<1>. QED
  BY <1>4, <1>5, <1>6 DEF n

\* What Kin and Parents need of a stack whose calls stay where they are.
LEMMA CallsStay ==
  ASSUME Kin, Parents, NEW n \in Nat, n <= Len(stack), Len(stack) \in Nat,
         \A i \in 1 .. n : stack'[i].node = stack[i].node /\ stack'[i].parent = stack[i].parent
  PROVE  /\ \A i \in 2 .. n : \E k \in 1 .. i - 1 : stack'[i].node \in Range(Adj[stack'[k].node])
         /\ \A i \in 1 .. n :
              stack'[i].parent # NULL => \E k \in 1 .. i - 1 : stack'[k].node = stack'[i].parent
<1>1. ASSUME NEW i \in 2 .. n
      PROVE  \E k \in 1 .. i - 1 : stack'[i].node \in Range(Adj[stack'[k].node])
  <2>1. i \in 1 .. n /\ i \in 2 .. Len(stack) /\ \A k \in 1 .. i - 1 : k \in 1 .. n
    OBVIOUS
  <2>2. PICK k \in 1 .. i - 1 : stack[i].node \in Range(Adj[stack[k].node])
    BY <2>1 DEF Kin
  <2>. QED
    BY <2>1, <2>2
<1>2. ASSUME NEW i \in 1 .. n, stack'[i].parent # NULL
      PROVE  \E k \in 1 .. i - 1 : stack'[k].node = stack'[i].parent
  <2>1. i \in 1 .. Len(stack) /\ \A k \in 1 .. i - 1 : k \in 1 .. n
    OBVIOUS
  <2>2. PICK k \in 1 .. i - 1 : stack[k].node = stack[i].parent
    BY <1>2, <2>1 DEF Parents
  <2>. QED
    BY <1>2, <2>1, <2>2
<1>. QED
  BY <1>1, <1>2

\* What was loaded and what pruning left are the same in every step.
LEMMA TreeFrame ==
  ASSUME UNCHANGED pruned, LoadedByJvar, Consistent
  PROVE  LoadedByJvar' /\ Consistent'
BY DEF LoadedByJvar, Consistent, Triples

LEMMA BeginTree ==
  ASSUME AcyclicWalk, TreeInv, JoinInv', Begin
  PROVE  TreeInv'
<1>1. /\ Inv /\ phase = "idle" /\ phase' = "match" /\ UNCHANGED <<pruned, maps, unvisited>>
      /\ stray' = {} /\ unvisited = {} /\ \A t \in TP : pruned.bm[t] # {}
  BY DEF Begin, TreeInv, JoinInv, Inv, PhaseOK, AcyclicWalk
<1>2. PICK t \in TP : stack' = << [node |-> t, parent |-> NULL, todo |-> pruned.bm[t]] >>
  BY DEF Begin
<1>3. Len(stack') = 1 /\ stack'[1].parent = NULL
  BY <1>2
<1>4. Kin' /\ Parents'
  BY <1>3 DEF Kin, Parents
<1>. QED
  BY <1>1, <1>4, TreeFrame DEF TreeInv, Near, Fresh

LEMMA WriteRowTree ==
  ASSUME AcyclicWalk, TreeInv, JoinInv', WriteRow
  PROVE  TreeInv'
<1>1. /\ Inv /\ Trying /\ LastNode /\ phase = "match" /\ stack # << >> /\ TypeOK
      /\ stack' = Rest /\ UNCHANGED <<pruned, stray, maps, unvisited, phase>>
  BY DEF WriteRow, TreeInv, JoinInv, Inv, PhaseOK, Trying
<1>2. unvisited = {}
  BY <1>1, AllOnStack DEF Inv, VisitedOnce, OnStack, TypeOK
<1>3. PICK n \in Nat \ {0} : n = Len(stack)
  BY <1>1, NodesApart
<1>4. \A i \in 1 .. n : stack'[i].node = stack[i].node /\ stack'[i].parent = stack[i].parent
  BY <1>1, <1>3, RestType, RestParents
<1>5. Len(stack') = n
  BY <1>1, <1>3, RestType
<1>6. Kin' /\ Parents'
  BY <1>1, <1>3, <1>4, <1>5, CallsStay DEF TreeInv, Kin, Parents
<1>. QED
  BY <1>1, <1>2, <1>6, TreeFrame DEF TreeInv, Near, Fresh

\* The pattern gone on with is a neighbour of a mapped one, and so is what waits.
LEMMA VisitTree ==
  ASSUME AcyclicWalk, TreeInv, JoinInv', Trying, NEW m \in Extended, NEW u \in TP,
         NEW parent, NEW waiting, Visit(u, parent, m, waiting),
         \E t \in OnStack : u \in Range(Adj[t]),
         parent # NULL => parent \in OnStack,
         \A v \in waiting : \E t \in OnStack : v \in Range(Adj[t])
  PROVE  TreeInv'
<1>. DEFINE new == [node |-> u, parent |-> parent, todo |-> Candidates(m, u)]
<1>1. /\ Inv /\ phase = "match" /\ stack # << >> /\ TypeOK
      /\ UNCHANGED <<pruned, stray>> /\ maps' = m /\ unvisited' = waiting \ {u}
      /\ stack' = Append(Rest, new)
  BY DEF Visit, TreeInv, JoinInv, Inv, PhaseOK, Trying
<1>2. PICK n \in Nat \ {0} : n = Len(stack)
  BY <1>1, NodesApart
<1>3. OnStack = {stack[i].node : i \in 1 .. n}
  BY <1>1, <1>2, TopType DEF OnStack
<1>4. Rest \in Seq(Frame) /\ Len(Rest) = n /\ \A i \in 1 .. n : Rest[i].node = stack[i].node
      /\ Rest[i].parent = stack[i].parent
  BY <1>1, <1>2, RestType, RestParents
<1>. HIDE DEF new
<1>5. /\ Len(stack') = n + 1 /\ stack'[n + 1] = new
      /\ \A i \in 1 .. n : stack'[i].node = stack[i].node /\ stack'[i].parent = stack[i].parent
  BY <1>1, <1>4
<1>6. new.node = u /\ new.parent = parent /\ new.todo = Candidates(m, u)
  BY DEF new
<1>7. /\ \A i \in 2 .. n : \E k \in 1 .. i - 1 : stack'[i].node \in Range(Adj[stack'[k].node])
      /\ \A i \in 1 .. n :
           stack'[i].parent # NULL => \E k \in 1 .. i - 1 : stack'[k].node = stack'[i].parent
  BY <1>1, <1>2, <1>5, CallsStay DEF TreeInv
<1>8. (n + 1) - 1 = n /\ \A i \in 1 .. n + 1 : i \in 1 .. n \/ i = n + 1
  OBVIOUS
<1>9. Kin'
  <2>1. PICK k \in 1 .. n : u \in Range(Adj[stack[k].node])
    BY <1>3
  <2>2. \A i \in 2 .. n + 1 : i \in 2 .. n \/ i = n + 1
    OBVIOUS
  <2>. QED
    BY <1>5, <1>6, <1>7, <1>8, <2>1, <2>2 DEF Kin
<1>10. Parents'
  <2>1. parent # NULL => \E k \in 1 .. n : stack[k].node = parent
    BY <1>3
  <2>. QED
    BY <1>5, <1>6, <1>7, <1>8, <2>1 DEF Parents
<1>11. Near'
  <2>1. \A v \in waiting : \E k \in 1 .. n : v \in Range(Adj[stack[k].node])
    BY <1>3
  <2>. QED
    BY <1>1, <1>5, <1>8, <2>1 DEF Near
<1>12. Fresh'
  <2>1. Top' = new
    BY <1>5 DEF Top
  <2>2. Candidates(maps, u)' = Candidates(m, u)
    <3>1. Candidates(m, u)' = Candidates(m, u)
      BY <1>1, CandidatesStay
    <3>2. Candidates(maps, u)' = Candidates(m, u)'
      BY <1>1 DEF Candidates, ByColumn, FocusAxis
    <3>. QED
      BY <3>1, <3>2
  <2>. QED
    BY <1>6, <2>1, <2>2 DEF Fresh
<1>. QED
  BY <1>1, <1>9, <1>10, <1>11, <1>12, TreeFrame DEF TreeInv

LEMMA ExploreTree ==
  ASSUME AcyclicWalk, TreeInv, JoinInv', ExploreChild \/ ExploreSibling \/ ExploreUnvisited
  PROVE  TreeInv'
<1>1. /\ Inv /\ phase = "match" /\ Trying /\ stack # << >> /\ TypeOK
      /\ Kin /\ Parents /\ Near
  BY DEF TreeInv, JoinInv, Inv, PhaseOK, Trying, ExploreChild, ExploreSibling, ExploreUnvisited
<1>2. PICK n \in Nat \ {0} : n = Len(stack)
  BY <1>1, NodesApart
<1>3. /\ OnStack = {stack[i].node : i \in 1 .. n} /\ Top = stack[n] /\ n \in 1 .. n
      /\ \A k \in 1 .. n - 1 : k \in 1 .. n
  BY <1>1, <1>2, TopType DEF OnStack, Top
<1>4. Top.node \in OnStack /\ OnStack \subseteq TP /\ Top.parent \in TP \cup {NULL}
  BY <1>1, <1>2, <1>3, NodesApart, TopType DEF Frame
<1>5. Top.parent # NULL => Top.parent \in OnStack
  <2>. SUFFICES ASSUME Top.parent # NULL PROVE Top.parent \in OnStack
    OBVIOUS
  <2>1. PICK k \in 1 .. n - 1 : stack[k].node = Top.parent
    BY <1>1, <1>2, <1>3 DEF Parents
  <2>. QED
    BY <1>3, <2>1
<1>6. ASSUME NEW m \in Extended, NEW v \in Waiting(m)
      PROVE  \E t \in OnStack : v \in Range(Adj[t])
  <2>1. CASE v \in unvisited
    <3>1. PICK k \in 1 .. n - 1 : v \in Range(Adj[stack[k].node])
      BY <1>1, <1>2, <2>1 DEF Near
    <3>. QED
      BY <1>3, <3>1
  <2>2. CASE v \notin unvisited
    BY <1>4, <1>6, <2>2 DEF Waiting
  <2>. QED
    BY <2>1, <2>2
<1>7. ASSUME NEW m \in Extended, NEW v \in Refilled(m)
      PROVE  \E t \in OnStack : v \in Range(Adj[t])
  <2>1. CASE v \in Waiting(m)
    BY <1>6, <2>1
  <2>2. CASE v \notin Waiting(m)
    <3>1. PICK t \in Mapped(m) : FirstIn(v, Adj[t], Unmapped(m))
      BY <1>7, <2>2 DEF Refilled
    <3>2. t \in OnStack
      BY <1>1, <3>1, MappedNow
    <3>. QED
      BY <3>1, <3>2 DEF FirstIn, Range
  <2>. QED
    BY <2>1, <2>2
<1>8. \A s, t \in TP : Range(TreeEdges[s][t]) \subseteq Range(Adj[t])
  BY DEF AcyclicWalk, WalksEdges
<1>9. stack[1].node \in TP
  BY <1>1, <1>2, NodesApart
<1>10. CASE ExploreChild
  <2>1. PICK m \in Extended, u \in TP : /\ u \in Range(Adj[Top.node])
                                        /\ Visit(u, Top.node, m, Waiting(m))
    BY <1>10 DEF ExploreChild, FirstIn, Children
  <2>. QED
    BY <1>1, <1>4, <1>6, <2>1, VisitTree
<1>11. CASE ExploreSibling
  <2>1. PICK m \in Extended, u \in TP : /\ u \in Range(Tree(Top.parent)) /\ Top.parent # NULL
                                        /\ Visit(u, Top.parent, m, Waiting(m))
    BY <1>11 DEF ExploreSibling, FirstIn, Range
  <2>2. u \in Range(Adj[Top.parent])
    BY <1>4, <1>8, <1>9, <2>1 DEF Tree
  <2>. QED
    BY <1>1, <1>5, <1>6, <2>1, <2>2, VisitTree
<1>12. CASE ExploreUnvisited
  <2>1. PICK m \in Extended : \E u \in Refilled(m) : Visit(u, NULL, m, Refilled(m))
    BY <1>12 DEF ExploreUnvisited
  <2>2. PICK u \in Refilled(m) : Visit(u, NULL, m, Refilled(m))
    BY <2>1
  <2>3. u \in TP
    BY <1>1, WaitingOutside
  <2>. QED
    BY <1>1, <1>7, <2>2, <2>3, VisitTree
<1>. QED
  BY <1>10, <1>11, <1>12

\* A call that returns has tried a cell, so nothing waited then or since.
LEMMA ReturnTree ==
  ASSUME AcyclicWalk, TreeInv, JoinInv', Return
  PROVE  TreeInv'
<1>1. /\ Inv /\ phase = "match" /\ Top.todo = {} /\ stack # << >> /\ TypeOK /\ Fresh
      /\ Kin /\ Parents /\ UNCHANGED <<pruned, stray, unvisited>>
      /\ Fits(maps) /\ pruned \in Input /\ Consistent /\ stray = {}
      /\ \A t \in TP : pruned.bm[t] # {}
  BY DEF Return, TreeInv, JoinInv, Inv, PhaseOK, MapsFit, TypeOK
<1>2. Top.node \in TP
  BY <1>1, TopType DEF Frame
<1>3. unvisited = {}
  BY <1>1, <1>2, HasCandidates DEF Fresh
<1>4. PICK n \in Nat \ {0} : n = Len(stack)
  BY <1>1, NodesApart
<1>5. CASE n = 1
  <2>1. phase' = "done"
    BY <1>4, <1>5 DEF Return
  <2>. QED
    BY <1>1, <2>1, TreeFrame DEF TreeInv
<1>6. CASE n # 1
  <2>1. Len(stack') = n - 1 /\ \A i \in 1 .. n - 1 : stack'[i] = stack[i]
    BY <1>1, <1>4, <1>6, ReturnStack
  <2>2. Kin' /\ Parents'
    <3>1. n - 1 \in Nat /\ n - 1 <= Len(stack) /\ Len(stack) \in Nat
      BY <1>4
    <3>. QED
      BY <1>1, <2>1, <3>1, CallsStay DEF Kin, Parents
  <2>. QED
    BY <1>1, <1>3, <2>2, TreeFrame DEF TreeInv, Near, Fresh
<1>. QED
  BY <1>5, <1>6

LEMMA NextTree ==
  ASSUME AcyclicWalk, TreeInv, [Next]_vars
  PROVE  TreeInv'
<1>1. BackEdgesSeen /\ JoinInv /\ PredicateJoinsAlone /\ EdgesMeet
  BY TreeBackEdges, SharedEdges DEF TreeInv, AcyclicWalk
<1>2. JoinInv'
  BY <1>1, NextJoin
<1>3. CASE BeginNowhere
  <2>1. UNCHANGED <<pruned, stray>> /\ phase' = "crash"
    BY <1>3 DEF BeginNowhere
  <2>. QED
    BY <1>2, <2>1, TreeFrame DEF TreeInv
<1>4. ~MismatchedTriple
  BY TreeAgrees DEF MismatchedTriple
<1>5. CASE UNCHANGED vars
  <2>1. UNCHANGED <<pruned, stray, maps, unvisited, stack, phase>>
    BY <1>5 DEF vars
  <2>2. Kin' = Kin /\ Parents' = Parents /\ Near' = Near /\ Top' = Top
    BY <2>1 DEF Kin, Parents, Near, Top
  <2>3. Fresh' = Fresh
    <3>1. Candidates(maps, Top.node)' = Candidates(maps, Top.node)
      BY <2>1, <2>2 DEF Candidates, ByColumn, FocusAxis
    <3>. QED
      BY <2>1, <2>2, <3>1 DEF Fresh
  <2>. QED
    BY <1>2, <2>1, <2>2, <2>3, TreeFrame DEF TreeInv
<1>. QED
  BY <1>2, <1>3, <1>4, <1>5, BeginTree, WriteRowTree, ExploreTree, ReturnTree DEF Next

LEMMA InitTree ==
  ASSUME Init, SingleRowsTidy, LoadedByJvar, Consistent
  PROVE  TreeInv
BY InitJoin DEF TreeInv, Init, Idle

\* No edge goes unchecked in the walk of an acyclic query over consistent bitmats,
\* whatever order check_back_edges, unvisited and the spanning tree make of it.
THEOREM AcyclicEdgesSeen ==
  ASSUME AcyclicWalk
  PROVE  Spec /\ SingleRowsTidy /\ LoadedByJvar /\ Consistent => []BackEdgesSeen
<1>1. Init /\ SingleRowsTidy /\ LoadedByJvar /\ Consistent => TreeInv
  BY InitTree
<1>2. TreeInv /\ [Next]_vars => TreeInv'
  BY NextTree
<1>3. TreeInv => BackEdgesSeen
  BY TreeBackEdges
<1>. QED
  BY <1>1, <1>2, <1>3, PTL DEF Spec

\* Of an acyclic query the results file has every join of consistent bitmats and no
\* other, each once, though unvisited is not restored on the way back.
THEOREM AcyclicRowsAreTheJoins ==
  ASSUME AcyclicWalk
  PROVE  Spec /\ SingleRowsTidy /\ LoadedByJvar /\ Consistent => []RowsAreJoins
<1>1. EdgesMeet /\ PredicateJoinsAlone
  BY SharedEdges DEF AcyclicWalk
<1>2. Init => stray = {}
  BY DEF Init, Idle
<1>3. stray = {} /\ [Next]_vars => (stray = {})'
  <2>1. Begin => stray' = {}
    BY DEF Begin, AcyclicWalk
  <2>. QED
    BY <2>1 DEF Next, vars, BeginNowhere, MismatchedTriple, WriteRow, ExploreChild,
       ExploreSibling, ExploreUnvisited, Visit, Return
<1>4. Spec /\ SingleRowsTidy /\ LoadedByJvar /\ Consistent => []BackEdgesSeen
  BY AcyclicEdgesSeen
<1>5. Spec /\ SingleRowsTidy /\ []BackEdgesSeen /\ [](stray = {}) => []RowsAreJoins
  BY <1>1, RowsAreTheJoins
<1>. QED
  BY <1>2, <1>3, <1>4, <1>5, PTL DEF Spec

----------------------------------------------------------------------------
(***************************************************************************)
(* The assertion on single rows.  It is enough that the object fold of a   *)
(* single row has the ids its neighbours have left; the order of the walk  *)
(* and what check_back_edges compares do not matter.                       *)
(***************************************************************************)
NeighboursKnown ==
  \A t \in TP : SingleRow(t) =>
    \A u \in Range(Adj[t]) : \A tr \in Triples(u) : tr[Edge(t, u)[2]] \in pruned.objfold[t]

\* Mapped triples, and cells to try, are of the bitmats.
TriesReal ==
  phase = "match" => /\ \A t \in Mapped(maps) : maps[t] \in Triples(t)
                     /\ \A i \in 1 .. Len(stack) : stack[i].todo \subseteq pruned.bm[stack[i].node]

RealInv == Inv /\ SingleRowsTidy /\ NeighboursKnown /\ TriesReal /\ AssertHolds

LEMMA KnownNeverFails ==
  ASSUME NeighboursKnown, NEW m, \A t \in Mapped(m) : m[t] \in Triples(t), NEW u \in TP
  PROVE  ~AssertFails(m, u)
<1>1. SUFFICES ASSUME ByColumn(m, u), SingleRow(u) PROVE FocusId(m, u) \in pruned.objfold[u]
  BY DEF AssertFails
<1>2. FocusId(m, u) \in Required(m, u, Focus(m, u))
  BY <1>1, FocusField DEF ByColumn
<1>3. PICK v \in Mapped(m) \cap Range(Adj[u]) : FocusId(m, u) = m[v][Edge(u, v)[2]]
  BY <1>2 DEF Required
<1>. QED
  BY <1>1, <1>3 DEF NeighboursKnown

LEMMA RealFrame ==
  ASSUME UNCHANGED pruned, SingleRowsTidy, NeighboursKnown
  PROVE  SingleRowsTidy' /\ NeighboursKnown' /\ \A t : Triples(t)' = Triples(t)
BY DEF SingleRowsTidy, NeighboursKnown, Triples

LEMMA BeginReal ==
  ASSUME RealInv, Begin \/ BeginNowhere
  PROVE  RealInv'
<1>1. Inv' /\ UNCHANGED <<pruned, maps>> /\ phase = "idle"
  BY BeginInv, BeginNowhereInv DEF RealInv, Begin, BeginNowhere
<1>2. maps' = [t \in TP |-> NULL]
  BY <1>1 DEF RealInv, Inv, PhaseOK
<1>3. Mapped(maps') = {}
  BY <1>2 DEF Mapped
<1>4. CASE Begin
  <2>1. PICK t \in TP : stack' = << [node |-> t, parent |-> NULL, todo |-> pruned.bm[t]] >>
    BY <1>4 DEF Begin
  <2>2. Len(stack') = 1 /\ stack'[1].node = t /\ stack'[1].todo = pruned.bm[t]
    BY <2>1
  <2>. QED
    BY <1>1, <1>3, <1>4, <2>2, RealFrame DEF RealInv, TriesReal, AssertHolds, Begin, Mapped
<1>5. CASE BeginNowhere
  BY <1>1, <1>5, RealFrame DEF RealInv, TriesReal, AssertHolds, BeginNowhere
<1>. QED
  BY <1>4, <1>5

LEMMA CutReal ==
  ASSUME RealInv, Inv', Trying, stack' = Rest, UNCHANGED <<pruned, maps, phase>>
  PROVE  RealInv'
<1>1. Inv /\ phase = "match"
  BY DEF RealInv, Trying
<1>2. PICK n \in Nat : n = Len(stack) /\ n = Len(stack')
  BY <1>1, CutStack DEF TakesCell
<1>3. \A i \in 1 .. n : stack'[i].node = stack[i].node /\ stack'[i].todo \subseteq stack[i].todo
  BY <1>1, <1>2, CutStack DEF TakesCell
<1>4. TriesReal'
  BY <1>1, <1>2, <1>3, RealFrame DEF RealInv, TriesReal, Mapped
<1>. QED
  BY <1>1, <1>4, RealFrame DEF RealInv, AssertHolds

LEMMA VisitReal ==
  ASSUME RealInv, PredicateJoinsAlone, Trying, Inv',
         NEW m \in Extended, NEW u \in TP, NEW parent, NEW waiting,
         Visit(u, parent, m, waiting)
  PROVE  RealInv'
<1>1. /\ Inv /\ UNCHANGED pruned /\ maps' = m /\ phase = "match" /\ TypeOK /\ stack # << >>
      /\ phase' = IF AssertFails(m, u) THEN "abort" ELSE "match"
  BY DEF RealInv, Visit, Trying, Inv, PhaseOK
<1>2. PICK n \in Nat \ {0} : n = Len(stack)
  BY <1>1, NodesApart
<1>3. /\ Len(stack') = n + 1
      /\ \A i \in 1 .. n :
           stack'[i].node = stack[i].node /\ stack'[i].todo \subseteq stack[i].todo
      /\ stack'[n + 1].node = u /\ stack'[n + 1].todo = Candidates(m, u)
  BY <1>1, <1>2, VisitStack DEF TakesCell
<1>4. \A t \in Mapped(m) : m[t] \in Triples(t)
  <2>1. /\ m = [maps EXCEPT ![Top.node] =
                  TripleOf(pruned.dimension[Top.node], Top.node, FirstOf(Top.todo))]
        /\ maps \in [TP -> Triple \cup {NULL}]
    BY <1>1, ExtendedOnce DEF TypeOK
  <2>2. FirstOf(Top.todo) \in pruned.bm[Top.node]
    <3>1. n \in 1 .. Len(stack) /\ Top = stack[n]
      BY <1>2 DEF Top
    <3>2. Top.todo \in SUBSET (Id \X Id) /\ Top.todo # {}
      BY <1>1, TopType DEF Frame, Trying
    <3>. QED
      BY <1>1, <3>1, <3>2, FirstOfIn DEF RealInv, TriesReal
  <2>. QED
    BY <1>1, <2>1, <2>2 DEF RealInv, TriesReal, Mapped, Triples
<1>5. ~AssertFails(m, u)
  BY <1>4, KnownNeverFails DEF RealInv
<1>6. Candidates(m, u) \subseteq pruned.bm[u]
  BY <1>1, <1>5, CandidatesIn DEF RealInv, TypeOK
<1>7. \A i \in 1 .. n + 1 : i \in 1 .. n \/ i = n + 1
  BY <1>2
<1>8. \A i \in 1 .. n + 1 : stack'[i].todo \subseteq pruned.bm[stack'[i].node]
  BY <1>1, <1>2, <1>3, <1>6, <1>7 DEF RealInv, TriesReal
<1>9. TriesReal'
  BY <1>1, <1>3, <1>4, <1>8, RealFrame DEF RealInv, TriesReal, Mapped
<1>. QED
  BY <1>1, <1>5, <1>9, RealFrame DEF RealInv, AssertHolds

LEMMA ReturnReal ==
  ASSUME RealInv, Return
  PROVE  RealInv'
<1>1. Inv /\ Inv' /\ UNCHANGED pruned /\ phase = "match" /\ phase' \in {"done", "match"}
  BY ReturnInv DEF RealInv, Return
<1>2. PICK n \in Nat : n = Len(stack)
  BY <1>1, NodesApart DEF Inv, PhaseOK
<1>3. CASE n = 1
  <2>1. phase' = "done"
    BY <1>2, <1>3 DEF Return
  <2>. QED
    BY <1>1, <2>1, RealFrame DEF RealInv, TriesReal, AssertHolds
<1>4. CASE n # 1
  <2>1. /\ n \in Nat \ {0, 1} /\ Len(stack') = n - 1
        /\ \A i \in 1 .. n - 1 : stack'[i] = stack[i]
        /\ maps' = [maps EXCEPT ![stack[n - 1].node] = NULL]
    BY <1>1, <1>2, <1>4, ReturnStack
  <2>2. \A i \in 1 .. n - 1 : i \in 1 .. n
    BY <1>2
  <2>3. Mapped(maps') \subseteq Mapped(maps) /\ \A t \in Mapped(maps') : maps'[t] = maps[t]
    BY <1>1, <2>1 DEF Mapped, Inv, TypeOK
  <2>4. TriesReal'
    BY <1>1, <1>2, <2>1, <2>2, <2>3, RealFrame DEF RealInv, TriesReal, Mapped
  <2>. QED
    BY <1>1, <2>4, RealFrame DEF RealInv, AssertHolds
<1>. QED
  BY <1>3, <1>4

LEMMA InitReal ==
  ASSUME Init, SingleRowsTidy, NeighboursKnown
  PROVE  RealInv
<1>1. Inv /\ phase = "idle"
  BY InitInv DEF Init, Idle
<1>. QED
  BY <1>1 DEF RealInv, TriesReal, AssertHolds

LEMMA NextReal ==
  ASSUME RealInv, PredicateJoinsAlone, [Next]_vars
  PROVE  RealInv'
<1>1. CASE Begin \/ BeginNowhere
  BY <1>1, BeginReal
<1>2. CASE MismatchedTriple \/ WriteRow
  <2>1. Inv' /\ Trying /\ stack' = Rest /\ UNCHANGED <<pruned, maps, phase>>
    BY <1>2, MismatchedTripleInv, WriteRowInv DEF RealInv, MismatchedTriple, WriteRow
  <2>. QED
    BY <2>1, CutReal
<1>3. CASE ExploreChild \/ ExploreSibling \/ ExploreUnvisited
  BY <1>3, ExploreVisits, VisitReal DEF RealInv
<1>4. CASE Return
  BY <1>4, ReturnReal
<1>5. CASE UNCHANGED vars
  <2>1. Inv' /\ UNCHANGED <<pruned, maps, stack, phase>>
    BY <1>5, NextInv DEF RealInv, vars
  <2>. QED
    BY <2>1, RealFrame DEF RealInv, TriesReal, AssertHolds, Mapped
<1>. QED
  BY <1>1, <1>2, <1>3, <1>4, <1>5 DEF Next

\* assert(0) on a single row without the id asked for is never reached, whatever
\* the order of the walk, if pruning left its neighbours only ids it has.
THEOREM SingleRowsHaveIds ==
  ASSUME PredicateJoinsAlone
  PROVE  Spec /\ SingleRowsTidy /\ NeighboursKnown => []AssertHolds
<1>1. Init /\ SingleRowsTidy /\ NeighboursKnown => RealInv
  BY InitReal
<1>2. RealInv /\ [Next]_vars => RealInv'
  BY NextReal
<1>3. RealInv => AssertHolds
  BY DEF RealInv
<1>. QED
  BY <1>1, <1>2, <1>3, PTL DEF Spec

==============================================================================
