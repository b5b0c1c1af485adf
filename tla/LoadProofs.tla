----------------------------- MODULE LoadProofs ------------------------------
(***************************************************************************)
(* From the data to the results: what the theorems on pruning and matching *)
(* take of the bitmats they are given (WellLoaded, Fetched, complete or    *)
(* exact folds) is what loading leaves, whatever the data, but for two     *)
(* things the loader does: it files the fold bit of a predicate's first    *)
(* triple under the predicate before, and it files filtered rows under     *)
(* shifted ids.  Where these do no harm the rows a query writes are the    *)
(* answer to it over the stored triples.                                   *)
(***************************************************************************)
EXTENDS QueryProofs, OrderProofs

\* The bridge delivers triples of ids that the configuration counts.
IsStore(s) == s # {} /\ s \subseteq (1 .. NumSubs) \X (1 .. NumPreds) \X (1 .. NumObjs)

\* The plans are those that planning makes of the data s, with any variable as root
\* of any tree.
PlannedFrom(s) == \A p \in Plans : \E root, kids : p = PlanOf(s, root, kids)

----------------------------------------------------------------------------
(* The dimension a pattern is loaded in.                                   *)

\* A pattern with a fixed predicate and no other fixed position has a variable.
LEMMA EndIsVariable ==
  ASSUME NEW t \in TP, JvarsOf(t) # {}, Query[t].sub <= 0, Query[t].pred > 0, Query[t].obj <= 0
  PROVE  Query[t].sub < 0 \/ Query[t].obj < 0
<1>1. PICK f \in Fields : Query[t][f] \in Jvar
  BY DEF JvarsOf, Mentions
<1>2. Query[t][f] < 0 /\ f \in {"sub", "pred", "obj"}
  BY <1>1 DEF Jvar, Fields
<1>. QED
  BY <1>2, PatternType

\* Which file it is read from says which of its positions are fixed.
DimensionFits(dim, t) ==
  \/ dim = "SPO" /\ Query[t].pred > 0 /\ Query[t].sub < 0 /\ Query[t].obj <= 0
  \/ dim = "OPS" /\ Query[t].pred > 0 /\ Query[t].sub <= 0 /\ Query[t].obj < 0
  \/ dim = "PSO" /\ Query[t].sub > 0
  \/ dim = "POS" /\ Query[t].obj > 0 /\ (Query[t].pred > 0 => Query[t].sub <= 0)

LEMMA DimensionIs ==
  ASSUME Askable, NEW t \in TP, NEW s, NEW order
  PROVE  DimensionFits(LoadedDimension(s, order, t), t)
<1>. DEFINE d == LoadedDimension(s, order, t)
            a == Query[t].sub
            b == Query[t].pred
            c == Query[t].obj
            first == CHOOSE i \in DOMAIN order :
                       Mentions(t, order[i]) /\ \A m \in 1 .. i - 1 : ~Mentions(t, order[m])
            ahead == order[first] = a
            fewer == TripleCount(s, "PSO", a) < TripleCount(s, "POS", c)
<1>1. a \in Int /\ b \in Int /\ c \in Int
  BY PatternType
<1>2. (a > 0 \/ b > 0 \/ c > 0) /\ (a <= 0 /\ b > 0 /\ c <= 0 => a < 0 \/ c < 0)
  BY EndIsVariable DEF Askable
<1>3. d = CASE b > 0 /\ a > 0 -> "PSO"
            [] b > 0 /\ a <= 0 /\ c > 0 -> "POS"
            [] b > 0 /\ a < 0 /\ c < 0 -> IF ahead THEN "SPO" ELSE "OPS"
            [] b > 0 /\ a < 0 /\ c = 0 -> "SPO"
            [] b > 0 /\ a = 0 /\ c < 0 -> "OPS"
            [] b <= 0 /\ a > 0 /\ c > 0 -> IF fewer THEN "PSO" ELSE "POS"
            [] b <= 0 /\ a > 0 /\ c <= 0 -> "PSO"
            [] b <= 0 /\ a <= 0 /\ c > 0 -> "POS"
  BY DEF LoadedDimension
<1>. HIDE DEF d, a, b, c, ahead, fewer
<1>4. CASE b > 0 /\ a > 0
  <2>1. d = "PSO"
    BY <1>1, <1>3, <1>4
  <2>. QED
    BY <1>4, <2>1 DEF DimensionFits, d, a
<1>5. CASE b > 0 /\ a <= 0 /\ c > 0
  <2>1. d = "POS"
    BY <1>1, <1>3, <1>5
  <2>. QED
    BY <1>5, <2>1 DEF DimensionFits, d, a, b, c
<1>6. CASE b > 0 /\ a <= 0 /\ c <= 0
  <2>1. (d = "SPO" /\ a < 0) \/ (d = "OPS" /\ c < 0)
    BY <1>1, <1>2, <1>3, <1>6
  <2>. QED
    BY <1>6, <2>1 DEF DimensionFits, d, a, b, c
<1>7. CASE b <= 0
  <2>1. (d = "PSO" /\ a > 0) \/ (d = "POS" /\ c > 0)
    BY <1>1, <1>2, <1>3, <1>7
  <2>2. ~(b > 0)
    BY <1>1, <1>7
  <2>. QED
    BY <2>1, <2>2 DEF DimensionFits, d, a, b, c
<1>. QED
  BY <1>1, <1>4, <1>5, <1>6, <1>7

----------------------------------------------------------------------------
(* Cells.                                                                  *)

\* The ids of a dimension's rows and columns.
Rows(dim) == 1 .. Width(dim, "subfold")
Cols(dim) == 1 .. Width(dim, "objfold")

LEMMA CellInRange ==
  ASSUME NEW s, IsStore(s), NEW dim \in Dimension, NEW b
  PROVE  StoredCells(s, dim, b) \subseteq Rows(dim) \X Cols(dim)
<1>. SUFFICES ASSUME NEW x \in s PROVE CellOf(dim, x) \in Rows(dim) \X Cols(dim)
  BY DEF StoredCells
<1>1. x \in (1 .. NumSubs) \X (1 .. NumPreds) \X (1 .. NumObjs)
  BY DEF IsStore
<1>2. x[1] \in 1 .. NumSubs /\ x[2] \in 1 .. NumPreds /\ x[3] \in 1 .. NumObjs
  BY <1>1
<1>. QED
  BY <1>2 DEF CellOf, Dimension, Rows, Cols, Width

LEMMA SizesAre ==
  ASSUME NEW dim \in Dimension, NEW a \in Axis
  PROVE  Width(dim, a) \in Nat \ {0}
BY SizesAssumption DEF Width, Dimension, Axis

\* How many ids below r are left out.
LEMMA LeftOutBelow ==
  ASSUME NEW n \in Nat, NEW dropped \in SUBSET (1 .. n), NEW r \in 1 .. n
  PROVE  r - Cardinality({d \in dropped : d < r}) \in 1 .. r
<1>. DEFINE below == {d \in dropped : d < r}
<1>1. below \subseteq 1 .. (r - 1)
  <2>. SUFFICES ASSUME NEW d \in dropped, d < r PROVE d \in 1 .. (r - 1)
    OBVIOUS
  <2>1. d \in Nat /\ 1 <= d /\ r \in Nat
    OBVIOUS
  <2>. QED
    BY <2>1
<1>2. IsFiniteSet(1 .. (r - 1)) /\ Cardinality(1 .. (r - 1)) = r - 1
  <2>1. 1 \in Int /\ r - 1 \in Int /\ 1 <= r
    OBVIOUS
  <2>2. IsFiniteSet(1 .. (r - 1))
        /\ Cardinality(1 .. (r - 1)) = IF 1 > r - 1 THEN 0 ELSE r - 1 - 1 + 1
    BY <2>1, FS_Interval
  <2>. QED
    BY <2>1, <2>2
<1>3. IsFiniteSet(below) /\ Cardinality(below) <= Cardinality(1 .. (r - 1))
  BY <1>1, <1>2, FS_Subset
<1>4. Cardinality(below) \in Nat
  BY <1>3, FS_CardinalityType
<1>. HIDE DEF below
<1>5. r - Cardinality(below) \in 1 .. r
  BY <1>2, <1>3, <1>4
<1>. QED
  BY <1>5 DEF below

\* A filtered row is filed no higher than its id.
LEMMA FilteredInRange ==
  ASSUME NEW s, IsStore(s), NEW dim \in Dimension, NEW b, NEW c
  PROVE  /\ FilteredLoad(s, dim, b, c).bm \subseteq Rows(dim) \X Cols(dim)
         /\ FilteredLoad(s, dim, b, c).subfold \subseteq Rows(dim)
         /\ FilteredLoad(s, dim, b, c).objfold \subseteq Cols(dim)
<1>. DEFINE cells == StoredCells(s, dim, Offset(s, dim, b))
            held == SimpleFold(cells, "subfold")
            dropped == {r \in held : <<r, c>> \notin cells}
            Filed(r) == r - Cardinality({d \in dropped : d < r})
<1>1. cells \subseteq Rows(dim) \X Cols(dim)
  BY CellInRange
<1>2. held \subseteq Rows(dim)
  BY <1>1 DEF SimpleFold, Coord
<1>3. /\ FilteredLoad(s, dim, b, c).bm = {<<Filed(r), c>> : r \in held \ dropped}
      /\ FilteredLoad(s, dim, b, c).subfold = held \ {ByteOf(d) + 1 : d \in dropped}
      /\ FilteredLoad(s, dim, b, c).objfold = IF held = dropped THEN {} ELSE {c}
  BY DEF FilteredLoad
<1>4. ASSUME NEW r \in held \ dropped
      PROVE  Filed(r) \in Rows(dim) /\ c \in Cols(dim)
  <2>. DEFINE n == Width(dim, "subfold")
  <2>1. n \in Nat /\ dropped \in SUBSET (1 .. n) /\ r \in 1 .. n
    BY <1>2, SizesAre DEF Rows, Axis
  <2>2. <<r, c>> \in cells
    BY <1>4
  <2>. HIDE DEF n, dropped, held, cells
  <2>3. Filed(r) \in 1 .. r
    BY <2>1, LeftOutBelow
  <2>4. 1 .. r \subseteq 1 .. n
    BY <2>1
  <2>. QED
    BY <1>1, <2>2, <2>3, <2>4 DEF Rows, n
<1>5. held = dropped \/ \E r \in held : r \notin dropped
  OBVIOUS
<1>. HIDE DEF held, dropped, Filed
<1>. QED
  BY <1>2, <1>3, <1>4, <1>5

----------------------------------------------------------------------------
(* The bitmats a plan starts from.                                         *)

\* A plan of the data s, pattern by pattern.
LEMMA PlanIs ==
  ASSUME NEW s, NEW root, NEW kids, NEW t \in TP, NEW p, p = PlanOf(s, root, kids)
  PROVE  LET dim == LoadedDimension(s, TreeBfs(kids, root), t)
         IN /\ p.dimension[t] = dim
            /\ p.bm[t] = LoadedPattern(s, t, dim).bm
            /\ \A a \in Axis : p.fold[<<t, a>>] = LoadedPattern(s, t, dim)[a]
BY DEF PlanOf

\* The bitmat it is read from, and the end that is not the one the file is split by.
BitMatFor(dim, t) == CASE dim \in {"SPO", "OPS"} -> Query[t].pred
                       [] dim = "PSO" -> Query[t].sub
                       [] dim = "POS" -> Query[t].obj

OtherEnd(dim, t) == IF dim = "PSO" THEN Query[t].obj ELSE Query[t].sub

LEMMA PatternIs ==
  ASSUME NEW s, NEW t \in TP, NEW dim \in Dimension
  PROVE  /\ dim \in {"SPO", "OPS"} =>
              LoadedPattern(s, t, dim) = LoadFromDumpFile(s, dim, BitMatFor(dim, t))
         /\ dim \in {"PSO", "POS"} =>
              /\ Query[t].pred > 0 =>
                   LoadedPattern(s, t, dim) = AddRow(s, dim, BitMatFor(dim, t), Query[t].pred)
              /\ Query[t].pred <= 0 /\ OtherEnd(dim, t) > 0 =>
                   LoadedPattern(s, t, dim)
                     = FilteredLoad(s, dim, BitMatFor(dim, t), OtherEnd(dim, t))
              /\ Query[t].pred <= 0 /\ OtherEnd(dim, t) <= 0 =>
                   LoadedPattern(s, t, dim)
                     = PopulateObjfold(LoadFromDumpFile(s, dim, BitMatFor(dim, t)))
<1>1. Query[t].pred \in Int /\ OtherEnd(dim, t) \in Int /\ dim \in {"SPO", "OPS", "PSO", "POS"}
  BY PatternType DEF OtherEnd, Dimension
<1>2. ASSUME NEW lp, NEW b \in Int, NEW other \in Int, NEW whole, NEW row, NEW filtered, NEW full,
             lp = CASE dim \in {"SPO", "OPS"} -> whole
                    [] dim \in {"PSO", "POS"} /\ b > 0 -> row
                    [] dim \in {"PSO", "POS"} /\ b <= 0 /\ other > 0 -> filtered
                    [] OTHER -> full
      PROVE  /\ dim \in {"SPO", "OPS"} => lp = whole
             /\ dim \in {"PSO", "POS"} =>
                  /\ b > 0 => lp = row
                  /\ b <= 0 /\ other > 0 => lp = filtered
                  /\ b <= 0 /\ other <= 0 => lp = full
  BY <1>1, <1>2
<1>3. LoadedPattern(s, t, dim)
        = CASE dim \in {"SPO", "OPS"} -> LoadFromDumpFile(s, dim, BitMatFor(dim, t))
            [] dim \in {"PSO", "POS"} /\ Query[t].pred > 0
                 -> AddRow(s, dim, BitMatFor(dim, t), Query[t].pred)
            [] dim \in {"PSO", "POS"} /\ Query[t].pred <= 0 /\ OtherEnd(dim, t) > 0
                 -> FilteredLoad(s, dim, BitMatFor(dim, t), OtherEnd(dim, t))
            [] OTHER -> PopulateObjfold(LoadFromDumpFile(s, dim, BitMatFor(dim, t)))
  BY DEF LoadedPattern, BitMatFor, OtherEnd
<1>. QED
  BY <1>1, <1>2, <1>3

\* Which of the three ways a pattern is read in.
LEMMA WaysToLoad ==
  ASSUME NEW t \in TP, NEW dim \in Dimension
  PROVE  \/ dim \in {"SPO", "OPS"}
         \/ dim \in {"PSO", "POS"} /\ Query[t].pred > 0
         \/ dim \in {"PSO", "POS"} /\ Query[t].pred <= 0 /\ OtherEnd(dim, t) > 0
         \/ dim \in {"PSO", "POS"} /\ Query[t].pred <= 0 /\ OtherEnd(dim, t) <= 0
<1>1. Query[t].pred \in Int /\ OtherEnd(dim, t) \in Int
  BY PatternType DEF OtherEnd
<1>. QED
  BY <1>1 DEF Dimension

\* The cells of a pattern are cells of a bitmat, those filed too low included.
LEMMA PatternInRange ==
  ASSUME NEW s, IsStore(s), NEW t \in TP, NEW dim \in Dimension
  PROVE  LoadedPattern(s, t, dim).bm \subseteq Rows(dim) \X Cols(dim)
<1>. DEFINE n == BitMatFor(dim, t)
            lp == LoadedPattern(s, t, dim)
<1>1. \/ lp = LoadFromDumpFile(s, dim, n)
      \/ lp = AddRow(s, dim, n, Query[t].pred)
      \/ lp = FilteredLoad(s, dim, n, OtherEnd(dim, t))
      \/ lp = PopulateObjfold(LoadFromDumpFile(s, dim, n))
  BY PatternIs, WaysToLoad
<1>. HIDE DEF lp, n
<1>2. lp.bm \subseteq StoredCells(s, dim, Offset(s, dim, n))
      \/ lp = FilteredLoad(s, dim, n, OtherEnd(dim, t))
  BY <1>1 DEF LoadFromDumpFile, AddRow, PopulateObjfold
<1>. QED
  BY <1>2, CellInRange, FilteredInRange DEF lp

\* A pattern with a fixed predicate and a fixed end is a row of that predicate.
LEMMA RowIsPredicate ==
  ASSUME NEW s, NEW t \in TP, Query[t].pred > 0, NEW dim \in {"PSO", "POS"},
         NEW c \in LoadedPattern(s, t, dim).bm
  PROVE  c[1] = Query[t].pred
<1>1. c \in AddRow(s, dim, BitMatFor(dim, t), Query[t].pred).bm
  BY PatternIs DEF Dimension
<1>. QED
  BY <1>1 DEF AddRow

\* The position a variable has in a pattern is not one the file is split by.
LEMMA VariableAxis ==
  ASSUME NEW t \in TP, NEW dim, DimensionFits(dim, t), NEW j \in JvarsOf(t)
  PROVE  /\ dim \in Dimension
         /\ PosOf(t, j) \in {"SUB", "OBJ", "PRED"}
         /\ PosOf(t, j) = "SUB" => j = Query[t].sub
         /\ PosOf(t, j) = "OBJ" => j = Query[t].obj
         /\ PosOf(t, j) = "PRED" => j = Query[t].pred
         /\ <<dim, PosOf(t, j)>> \notin
              {<<"SPO", "PRED">>, <<"OPS", "PRED">>, <<"PSO", "SUB">>, <<"POS", "OBJ">>}
         /\ Width(dim, JoinAxis(dim, PosOf(t, j))) = NumIds(PosOf(t, j))
<1>1. /\ j < 0 /\ j \in {Query[t].sub, Query[t].obj, Query[t].pred}
      /\ Query[t].sub \in Int /\ Query[t].pred \in Int /\ Query[t].obj \in Int
  BY PatternType DEF JvarsOf, Jvar, Mentions, Fields
<1>2. /\ dim \in Dimension
      /\ dim \in {"SPO", "OPS"} => Query[t].pred > 0
      /\ dim = "PSO" => Query[t].sub > 0
      /\ dim = "POS" => Query[t].obj > 0
  BY DEF DimensionFits, Dimension
<1>3. /\ PosOf(t, j) \in {"SUB", "OBJ", "PRED"}
      /\ PosOf(t, j) = "SUB" => j = Query[t].sub
      /\ PosOf(t, j) = "OBJ" => j = Query[t].obj
      /\ PosOf(t, j) = "PRED" => j = Query[t].pred
  BY <1>1 DEF PosOf
<1>4. <<dim, PosOf(t, j)>> \notin
        {<<"SPO", "PRED">>, <<"OPS", "PRED">>, <<"PSO", "SUB">>, <<"POS", "OBJ">>}
  BY <1>1, <1>2, <1>3
<1>5. ASSUME NEW place \in {"SUB", "OBJ", "PRED"}, NEW d \in Dimension,
             <<d, place>> \notin {<<"SPO", "PRED">>, <<"OPS", "PRED">>, <<"PSO", "SUB">>, <<"POS", "OBJ">>}
      PROVE  Width(d, JoinAxis(d, place)) = NumIds(place)
  BY <1>5 DEF Width, JoinAxis, NumIds, Dimension
<1>. QED
  BY <1>2, <1>3, <1>4, <1>5

\* Whatever the data, the bitmats a plan starts from have their variables as rows and
\* columns, one on each axis, within the sizes pruning allocates for them, and a pattern
\* with a fixed predicate and a fixed end is the row of that predicate.
THEOREM WhatIsLoaded ==
  ASSUME NEW s, IsStore(s), PlannedFrom(s), Askable
  PROVE  WellLoaded /\ OneJvarPerAxis /\ Fetched
<1>1. ASSUME NEW p \in Plans, NEW t \in TP
      PROVE  /\ DimensionFits(p.dimension[t], t)
             /\ p.bm[t] = LoadedPattern(s, t, p.dimension[t]).bm
             /\ p.dimension[t] \in Dimension
  <2>1. PICK root, kids : p = PlanOf(s, root, kids)
    BY DEF PlannedFrom
  <2>2. /\ p.dimension[t] = LoadedDimension(s, TreeBfs(kids, root), t)
        /\ p.bm[t] = LoadedPattern(s, t, p.dimension[t]).bm
    BY <2>1, PlanIs
  <2>3. DimensionFits(p.dimension[t], t)
    BY <2>2, DimensionIs
  <2>. QED
    BY <2>2, <2>3 DEF DimensionFits, Dimension
<1>2. ASSUME NEW p \in Plans, NEW t \in TP, NEW c \in p.bm[t]
      PROVE  c \in Rows(p.dimension[t]) \X Cols(p.dimension[t])
  BY <1>1, PatternInRange
<1>3. WellLoaded
  <2>. SUFFICES ASSUME NEW p \in Plans, NEW t \in TP, NEW j \in JvarsOf(t)
                PROVE  /\ <<p.dimension[t], PosOf(t, j)>> \notin
                            {<<"SPO", "PRED">>, <<"OPS", "PRED">>, <<"PSO", "SUB">>, <<"POS", "OBJ">>}
                       /\ \A c \in p.bm[t] :
                            Coord(c, JoinAxis(p.dimension[t], PosOf(t, j))) <= NumIds(PosOf(t, j))
    BY DEF WellLoaded
  <2>. DEFINE dim == p.dimension[t]
              a == JoinAxis(dim, PosOf(t, j))
  <2>1. ASSUME NEW c \in p.bm[t]
        PROVE  Coord(c, a) <= Width(dim, a)
    <3>1. c \in (1 .. Width(dim, "subfold")) \X (1 .. Width(dim, "objfold"))
      BY <1>2 DEF Rows, Cols
    <3>2. a = "subfold" \/ a = "objfold"
      BY DEF JoinAxis
    <3>3. c[1] <= Width(dim, "subfold") /\ c[2] <= Width(dim, "objfold")
      BY <3>1
    <3>. QED
      BY <3>2, <3>3 DEF Coord
  <2>. QED
    BY <1>1, <2>1, VariableAxis
<1>4. OneJvarPerAxis
  <2>. SUFFICES ASSUME NEW p \in Plans, NEW t \in TP, NEW i \in JvarsOf(t), NEW j \in JvarsOf(t),
                       JoinAxis(p.dimension[t], PosOf(t, i)) = JoinAxis(p.dimension[t], PosOf(t, j))
                PROVE  i = j
    BY DEF OneJvarPerAxis
  <2>1. PosOf(t, i) = PosOf(t, j)
    <3>. DEFINE dim == p.dimension[t]
                x == PosOf(t, i)
                y == PosOf(t, j)
                split == {<<"SPO", "PRED">>, <<"OPS", "PRED">>, <<"PSO", "SUB">>, <<"POS", "OBJ">>}
    <3>1. /\ x \in {"SUB", "OBJ", "PRED"} /\ y \in {"SUB", "OBJ", "PRED"} /\ dim \in Dimension
          /\ <<dim, x>> \notin split /\ <<dim, y>> \notin split
      BY <1>1, VariableAxis
    <3>2. JoinAxis(dim, x) = JoinAxis(dim, y)
      OBVIOUS
    <3>. HIDE DEF dim, x, y
    <3>3. x = y
      BY <3>1, <3>2 DEF JoinAxis, Dimension
    <3>. QED
      BY <3>3 DEF x, y
  <2>. QED
    BY <1>1, <2>1, VariableAxis
<1>5. Fetched
  <2>. SUFFICES ASSUME NEW p \in Plans, NEW t \in TP
                PROVE  /\ JvarsOf(t) # {}
                       /\ p.bm[t] \subseteq J!Id \X J!Id
                       /\ J!Oriented(p.dimension[t], t)
                       /\ J!SingleRow(t) =>
                            /\ p.dimension[t] \in {"PSO", "POS"}
                            /\ \A c \in p.bm[t] : c[1] = Query[t].pred
    BY DEF Fetched
  <2>1. p.bm[t] \subseteq J!Id \X J!Id
    <3>1. Rows(p.dimension[t]) \subseteq J!Id /\ Cols(p.dimension[t]) \subseteq J!Id
      BY <1>1, SizesAre DEF Rows, Cols, J!Id, Axis
    <3>. QED
      BY <1>2, <3>1
  <2>2. J!Oriented(p.dimension[t], t)
    BY <1>1 DEF DimensionFits, J!Oriented
  <2>3. ASSUME J!SingleRow(t)
        PROVE  p.dimension[t] \in {"PSO", "POS"} /\ \A c \in p.bm[t] : c[1] = Query[t].pred
    <3>1. p.dimension[t] \in {"PSO", "POS"} /\ Query[t].pred > 0
      BY <1>1, <2>3, PatternType DEF DimensionFits, J!SingleRow
    <3>. QED
      BY <1>1, <3>1, RowIsPredicate
  <2>. QED
    BY <2>1, <2>2, <2>3 DEF Askable
<1>. QED
  BY <1>3, <1>4, <1>5

----------------------------------------------------------------------------
(* Folds.                                                                  *)

\* Whether the bit of the bitmat's first cell is in its object fold after all: it is
\* the first bitmat of the file, or has another bit in that column.
NoBitLost(s, dim, n) ==
  LET cells == StoredCells(s, dim, n)
  IN (\E x \in s : BitMatOf(dim, x) < n)
       => FirstCell(cells)[2] \in SimpleFold(cells \ {FirstCell(cells)}, "objfold")

\* Whether the bit it has of the next bitmat's first cell is one of its own.
NoBitAdded(s, dim, n) ==
  LET later == {BitMatOf(dim, x) : x \in s} \cap {m \in Int : m > n}
  IN later # {}
       => FirstCell(StoredCells(s, dim, Min(later)))[2]
            \in SimpleFold(StoredCells(s, dim, n), "objfold")

LEMMA StoredFold ==
  ASSUME NEW s, IsStore(s), NEW dim \in Dimension, NEW n, NoBitLost(s, dim, n)
  PROVE  /\ SimpleFold(StoredCells(s, dim, n), "objfold") \subseteq StoredObjfold(s, dim, n)
         /\ NoBitAdded(s, dim, n)
              => StoredObjfold(s, dim, n) = SimpleFold(StoredCells(s, dim, n), "objfold")
<1>. DEFINE cells == StoredCells(s, dim, n)
            present == {BitMatOf(dim, x) : x \in s}
            later == {m \in present : m > n}
            own == IF \E m \in present : m < n THEN cells \ {FirstCell(cells)} ELSE cells
            next == IF later = {} THEN {} ELSE {FirstCell(StoredCells(s, dim, Min(later)))}
<1>1. StoredObjfold(s, dim, n) = SimpleFold(own \cup next, "objfold")
  BY DEF StoredObjfold
<1>2. present \subseteq Int
  <2>. SUFFICES ASSUME NEW x \in s PROVE BitMatOf(dim, x) \in Int
    OBVIOUS
  <2>1. x \in (1 .. NumSubs) \X (1 .. NumPreds) \X (1 .. NumObjs)
    BY DEF IsStore
  <2>2. x[1] \in Int /\ x[2] \in Int /\ x[3] \in Int
    BY <2>1
  <2>. QED
    BY <2>2 DEF BitMatOf, Dimension
<1>3. later = present \cap {m \in Int : m > n}
  BY <1>2
<1>4. (\E m \in present : m < n) <=> \E x \in s : BitMatOf(dim, x) < n
  OBVIOUS
<1>5. (\E m \in present : m < n)
        => FirstCell(cells)[2] \in SimpleFold(cells \ {FirstCell(cells)}, "objfold")
  BY <1>4 DEF NoBitLost
<1>. DEFINE first == FirstCell(cells)
<1>. HIDE DEF cells, first, present, later
<1>6. own \subseteq cells /\ SimpleFold(cells, "objfold") \subseteq SimpleFold(own, "objfold")
  <2>1. ASSUME NEW c \in cells
        PROVE  \E d \in own : d[2] = c[2]
    <3>1. CASE ~\E m \in present : m < n
      BY <3>1
    <3>2. CASE (\E m \in present : m < n) /\ c # first
      BY <3>2 DEF first
    <3>3. CASE (\E m \in present : m < n) /\ c = first
      BY <1>5, <3>3 DEF SimpleFold, Coord, first
    <3>. QED
      BY <3>1, <3>2, <3>3
  <2>2. own \subseteq cells
    OBVIOUS
  <2>. HIDE DEF own
  <2>. QED
    BY <2>1, <2>2 DEF SimpleFold, Coord
<1>7. NoBitAdded(s, dim, n) => \A c \in next : c[2] \in SimpleFold(cells, "objfold")
  BY <1>3 DEF NoBitAdded, cells, present
<1>. HIDE DEF own, next
<1>. QED
  BY <1>1, <1>6, <1>7 DEF SimpleFold, Coord, cells

\* A filtered bitmat all of whose rows are kept is filed under its own ids.
NoneLeftOut(s, dim, n, c) ==
  \A x \in StoredCells(s, dim, n) : <<x[1], c>> \in StoredCells(s, dim, n)

LEMMA FilteredExact ==
  ASSUME NEW s, IsStore(s), NEW dim \in Dimension, NEW b, NEW c,
         NoneLeftOut(s, dim, Offset(s, dim, b), c),
         NEW cells, cells = {x \in StoredCells(s, dim, Offset(s, dim, b)) : x[2] = c}
  PROVE  FilteredLoad(s, dim, b, c)
           = [bm |-> cells, subfold |-> SimpleFold(cells, "subfold"),
              objfold |-> SimpleFold(cells, "objfold")]
<1>. DEFINE all == StoredCells(s, dim, Offset(s, dim, b))
            held == SimpleFold(all, "subfold")
            dropped == {r \in held : <<r, c>> \notin all}
            Filed(r) == r - Cardinality({d \in dropped : d < r})
<1>0. cells = {x \in all : x[2] = c}
  OBVIOUS
<1>1. FilteredLoad(s, dim, b, c)
        = [bm      |-> {<<Filed(r), c>> : r \in held \ dropped},
           subfold |-> held \ {ByteOf(d) + 1 : d \in dropped},
           objfold |-> IF held = dropped THEN {} ELSE {c}]
  BY DEF FilteredLoad
<1>2. /\ all \subseteq Rows(dim) \X Cols(dim)
      /\ \A x \in all : x = <<x[1], x[2]>> /\ x[1] \in Nat /\ <<x[1], c>> \in all
  <2>1. all \subseteq Rows(dim) \X Cols(dim)
    BY CellInRange
  <2>2. Rows(dim) \subseteq Nat
    BY SizesAre DEF Rows, Axis
  <2>. QED
    BY <2>1, <2>2 DEF NoneLeftOut
<1>. HIDE DEF all
<1>3. /\ \A r \in held : r \in Nat /\ <<r, c>> \in all
      /\ \A x \in all : x[1] \in held
  BY <1>2 DEF SimpleFold, Coord
<1>4. dropped = {}
  BY <1>3
<1>5. ASSUME NEW r \in held PROVE Filed(r) = r
  <2>1. {d \in dropped : d < r} = {}
    BY <1>4
  <2>2. Cardinality({d \in dropped : d < r}) = 0
    BY <2>1, FS_EmptySet
  <2>3. r \in Nat
    BY <1>3
  <2>. HIDE DEF dropped, held
  <2>. QED
    BY <2>2, <2>3
<1>6. cells = {<<r, c>> : r \in held}
  <2>1. ASSUME NEW x \in cells PROVE x[1] \in held /\ x = <<x[1], c>>
    BY <1>0, <1>2, <1>3
  <2>2. ASSUME NEW r \in held PROVE <<r, c>> \in cells
    BY <1>0, <1>3
  <2>. HIDE DEF held
  <2>. QED
    BY <2>1, <2>2
<1>. HIDE DEF Filed, dropped, held
<1>7. {<<Filed(r), c>> : r \in held \ dropped} = cells
  BY <1>4, <1>5, <1>6
<1>8. held \ {ByteOf(d) + 1 : d \in dropped} = held
  BY <1>4
<1>9. held = SimpleFold(cells, "subfold")
  <2>1. SimpleFold(cells, "subfold") = {x[1] : x \in cells}
    BY DEF SimpleFold, Coord
  <2>2. \A x \in cells : x[1] \in held
    BY <1>6
  <2>3. \A r \in held : <<r, c>> \in cells /\ <<r, c>>[1] = r
    BY <1>6
  <2>. QED
    BY <2>1, <2>2, <2>3
<1>10. (IF held = dropped THEN {} ELSE {c}) = SimpleFold(cells, "objfold")
  <2>1. SimpleFold(cells, "objfold") = {x[2] : x \in cells}
    BY DEF SimpleFold, Coord
  <2>2. \A x \in cells : x[2] = c /\ held # {}
    BY <1>6
  <2>3. \A r \in held : <<r, c>> \in cells /\ <<r, c>>[2] = c
    BY <1>6
  <2>4. CASE held = {}
    BY <1>4, <2>1, <2>2, <2>4
  <2>5. CASE held # {}
    BY <1>4, <2>1, <2>2, <2>3, <2>5
  <2>. QED
    BY <2>4, <2>5
<1>. QED
  BY <1>1, <1>7, <1>8, <1>9, <1>10

\* The bitmat a plan reads a pattern from, and what the loader must have filed right.
ReadFrom(s, p, t) == Offset(s, p.dimension[t], BitMatFor(p.dimension[t], t))

FirstBitsKept(s) == \A p \in Plans : \A t \in LoadedLater :
                      NoBitLost(s, p.dimension[t], ReadFrom(s, p, t))

FirstBitsOwn(s) == \A p \in Plans : \A t \in LoadedLater :
                     NoBitAdded(s, p.dimension[t], ReadFrom(s, p, t))

\* A pattern is loaded by filtering rows.
Filters(dim, t) == /\ dim \in {"PSO", "POS"}
                   /\ Query[t].pred <= 0 /\ OtherEnd(dim, t) > 0

RowsFiledRight(s) == \A p \in Plans : \A t \in TP :
  Filters(p.dimension[t], t)
    => NoneLeftOut(s, p.dimension[t], ReadFrom(s, p, t), OtherEnd(p.dimension[t], t))

\* The folds other than those the loader dumps are made from the cells.
LEMMA PatternFolds ==
  ASSUME NEW s, IsStore(s), NEW t \in TP, NEW dim \in Dimension, NEW a \in Axis,
         NEW n, n = Offset(s, dim, BitMatFor(dim, t)),
         Filters(dim, t) => NoneLeftOut(s, dim, n, OtherEnd(dim, t))
  PROVE  \/ LoadedPattern(s, t, dim)[a] = SimpleFold(LoadedPattern(s, t, dim).bm, a)
         \/ /\ a = "objfold" /\ dim \in {"SPO", "OPS"}
            /\ LoadedPattern(s, t, dim).bm = StoredCells(s, dim, n)
            /\ LoadedPattern(s, t, dim).objfold = StoredObjfold(s, dim, n)
<1>. DEFINE lp == LoadedPattern(s, t, dim)
<1>0. a = "subfold" \/ a = "objfold"
  BY DEF Axis
<1>1. CASE dim \in {"SPO", "OPS"}
  <2>1. lp = LoadFromDumpFile(s, dim, BitMatFor(dim, t))
    BY <1>1, PatternIs
  <2>. HIDE DEF lp
  <2>2. /\ lp.bm = StoredCells(s, dim, n)
        /\ lp.subfold = SimpleFold(StoredCells(s, dim, n), "subfold")
        /\ lp.objfold = StoredObjfold(s, dim, n)
    BY <1>1, <2>1 DEF LoadFromDumpFile
  <2>3. lp[a] = SimpleFold(lp.bm, a) \/ a = "objfold"
    BY <1>0, <2>2
  <2>. QED
    BY <1>1, <2>2, <2>3 DEF lp
<1>2. CASE dim \in {"PSO", "POS"} /\ Query[t].pred > 0
  <2>1. lp = AddRow(s, dim, BitMatFor(dim, t), Query[t].pred)
    BY <1>2, PatternIs
  <2>. HIDE DEF lp
  <2>2. lp[a] = SimpleFold(lp.bm, a)
    BY <1>0, <2>1 DEF AddRow
  <2>. QED
    BY <2>2 DEF lp
<1>3. CASE dim \in {"PSO", "POS"} /\ Query[t].pred <= 0 /\ OtherEnd(dim, t) > 0
  <2>. DEFINE c == OtherEnd(dim, t)
              cells == {x \in StoredCells(s, dim, Offset(s, dim, BitMatFor(dim, t))) : x[2] = c}
  <2>1. lp = FilteredLoad(s, dim, BitMatFor(dim, t), c)
    BY <1>3, PatternIs
  <2>2. NoneLeftOut(s, dim, Offset(s, dim, BitMatFor(dim, t)), c)
    BY <1>3 DEF Filters
  <2>3. FilteredLoad(s, dim, BitMatFor(dim, t), c)
          = [bm |-> cells, subfold |-> SimpleFold(cells, "subfold"),
             objfold |-> SimpleFold(cells, "objfold")]
    BY <2>2, FilteredExact
  <2>. HIDE DEF lp, cells, c
  <2>4. lp[a] = SimpleFold(lp.bm, a)
    BY <1>0, <2>1, <2>3
  <2>. QED
    BY <2>4 DEF lp
<1>4. CASE dim \in {"PSO", "POS"} /\ Query[t].pred <= 0 /\ OtherEnd(dim, t) <= 0
  <2>1. lp = PopulateObjfold(LoadFromDumpFile(s, dim, BitMatFor(dim, t)))
    BY <1>4, PatternIs
  <2>. HIDE DEF lp
  <2>2. lp[a] = SimpleFold(lp.bm, a)
    BY <1>0, <2>1 DEF PopulateObjfold, LoadFromDumpFile
  <2>. QED
    BY <2>2 DEF lp
<1>. QED
  BY <1>1, <1>2, <1>3, <1>4, WaysToLoad

\* The folds pruning starts from name every id of a join variable, unless the loader
\* filed the bit of a first triple with the bitmat before, or a filtered row too low;
\* and no other id, unless a fold has the bit of the next bitmat.
THEOREM WhatFoldsAre ==
  ASSUME NEW s, IsStore(s), PlannedFrom(s), Askable, RowsFiledRight(s), FirstBitsKept(s)
  PROVE  CompleteFolds /\ (FirstBitsOwn(s) => ExactFolds)
<1>. SUFFICES ASSUME NEW p \in Plans, NEW t \in TP, NEW j \in JvarsOf(t), NEW a,
                     a = JoinAxis(p.dimension[t], PosOf(t, j))
              PROVE  /\ SimpleFold(p.bm[t], a) \subseteq p.fold[<<t, a>>]
                     /\ FirstBitsOwn(s) => SimpleFold(p.bm[t], a) = p.fold[<<t, a>>]
  BY DEF CompleteFolds, ExactFolds, FoldsComplete, FoldsExact
<1>. DEFINE dim == p.dimension[t]
            lp == LoadedPattern(s, t, dim)
            n == ReadFrom(s, p, t)
<1>1. a \in Axis
  BY DEF JoinAxis, Axis
<1>2. DimensionFits(dim, t) /\ p.bm[t] = lp.bm /\ p.fold[<<t, a>>] = lp[a]
  <2>1. PICK root, kids : p = PlanOf(s, root, kids)
    BY DEF PlannedFrom
  <2>2. /\ dim = LoadedDimension(s, TreeBfs(kids, root), t)
        /\ p.bm[t] = lp.bm /\ p.fold[<<t, a>>] = lp[a]
    BY <1>1, <2>1, PlanIs
  <2>. QED
    BY <2>2, DimensionIs
<1>3. dim \in Dimension
  BY <1>2 DEF DimensionFits, Dimension
<1>4. \/ lp[a] = SimpleFold(lp.bm, a)
      \/ /\ a = "objfold" /\ dim \in {"SPO", "OPS"}
         /\ lp.bm = StoredCells(s, dim, n) /\ lp.objfold = StoredObjfold(s, dim, n)
  <2>1. n = Offset(s, dim, BitMatFor(dim, t))
    BY DEF ReadFrom
  <2>2. Filters(dim, t) => NoneLeftOut(s, dim, n, OtherEnd(dim, t))
    BY DEF RowsFiledRight
  <2>. QED
    BY <1>1, <1>3, <2>1, <2>2, PatternFolds
<1>5. ASSUME a = "objfold", dim \in {"SPO", "OPS"}
      PROVE  NoBitLost(s, dim, n) /\ (FirstBitsOwn(s) => NoBitAdded(s, dim, n))
  <2>1. /\ Query[t].sub \in Int /\ Query[t].obj \in Int
        /\ j < 0 /\ Query[t].pred > 0
        /\ dim = "SPO" => Query[t].sub < 0
        /\ dim = "OPS" => Query[t].obj < 0
    BY <1>2, <1>5, PatternType DEF DimensionFits, JvarsOf, Jvar
  <2>2. /\ PosOf(t, j) = "SUB" => j = Query[t].sub
        /\ PosOf(t, j) = "OBJ" => j = Query[t].obj
        /\ PosOf(t, j) \in {"SUB", "OBJ", "PRED"} /\ PosOf(t, j) # "PRED"
    BY <1>2, <1>5, VariableAxis
  <2>3. /\ dim = "SPO" => PosOf(t, j) = "OBJ"
        /\ dim = "OPS" => PosOf(t, j) = "SUB"
    BY <1>5, <2>2 DEF JoinAxis
  <2>4. t \in LoadedLater
    BY <1>5, <2>1, <2>2, <2>3 DEF LoadedLater
  <2>. QED
    BY <2>4 DEF FirstBitsKept, FirstBitsOwn
<1>. HIDE DEF dim, lp, n
<1>6. CASE lp[a] = SimpleFold(lp.bm, a)
  BY <1>2, <1>6
<1>7. CASE lp[a] # SimpleFold(lp.bm, a)
  BY <1>2, <1>3, <1>4, <1>5, <1>7, StoredFold
<1>. QED
  BY <1>6, <1>7

----------------------------------------------------------------------------
(* The answer, over the data.                                              *)

\* The ids of a query occur in the data: the dictionary has no others.
KnownIds(s) == \A t \in TP :
  /\ Query[t].sub > 0 => \E x \in s : x[1] = Query[t].sub
  /\ Query[t].pred > 0 => \E x \in s : x[2] = Query[t].pred
  /\ Query[t].obj > 0 => \E x \in s : x[3] = Query[t].obj

\* A triple of the data has the fixed positions of a pattern.
Fits(x, t) == /\ Query[t].sub > 0 => x[1] = Query[t].sub
              /\ Query[t].pred > 0 => x[2] = Query[t].pred
              /\ Query[t].obj > 0 => x[3] = Query[t].obj

AsTriple(x) == [sub |-> x[1], pred |-> x[2], obj |-> x[3]]

\* The rows of a query over the data s: a triple for each pattern, with one id for each
\* variable, and a common one where it is both a subject and an object.
AnswerOver(s) ==
  {r \in [TP -> {AsTriple(x) : x \in s}] :
     /\ \A t \in TP : \E x \in s : Fits(x, t) /\ r[t] = AsTriple(x)
     /\ \A t, u \in TP : \A f, g \in Fields :
          Query[t][f] < 0 /\ Query[t][f] = Query[u][g] => r[t][f] = r[u][g]
     /\ \A t, u \in TP :
          Query[t].sub < 0 /\ Query[t].sub = Query[u].obj => r[t].sub <= NumCommSO}

\* The fixed positions are the number of the bitmat, and a row or a column of it.
LEMMA KnownBitMat ==
  ASSUME NEW s, KnownIds(s), NEW t \in TP, NEW dim, DimensionFits(dim, t)
  PROVE  Offset(s, dim, BitMatFor(dim, t)) = BitMatFor(dim, t)
<1>1. \E x \in s : BitMatOf(dim, x) = BitMatFor(dim, t)
  BY DEF DimensionFits, KnownIds, BitMatOf, BitMatFor
<1>. QED
  BY <1>1 DEF Offset

LEMMA FitsIs ==
  ASSUME NEW t \in TP, JvarsOf(t) # {}, NEW dim, DimensionFits(dim, t), NEW x
  PROVE  Fits(x, t) <=>
           /\ BitMatOf(dim, x) = BitMatFor(dim, t)
           /\ dim \in {"PSO", "POS"} =>
                /\ Query[t].pred > 0 => CellOf(dim, x)[1] = Query[t].pred
                /\ Query[t].pred <= 0 /\ OtherEnd(dim, t) > 0 => CellOf(dim, x)[2] = OtherEnd(dim, t)
<1>1. Query[t].sub \in Int /\ Query[t].pred \in Int /\ Query[t].obj \in Int
  BY PatternType
<1>2. ~(Query[t].sub > 0 /\ Query[t].pred > 0 /\ Query[t].obj > 0)
  BY <1>1 DEF JvarsOf, Jvar, Mentions, Fields
<1>3. CASE dim = "SPO" \/ dim = "OPS"
  BY <1>1, <1>3 DEF Fits, DimensionFits, BitMatOf, BitMatFor
<1>4. CASE dim = "PSO"
  BY <1>1, <1>2, <1>4 DEF Fits, DimensionFits, BitMatOf, BitMatFor, CellOf, OtherEnd
<1>5. CASE dim = "POS"
  BY <1>1, <1>2, <1>5 DEF Fits, DimensionFits, BitMatOf, BitMatFor, CellOf, OtherEnd
<1>. QED
  BY <1>3, <1>4, <1>5 DEF DimensionFits

\* A pattern's bitmat has the cells of the triples that fit it, and no others.
LEMMA LoadedCells ==
  ASSUME NEW s, IsStore(s), KnownIds(s), NEW t \in TP, JvarsOf(t) # {}, NEW dim, DimensionFits(dim, t),
         Filters(dim, t) => NoneLeftOut(s, dim, Offset(s, dim, BitMatFor(dim, t)), OtherEnd(dim, t))
  PROVE  LoadedPattern(s, t, dim).bm = {CellOf(dim, x) : x \in {y \in s : Fits(y, t)}}
<1>. DEFINE n == BitMatFor(dim, t)
            all == StoredCells(s, dim, n)
            c == OtherEnd(dim, t)
            b == Query[t].pred
            lp == LoadedPattern(s, t, dim)
            Taken(d) == dim \in {"PSO", "POS"} =>
                         /\ b > 0 => d[1] = b
                         /\ b <= 0 /\ c > 0 => d[2] = c
<1>1. dim \in Dimension /\ Offset(s, dim, n) = n
  BY KnownBitMat DEF DimensionFits, Dimension
<1>2. b \in Int /\ c \in Int
  BY PatternType DEF OtherEnd
<1>3. lp.bm = {d \in all : Taken(d)}
  <2>1. CASE dim \in {"SPO", "OPS"}
    <3>1. lp = LoadFromDumpFile(s, dim, n)
      BY <1>1, <2>1, PatternIs
    <3>2. lp.bm = all
      BY <1>1, <3>1 DEF LoadFromDumpFile
    <3>. HIDE DEF lp, all, n, b, c
    <3>3. \A d : Taken(d)
      BY <2>1
    <3>. HIDE DEF Taken
    <3>. QED
      BY <3>2, <3>3
  <2>2. CASE dim \in {"PSO", "POS"} /\ b > 0
    <3>1. lp = AddRow(s, dim, n, b)
      BY <1>1, <2>2, PatternIs
    <3>2. lp.bm = {d \in all : d[1] = b}
      BY <1>1, <3>1 DEF AddRow
    <3>. HIDE DEF lp, all, n, b, c
    <3>3. ~(b <= 0)
      BY <1>2, <2>2
    <3>4. \A d : Taken(d) <=> d[1] = b
      BY <2>2, <3>3
    <3>. HIDE DEF Taken
    <3>. QED
      BY <3>2, <3>4
  <2>3. CASE dim \in {"PSO", "POS"} /\ b <= 0 /\ c > 0
    <3>1. lp = FilteredLoad(s, dim, n, c)
      BY <1>1, <2>3, PatternIs
    <3>2. NoneLeftOut(s, dim, Offset(s, dim, n), c)
      BY <2>3 DEF Filters
    <3>. DEFINE cells == {d \in StoredCells(s, dim, Offset(s, dim, n)) : d[2] = c}
    <3>3. FilteredLoad(s, dim, n, c)
            = [bm |-> cells, subfold |-> SimpleFold(cells, "subfold"),
               objfold |-> SimpleFold(cells, "objfold")]
      BY <1>1, <3>2, FilteredExact
    <3>4. cells = {d \in all : d[2] = c}
      BY <1>1
    <3>. HIDE DEF lp, n, b, c, cells, all
    <3>5. lp.bm = cells
      BY <3>1, <3>3
    <3>6. \A d : Taken(d) <=> d[2] = c
      BY <1>2, <2>3
    <3>. HIDE DEF Taken
    <3>. QED
      BY <3>4, <3>5, <3>6
  <2>4. CASE dim \in {"PSO", "POS"} /\ b <= 0 /\ c <= 0
    <3>1. lp = PopulateObjfold(LoadFromDumpFile(s, dim, n))
      BY <1>1, <2>4, PatternIs
    <3>2. lp.bm = all
      BY <1>1, <3>1 DEF PopulateObjfold, LoadFromDumpFile
    <3>. HIDE DEF lp, all, n, b, c
    <3>3. \A d : Taken(d)
      BY <1>2, <2>4
    <3>. HIDE DEF Taken
    <3>. QED
      BY <3>2, <3>3
  <2>. QED
    BY <1>1, <2>1, <2>2, <2>3, <2>4, WaysToLoad
<1>4. ASSUME NEW x \in s, Fits(x, t) PROVE CellOf(dim, x) \in lp.bm
  <2>1. BitMatOf(dim, x) = n /\ Taken(CellOf(dim, x))
    BY <1>4, FitsIs
  <2>2. CellOf(dim, x) \in all
    BY <2>1 DEF StoredCells
  <2>. HIDE DEF lp, all, n, b, c, Taken
  <2>. QED
    BY <1>3, <2>1, <2>2
<1>5. ASSUME NEW d \in lp.bm PROVE \E x \in s : Fits(x, t) /\ d = CellOf(dim, x)
  <2>1. d \in all /\ Taken(d)
    <3>. HIDE DEF lp, all, n, b, c, Taken
    <3>. QED
      BY <1>3
  <2>2. PICK x \in s : BitMatOf(dim, x) = n /\ d = CellOf(dim, x)
    BY <2>1 DEF StoredCells
  <2>3. Taken(CellOf(dim, x))
    <3>. HIDE DEF Taken
    <3>. QED
      BY <2>1, <2>2
  <2>4. Fits(x, t)
    BY <2>2, <2>3, FitsIs
  <2>. QED
    BY <2>2, <2>4
<1>. HIDE DEF lp
<1>. QED
  BY <1>4, <1>5 DEF lp

\* The triples of these cells are those that fit.
LEMMA LoadedTriples ==
  ASSUME NEW s, IsStore(s), NEW t \in TP, NEW dim, DimensionFits(dim, t), JvarsOf(t) # {},
         NEW x \in s, Fits(x, t)
  PROVE  J!TripleOf(dim, t, CellOf(dim, x)) = AsTriple(x)
<1>1. BitMatOf(dim, x) = BitMatFor(dim, t)
  BY FitsIs
<1>. QED
  BY <1>1 DEF DimensionFits, BitMatOf, BitMatFor, CellOf, J!TripleOf, AsTriple

\* The data a query is answered over: loaded by the rules above, no row misfiled.
ServedFrom(s) == IsStore(s) /\ PlannedFrom(s) /\ Askable /\ KnownIds(s) /\ RowsFiledRight(s)

LEMMA PlanTriples ==
  ASSUME NEW s, ServedFrom(s), NEW p \in Plans, NEW t \in TP
  PROVE  /\ \A c \in p.bm[t] :
              \E x \in s : Fits(x, t) /\ J!TripleOf(p.dimension[t], t, c) = AsTriple(x)
         /\ \A x \in s : Fits(x, t) =>
              \E c \in p.bm[t] : J!TripleOf(p.dimension[t], t, c) = AsTriple(x)
<1>. DEFINE dim == p.dimension[t]
            fitting == {y \in s : Fits(y, t)}
<1>1. IsStore(s) /\ PlannedFrom(s) /\ Askable /\ KnownIds(s) /\ JvarsOf(t) # {}
  BY DEF ServedFrom, Askable
<1>2. DimensionFits(dim, t) /\ p.bm[t] = LoadedPattern(s, t, dim).bm
  <2>1. PICK root, kids : p = PlanOf(s, root, kids)
    BY <1>1 DEF PlannedFrom
  <2>2. /\ dim = LoadedDimension(s, TreeBfs(kids, root), t)
        /\ p.bm[t] = LoadedPattern(s, t, dim).bm
    BY <2>1, PlanIs
  <2>. QED
    BY <1>1, <2>2, DimensionIs
<1>3. Filters(dim, t) => NoneLeftOut(s, dim, Offset(s, dim, BitMatFor(dim, t)), OtherEnd(dim, t))
  BY DEF ServedFrom, RowsFiledRight, ReadFrom
<1>4. p.bm[t] = {CellOf(dim, x) : x \in fitting}
  BY <1>1, <1>2, <1>3, LoadedCells
<1>5. \A x \in fitting : J!TripleOf(dim, t, CellOf(dim, x)) = AsTriple(x)
  BY <1>1, <1>2, LoadedTriples
<1>. HIDE DEF dim
<1>6. /\ \A c \in p.bm[t] : \E x \in fitting : c = CellOf(dim, x)
      /\ \A x \in fitting : CellOf(dim, x) \in p.bm[t]
  BY <1>4
<1>7. \A x : x \in fitting <=> x \in s /\ Fits(x, t)
  OBVIOUS
<1>. HIDE DEF fitting
<1>. QED
  BY <1>5, <1>6, <1>7 DEF dim

\* A choice of triples that agree on the variables is a row of the answer.
LEMMA WayIsAnswer ==
  ASSUME plan \in Plans, OnePlace, Fetched, Told, NEW S, NEW r \in [TP -> S],
         \A t \in TP : \E c \in plan.bm[t] : r[t] = J!TripleOf(plan.dimension[t], t, c),
         \A t, u \in TP : \A f, g \in Fields :
           Query[t][f] < 0 /\ Query[t][f] = Query[u][g] => r[t][f] = r[u][g],
         \A t, u \in TP :
           Query[t].sub < 0 /\ Query[t].sub = Query[u].obj => r[t].sub <= NumCommSO
  PROVE  r \in expected
<1>. DEFINE cell == [t \in TP |-> CHOOSE c \in plan.bm[t] : r[t] = J!TripleOf(plan.dimension[t], t, c)]
            At(j, p) == p \in TP \X Fields /\ Query[p[1]][p[2]] = j
            Bind(j) == LET p == CHOOSE p : At(j, p) IN r[p[1]][p[2]]
            sol == [j \in Jvar |-> Bind(j)]
<1>1. ASSUME NEW t \in TP
      PROVE  cell[t] \in plan.bm[t] /\ r[t] = J!TripleOf(plan.dimension[t], t, cell[t])
  OBVIOUS
<1>. HIDE DEF cell
<1>2. ASSUME NEW t \in TP, NEW f \in Fields, Query[t][f] < 0
      PROVE  r[t][f] = Coord(cell[t], AxisOf(t, Query[t][f]))
  <2>1. J!TripleOf(plan.dimension[t], t, cell[t])[f] = Coord(cell[t], AxisOf(t, Query[t][f]))
    BY <1>2, TripleField
  <2>. QED
    BY <1>1, <2>1
<1>. HIDE DEF Bind
<1>3. ASSUME NEW j \in Jvar
      PROVE  \E t \in TP : \E f \in Fields : Query[t][f] = j /\ j < 0 /\ sol[j] = r[t][f]
  <2>. DEFINE p == CHOOSE p : At(j, p)
  <2>1. PICK t \in TP, f \in Fields : Query[t][f] = j
    BY DEF Jvar
  <2>2. At(j, <<t, f>>)
    BY <2>1
  <2>3. At(j, p)
    BY <2>2
  <2>. HIDE DEF p
  <2>4. sol[j] = r[p[1]][p[2]]
    BY DEF Bind, p
  <2>5. p[1] \in TP /\ p[2] \in Fields /\ Query[p[1]][p[2]] = j /\ j < 0
    BY <2>3 DEF Jvar
  <2>. QED
    BY <2>4, <2>5
<1>4. sol = [j \in Jvar |-> sol[j]]
  OBVIOUS
<1>. HIDE DEF sol
<1>5. ASSUME NEW t \in TP, NEW f \in Fields, Query[t][f] < 0
      PROVE  Query[t][f] \in Jvar /\ r[t][f] = sol[Query[t][f]]
  <2>1. Query[t][f] \in Jvar
    BY <1>5 DEF Jvar
  <2>2. PICK u \in TP, g \in Fields : Query[u][g] = Query[t][f] /\ sol[Query[t][f]] = r[u][g]
    BY <1>3, <2>1
  <2>3. r[u][g] = r[t][f]
    BY <1>5, <2>2
  <2>. QED
    BY <2>1, <2>2, <2>3
<1>6. ASSUME NEW t \in TP, NEW j \in JvarsOf(t)
      PROVE  sol[j] = Coord(cell[t], AxisOf(t, j))
  <2>1. PICK f \in Fields : Query[t][f] = j /\ j < 0
    BY DEF JvarsOf, Mentions, Jvar
  <2>. QED
    BY <1>2, <1>5, <2>1
<1>7. ASSUME NEW j \in Jvar
      PROVE  sol[j] \in LoadedIds /\ (SOVar(j) => sol[j] <= NumCommSO)
  <2>1. PICK t \in TP : j \in JvarsOf(t)
    BY <1>3 DEF JvarsOf, Mentions
  <2>2. sol[j] \in SimpleFold(plan.bm[t], AxisOf(t, j))
    BY <1>1, <1>6, <2>1 DEF SimpleFold
  <2>3. AxisOf(t, j) \in Axis
    BY DEF AxisOf, JoinAxis, Axis
  <2>4. ASSUME SOVar(j) PROVE sol[j] <= NumCommSO
    <3>1. PICK u \in TP, v \in TP : PosOf(u, j) = "SUB" /\ PosOf(v, j) = "OBJ"
      BY <2>4 DEF SOVar
    <3>2. Query[u].sub = j /\ Query[v].obj = j /\ j < 0
      BY <3>1 DEF PosOf, Jvar
    <3>3. r[u].sub <= NumCommSO /\ r[u].sub = sol[j]
      <4>1. r[u]["sub"] = sol[Query[u]["sub"]]
        BY <1>5, <3>2 DEF Fields
      <4>. QED
        BY <3>2, <4>1
    <3>. QED
      BY <3>3
  <2>. QED
    BY <2>2, <2>3, <2>4 DEF LoadedIds
<1>8. ASSUME NEW t \in TP
      PROVE  Matches(cell[t], t, sol)
  BY <1>6 DEF Matches
<1>9. sol \in [Jvar -> LoadedIds]
  BY <1>4, <1>7
<1>10. sol \in answers
  BY <1>1, <1>7, <1>8, <1>9 DEF Told, Solutions
<1>11. \A t \in TP : r[t] \in Fitting(sol)[t]
  BY <1>1, <1>8, SameTriples DEF Fitting
<1>12. r \in Ways(Fitting(sol), Len(Query))
  <2>1. r \in [TP -> UNION {Fitting(sol)[t] : t \in TP}]
    BY <1>11
  <2>. QED
    BY <1>11, <2>1, PatternsFrom1 DEF Ways
<1>. QED
  BY <1>10, <1>12, RowsOfAre DEF Told, Answer

\* And a row of the answer is such a choice.
LEMMA AnswerIsWay ==
  ASSUME plan \in Plans, OnePlace, Fetched, Told, NEW r \in expected
  PROVE  /\ \E S : r \in [TP -> S]
         /\ \A t \in TP : \E c \in plan.bm[t] : r[t] = J!TripleOf(plan.dimension[t], t, c)
         /\ \A t, u \in TP : \A f, g \in Fields :
              Query[t][f] < 0 /\ Query[t][f] = Query[u][g] => r[t][f] = r[u][g]
         /\ \A t, u \in TP :
              Query[t].sub < 0 /\ Query[t].sub = Query[u].obj => r[t].sub <= NumCommSO
<1>1. PICK sol \in answers : r \in Ways(Fitting(sol), Len(Query))
  BY RowsOfAre DEF Told, Answer
<1>2. r \in [TP -> UNION {Fitting(sol)[t] : t \in TP}] /\ \A t \in TP : r[t] \in Fitting(sol)[t]
  BY <1>1, PatternsFrom1 DEF Ways
<1>3. ASSUME NEW t \in TP
      PROVE  \E c \in plan.bm[t] : r[t] = J!TripleOf(plan.dimension[t], t, c) /\ Matches(c, t, sol)
  BY <1>2, SameTriples DEF Fitting
<1>4. ASSUME NEW t \in TP, NEW f \in Fields, Query[t][f] < 0
      PROVE  r[t][f] = sol[Query[t][f]]
  BY <1>3, <1>4, TripleField DEF Matches
<1>5. ASSUME NEW t \in TP, NEW u \in TP, Query[t].sub < 0, Query[t].sub = Query[u].obj
      PROVE  r[t].sub <= NumCommSO
  <2>. DEFINE j == Query[t].sub
  <2>1. j \in Jvar /\ Mentions(t, j) /\ Mentions(u, j)
    BY <1>5 DEF Jvar, Mentions, Fields
  <2>2. PosOf(t, j) = "SUB"
    BY DEF PosOf
  <2>3. PosOf(u, j) = "OBJ"
    <3>1. Query[u].sub # j
      <4>1. Query[u]["sub"] < 0 /\ Query[u]["sub"] = Query[u]["obj"] => "sub" = "obj"
        BY DEF OnePlace, Fields
      <4>. QED
        BY <1>5, <4>1
    <3>. QED
      BY <1>5, <3>1 DEF PosOf
  <2>4. SOVar(j)
    BY <2>1, <2>2, <2>3 DEF SOVar
  <2>5. sol[j] <= NumCommSO
    BY <2>1, <2>4 DEF Told, Solutions
  <2>6. r[t]["sub"] = sol[Query[t]["sub"]]
    BY <1>4, <1>5 DEF Fields
  <2>. QED
    BY <2>5, <2>6
<1>6. \E S : r \in [TP -> S]
  BY <1>2
<1>7. \A t, u \in TP : \A f, g \in Fields :
        Query[t][f] < 0 /\ Query[t][f] = Query[u][g] => r[t][f] = r[u][g]
  <2>. SUFFICES ASSUME NEW t \in TP, NEW u \in TP, NEW f \in Fields, NEW g \in Fields,
                       Query[t][f] < 0, Query[t][f] = Query[u][g]
                PROVE  r[t][f] = r[u][g]
    OBVIOUS
  <2>1. r[t][f] = sol[Query[t][f]] /\ r[u][g] = sol[Query[u][g]]
    BY <1>4
  <2>. QED
    BY <2>1
<1>8. \A t \in TP : \E c \in plan.bm[t] : r[t] = J!TripleOf(plan.dimension[t], t, c)
  BY <1>3
<1>. QED
  BY <1>5, <1>6, <1>7, <1>8

\* The answer over the bitmats as loaded is the answer over the data.
LEMMA ExpectedIs ==
  ASSUME NEW s, ServedFrom(s), OnePlace, plan \in Plans, Told
  PROVE  expected = AnswerOver(s)
<1>1. Fetched
  BY WhatIsLoaded DEF ServedFrom
<1>2. ASSUME NEW r \in expected PROVE r \in AnswerOver(s)
  <2>1. \A t \in TP : \E c \in plan.bm[t] : r[t] = J!TripleOf(plan.dimension[t], t, c)
    BY <1>1, AnswerIsWay
  <2>2. \A t \in TP : \E x \in s : Fits(x, t) /\ r[t] = AsTriple(x)
    BY <2>1, PlanTriples
  <2>3. r \in [TP -> {AsTriple(x) : x \in s}]
    BY <1>1, <2>2, AnswerIsWay
  <2>. QED
    BY <1>1, <2>2, <2>3, AnswerIsWay DEF AnswerOver
<1>3. ASSUME NEW r \in AnswerOver(s) PROVE r \in expected
  <2>1. \A t \in TP : \E c \in plan.bm[t] : r[t] = J!TripleOf(plan.dimension[t], t, c)
    BY PlanTriples DEF AnswerOver
  <2>. QED
    BY <1>1, <2>1, WayIsAnswer DEF AnswerOver
<1>. QED
  BY <1>2, <1>3

----------------------------------------------------------------------------
(* From the data to the results.                                           *)

\* What a query is asked for is the answer over the data.
THEOREM ExpectedIsAnswer ==
  ASSUME NEW s, ServedFrom(s), OnePlace
  PROVE  RunSpec => [](expected = AnswerOver(s))
<1>1. RunInit => expected = AnswerOver(s)
  <2>1. RunInit => plan \in Plans /\ Told
    BY DEF RunInit, Init, Told
  <2>. QED
    BY <2>1, ExpectedIs
<1>2. expected = AnswerOver(s) /\ [RunNext]_runVars => (expected = AnswerOver(s))'
  BY RunFrame
<1>. QED
  BY <1>1, <1>2, PTL DEF RunSpec

\* No triple of an answer is cleared from its bitmat, in a query over data that loading
\* misfiles nothing of.
THEOREM DataLosesNothing ==
  ASSUME NEW s, ServedFrom(s), FirstBitsKept(s), PartialLastByte
  PROVE  RunSpec => []NoAnswerLost
<1>1. CompleteFolds
  BY WhatFoldsAre DEF ServedFrom
<1>. QED
  BY <1>1, QueryLosesNothing

\* A query that pruning gives up has no answer over the data.
THEOREM ZeroOfData ==
  ASSUME NEW s, ServedFrom(s), FirstBitsKept(s), PartialLastByte, OnePlace
  PROVE  RunSpec => [](pc = "false" => AnswerOver(s) = {})
<1>1. CompleteFolds
  BY WhatFoldsAre DEF ServedFrom
<1>2. RunSpec => [](pc = "false" => expected = {})
  BY <1>1, ZeroIsTrue
<1>3. RunSpec => [](expected = AnswerOver(s))
  BY ExpectedIsAnswer
<1>4. (pc = "false" => expected = {}) /\ expected = AnswerOver(s) => (pc = "false" => AnswerOver(s) = {})
  OBVIOUS
<1>. QED
  BY <1>2, <1>3, <1>4, PTL

\* The lists of a query are those build_graph_new makes of it and its variables are in
\* the order of a spanning tree; a variable is in one position of a pattern.
WalkedBy == /\ NextTP = TPsOfJvar /\ Adj = AdjTPs /\ Connected /\ PlannedByTree
            /\ TreeEdges = TreesOfTPs
            /\ NullIsNoFold /\ OnePlace /\ RowsReach

\* A predicate variable is no subject or object, so patterns that share a variable are
\* neighbours.
LEMMA SharedIsShared ==
  ASSUME NEW t \in TP, NEW u \in TP
  PROVE  SharesVar(t, u) <=> \E f, g \in Fields : J!Share(t, f, u, g)
<1>1. SharesVar(t, u) => \E f, g \in Fields : J!Share(t, f, u, g)
  BY DEF SharesVar, J!Share, Fields
<1>2. ASSUME NEW f \in Fields, NEW g \in Fields, J!Share(t, f, u, g)
      PROVE  SharesVar(t, u)
  <2>. DEFINE j == Query[t][f]
  <2>1. j < 0 /\ Query[u][g] = j /\ j \in Jvar
    BY <1>2 DEF J!Share, Jvar
  <2>2. Mentions(t, j) /\ Mentions(u, j)
    BY <2>1 DEF Mentions
  <2>3. (PosOf(t, j) = "PRED") <=> (PosOf(u, j) = "PRED")
    BY <2>1, <2>2, NoMixedPredicateJoin
  <2>4. Query[t].sub = j \/ Query[t].obj = j \/ Query[t].pred = j
    BY DEF Fields
  <2>5. Query[u].sub = j \/ Query[u].obj = j \/ Query[u].pred = j
    BY <2>1 DEF Fields
  <2>. HIDE DEF j
  <2>. QED
    BY <2>1, <2>3, <2>4, <2>5 DEF SharesVar, PosOf
<1>. QED
  BY <1>1, <1>2

LEMMA GraphWalks ==
  ASSUME WalkedBy
  PROVE  DistinctNodes /\ AllListed /\ AllOrdered /\ J!GraphOfQuery
<1>1. DistinctNodes
  BY ListOfJvar DEF WalkedBy, DistinctNodes
<1>2. AllListed
  <2>. SUFFICES ASSUME NEW t \in TP, NEW j \in JvarsOf(t)
                PROVE  \E m \in DOMAIN NextTP[j] : NextTP[j][m] = t
    BY DEF AllListed
  <2>1. j \in Jvar /\ Mentions(t, j) /\ NextTP[j] = TPsOfJvar[j]
    BY DEF JvarsOf, WalkedBy
  <2>. QED
    BY <2>1, ListOfJvar
<1>3. AllOrdered
  BY OrderReaches DEF WalkedBy, AllOrdered, Reaching
<1>4. ASSUME NEW t \in TP, NEW u \in TP, t # u
      PROVE  u \in J!Range(Adj[t]) <=> \E f, g \in Fields : J!Share(t, f, u, g)
  <2>. DEFINE list == AdjTPs[t]
  <2>1. SharesVar(t, u) <=> \E i \in DOMAIN list : list[i] = u
    BY <1>4, NeighboursOfTP
  <2>2. Adj[t] = list
    BY DEF WalkedBy
  <2>. HIDE DEF list
  <2>3. u \in J!Range(Adj[t]) <=> \E i \in DOMAIN list : list[i] = u
    BY <2>2 DEF J!Range
  <2>. QED
    BY <2>1, <2>3, SharedIsShared
<1>5. J!GraphOfQuery
  BY <1>4 DEF J!GraphOfQuery, J!TP, TP, J!Fields, Fields
<1>. QED
  BY <1>1, <1>2, <1>3, <1>5

\* A pattern's parent and children in a tree are neighbours of it.
LEMMA TreeWalksEdges ==
  ASSUME WalkedBy
  PROVE  J!WalksEdges
<1>1. SUFFICES ASSUME NEW s \in TP, NEW t \in TP
               PROVE  J!Range(TreeEdges[s][t]) \subseteq J!Range(Adj[t])
  BY DEF J!WalksEdges, J!TP, TP
<1>. DEFINE kids    == SpanningTree(AdjTPs, s)
            parents == {u \in TP : t \in Range(kids[u])}
            before  == InOrder(parents)
            after   == kids[t]
<1>2. TreeEdges[s][t] = before \o after
  BY DEF WalkedBy, TreesOfTPs, PatternTree
<1>3. IsGraph(TP, AdjTPs)
  <2>1. AdjTPs \in [TP -> Seq(TP)]
    BY NeighboursOfTP DEF AdjTPs
  <2>. QED
    BY <2>1, PatternsFinite DEF IsGraph
<1>4. kids \in [TP -> Seq(TP)]
  BY <1>3, SpanningTreeIs
<1>5. PICK black \in SUBSET TP : IsTree(TP, AdjTPs, s, black, kids)
  BY <1>3, SpanningTreeIs
<1>. HIDE DEF kids
<1>6. ASSUME NEW u \in TP, NEW i \in DOMAIN kids[u]
      PROVE  kids[u][i] \in TP /\ u # kids[u][i] /\ SharesVar(u, kids[u][i])
  BY <1>4, <1>5, NeighboursOfTP, ElementOfSeq DEF IsTree
<1>7. ASSUME NEW u \in TP, u # t, SharesVar(t, u)
      PROVE  u \in J!Range(Adj[t])
  <2>. DEFINE list == AdjTPs[t]
  <2>1. \E i \in DOMAIN list : list[i] = u
    BY <1>7, NeighboursOfTP
  <2>2. Adj[t] = list
    BY DEF WalkedBy
  <2>. HIDE DEF list
  <2>. QED
    BY <2>1, <2>2 DEF J!Range
<1>8. parents \in SUBSET Nat /\ parents \subseteq TP /\ IsFiniteSet(parents)
  BY PatternsFinite, FS_Subset
<1>9. \A u \in parents : u # t /\ SharesVar(t, u)
  BY <1>6 DEF Range, SharesVar
<1>. HIDE DEF parents
<1>10. /\ Cardinality(parents) \in Nat /\ before \in [1 .. Cardinality(parents) -> parents]
  BY <1>8, OrderedIs
<1>11. before \in Seq(TP) /\ after \in Seq(TP)
  <2>. HIDE DEF before
  <2>1. before \in [1 .. Cardinality(parents) -> TP]
    BY <1>8, <1>10
  <2>2. before \in Seq(TP)
    BY <1>10, <2>1
  <2>. QED
    BY <1>4, <2>2
<1>12. \A i \in DOMAIN before : before[i] \in parents
  BY <1>10
<1>13. \A i \in DOMAIN after : after[i] \in TP /\ after[i] # t /\ SharesVar(t, after[i])
  BY <1>6
<1>. HIDE DEF before, after
<1>14. ASSUME NEW i \in DOMAIN (before \o after)
       PROVE  (before \o after)[i] \in J!Range(Adj[t])
  <2>1. \/ i \in DOMAIN before /\ (before \o after)[i] = before[i]
        \/ i - Len(before) \in DOMAIN after /\ (before \o after)[i] = after[i - Len(before)]
    BY <1>11
  <2>. QED
    BY <1>7, <1>8, <1>9, <1>12, <1>13, <2>1
<1>. QED
  BY <1>2, <1>14 DEF J!Range

LEMMA DataHanded ==
  ASSUME NEW s, ServedFrom(s), FirstBitsKept(s), FirstBitsOwn(s), WalkedBy
  PROVE  Handed
<1>1. WellLoaded /\ OneJvarPerAxis /\ Fetched
  BY WhatIsLoaded DEF ServedFrom
<1>2. CompleteFolds /\ ExactFolds
  BY WhatFoldsAre DEF ServedFrom
<1>3. DistinctNodes /\ AllListed /\ AllOrdered /\ J!GraphOfQuery
  BY GraphWalks
<1>. QED
  BY <1>1, <1>2, <1>3 DEF WalkedBy, Handed, Loaded, Assumed

\* A row of the answer is made of triples of the data.
LEMMA AnswerStored ==
  ASSUME NEW s, IsStore(s), expected = AnswerOver(s), RowsAreAnswers
  PROVE  RowsStored({s})
<1>. SUFFICES ASSUME NEW i \in DOMAIN rows, NEW t \in TP
              PROVE  <<rows[i][t].sub, rows[i][t].pred, rows[i][t].obj>> \in s
  BY DEF RowsStored
<1>1. PICK x \in s : rows[i][t] = AsTriple(x)
  BY DEF RowsAreAnswers, AnswerOver
<1>2. x \in (1 .. NumSubs) \X (1 .. NumPreds) \X (1 .. NumObjs)
  BY DEF IsStore
<1>3. x = <<x[1], x[2], x[3]>>
  BY <1>2
<1>. QED
  BY <1>1, <1>3 DEF AsTriple

\* Each row of the results file is made of triples of the data, and is a row of the
\* answer over it, in a query whose back edges the walk sees.
THEOREM RowsOfData ==
  ASSUME NEW s, ServedFrom(s), FirstBitsKept(s), FirstBitsOwn(s), WalkedBy, PartialLastByte,
         J!SharedOnce, J!PredicateJoinsAlone
  PROVE  RunSpec /\ []BackEdgesSeen
           => [](RowsStored({s}) /\ \A i \in DOMAIN rows : rows[i] \in AnswerOver(s))
<1>1. RunSpec /\ []BackEdgesSeen => []RowsAreAnswers
  BY DataHanded, RowsAnswer
<1>2. RunSpec => [](expected = AnswerOver(s))
  BY ExpectedIsAnswer DEF WalkedBy
<1>3. RowsAreAnswers /\ expected = AnswerOver(s)
        => RowsStored({s}) /\ \A i \in DOMAIN rows : rows[i] \in AnswerOver(s)
  BY AnswerStored DEF ServedFrom, RowsAreAnswers
<1>. QED
  BY <1>1, <1>2, <1>3, PTL

\* When the walk is over the file has the answer over the data, and the number main
\* prints is its size.
THEOREM CountOfData ==
  ASSUME NEW s, ServedFrom(s), FirstBitsKept(s), FirstBitsOwn(s), WalkedBy, PartialLastByte,
         J!SharedOnce, J!PredicateJoinsAlone, J!WithoutBitmat2 = {}
  PROVE  RunSpec /\ []BackEdgesSeen
           => [](phase = "done" => /\ AnswerOver(s) = Promised!Written
                                   /\ reported # NULL => reported = Cardinality(AnswerOver(s)))
<1>1. Handed
  BY DataHanded
<1>2. RunSpec /\ []BackEdgesSeen => []Correct
  BY <1>1, RunCorrect
<1>3. RunSpec /\ []BackEdgesSeen
        => [](phase = "done" /\ reported # NULL => reported = Cardinality(expected))
  BY <1>1, CountIsAnswer
<1>4. RunSpec => [](expected = AnswerOver(s))
  BY ExpectedIsAnswer DEF WalkedBy
<1>5. Correct /\ expected = AnswerOver(s)
          /\ (phase = "done" /\ reported # NULL => reported = Cardinality(expected))
        => (phase = "done" => /\ AnswerOver(s) = Promised!Written
                              /\ reported # NULL => reported = Cardinality(AnswerOver(s)))
  BY DEF Correct, RowsAreAnswers, Complete, Promised!Written
<1>. QED
  BY <1>2, <1>3, <1>4, <1>5, PTL

\* A pattern with one variable is loaded by it.
LEMMA LoadedByItsJvar ==
  ASSUME NEW s, PlannedFrom(s), Askable
  PROVE  FetchedByJvar
<1>. SUFFICES ASSUME NEW p \in Plans, NEW t \in TP, NumJvars(t) = 1, Query[t].pred > 0, ~J!SingleRow(t)
              PROVE  /\ Query[t].sub < 0 => p.dimension[t] = "SPO"
                     /\ Query[t].obj < 0 => p.dimension[t] = "OPS"
  BY DEF FetchedByJvar
<1>1. DimensionFits(p.dimension[t], t)
  <2>1. PICK root, kids : p = PlanOf(s, root, kids)
    BY DEF PlannedFrom
  <2>2. p.dimension[t] = LoadedDimension(s, TreeBfs(kids, root), t)
    BY <2>1, PlanIs
  <2>. QED
    BY <2>2, DimensionIs
<1>2. ~(Query[t].sub < 0 /\ Query[t].obj < 0)
  <2>0. J!NumJvars(t) = 1
    BY DEF NumJvars, J!NumJvars, Fields, J!Fields, Cardinality, J!Cardinality
  <2>1. PICK f \in Fields : {g \in Fields : Query[t][g] < 0} = {f}
    BY <2>0, J!OneVariable, QueryAssumption, SizesAssumption, GraphAssumption
       DEF J!TP, TP, J!Triple, J!Id, J!Fields, Fields
  <2>2. Query[t]["sub"] < 0 => f = "sub"
    BY <2>1 DEF Fields
  <2>3. Query[t]["obj"] < 0 => f = "obj"
    BY <2>1 DEF Fields
  <2>. QED
    BY <2>2, <2>3
<1>3. /\ Query[t].sub \in Int /\ Query[t].pred \in Int /\ Query[t].obj \in Int
      /\ ~(Query[t].sub > 0) /\ ~(Query[t].obj > 0)
  BY PatternType DEF J!SingleRow
<1>. QED
  BY <1>1, <1>2, <1>3 DEF DimensionFits

\* A query whose patterns join on one variable each prints the answer over the data,
\* and its size, whatever pruning deletes and in whatever order the patterns are walked.
THEOREM StarOverData ==
  ASSUME NEW s, ServedFrom(s), FirstBitsKept(s), FirstBitsOwn(s), WalkedBy, PartialLastByte, J!Star
  PROVE  RunSpec => /\ []RowsStored({s})
                    /\ [](phase = "done" => /\ AnswerOver(s) = Promised!Written
                                            /\ reported # NULL => reported = Cardinality(AnswerOver(s)))
<1>1. Handed /\ FetchedByJvar
  BY DataHanded, LoadedByItsJvar DEF ServedFrom
<1>2. J!SharedOnce /\ J!PredicateJoinsAlone /\ J!WithoutBitmat2 = {}
  BY <1>1, StarSharesOnce DEF J!Star, J!PredicateJoinsAlone
<1>3. RunSpec => []BackEdgesSeen
  BY <1>1, StarQueryEdgesSeen
<1>4. RunSpec /\ []BackEdgesSeen
        => [](RowsStored({s}) /\ \A i \in DOMAIN rows : rows[i] \in AnswerOver(s))
  BY <1>2, RowsOfData
<1>5. RunSpec /\ []BackEdgesSeen
        => [](phase = "done" => /\ AnswerOver(s) = Promised!Written
                                /\ reported # NULL => reported = Cardinality(AnswerOver(s)))
  BY <1>2, CountOfData
<1>. QED
  BY <1>3, <1>4, <1>5, PTL

\* An acyclic query over data that loading misfiles nothing of: one forward and one
\* reverse pass leave the patterns of the root nothing superfluous; with the second try
\* of prune_triples_sim no pattern holds anything superfluous, and when it stops the
\* patterns of a variable agree.
THEOREM AcyclicOverData ==
  ASSUME NEW s, ServedFrom(s), FirstBitsKept(s), FirstBitsOwn(s), WalkedBy, Acyclic, CommonTail
  PROVE  /\ (\A p \in Plans : CutOn(p.jvarsitr2[1])) => (Spec => []RootReduced)
         /\ Sim /\ (\A j \in Jvar : CutOn(j)) => (Spec => []AllReduced)
         /\ Sim /\ PartialLastByte => (Spec => []Stable)
<1>1. Loaded
  BY DataHanded DEF Handed
<1>2. Trees
  BY OrderOfTree DEF ServedFrom, WalkedBy
<1>. QED
  BY <1>1, <1>2, RootIsReduced, AllAreReduced, SimIsStable

\* Pruned by prune_triples_sim, such a query prints the answer over the data, and its
\* size, in whatever order the patterns are walked: no hypothesis is about the walk.
THEOREM AcyclicAnsweredOverData ==
  ASSUME NEW s, ServedFrom(s), FirstBitsKept(s), FirstBitsOwn(s), WalkedBy, PartialLastByte,
         Acyclic, CommonTail, Sim, \A j \in Jvar : CutOn(j),
         J!PredicateJoinsAlone, J!WithoutBitmat2 = {}
  PROVE  RunSpec => /\ []BackEdgesSeen
                    /\ []RowsStored({s})
                    /\ [](phase = "done" => /\ AnswerOver(s) = Promised!Written
                                            /\ reported # NULL => reported = Cardinality(AnswerOver(s)))
<1>1. Handed /\ FetchedByJvar /\ J!WalksEdges
  BY DataHanded, LoadedByItsJvar, TreeWalksEdges DEF ServedFrom
<1>2. Trees
  BY OrderOfTree DEF ServedFrom, WalkedBy
<1>3. J!SharedOnce
  BY <1>1, AcyclicSharesOnce
<1>4. RunSpec => []BackEdgesSeen
  BY <1>1, <1>2, AcyclicQueryEdgesSeen DEF Simulated, WalkedAcyclic
<1>5. RunSpec /\ []BackEdgesSeen
        => [](RowsStored({s}) /\ \A i \in DOMAIN rows : rows[i] \in AnswerOver(s))
  BY <1>3, RowsOfData
<1>6. RunSpec /\ []BackEdgesSeen
        => [](phase = "done" => /\ AnswerOver(s) = Promised!Written
                                /\ reported # NULL => reported = Cardinality(AnswerOver(s)))
  BY <1>3, CountOfData
<1>. QED
  BY <1>4, <1>5, <1>6, PTL
=============================================================================
