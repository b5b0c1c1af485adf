----------------------------- MODULE LoaderProofs ----------------------------
(***************************************************************************)
(* The bulk loader and the readers of its files: types, rows that are      *)
(* canonical, what is read is what was stored, and unfolding and           *)
(* transposing with gap-encoded rows are what they are on cells.           *)
(***************************************************************************)
EXTENDS Loader, CodecProofs

----------------------------------------------------------------------------
(* Lines in the order of the file.                                         *)

LineType == [bm : Nat, row : Nat, col : Nat]

LEMMA BeforeOrder ==
  /\ \A x \in LineType : ~Before(x, x)
  /\ \A x, y \in LineType : x # y => Before(x, y) \/ Before(y, x)
  /\ \A x, y, z \in LineType : Before(x, y) /\ Before(y, z) => Before(x, z)
<1>1. \A x \in LineType : x.bm \in Nat /\ x.row \in Nat /\ x.col \in Nat
  BY DEF LineType
<1>2. \A x, y \in LineType : x.bm = y.bm /\ x.row = y.row /\ x.col = y.col => x = y
  BY DEF LineType
<1>3. \A x \in LineType : ~Before(x, x)
  BY <1>1 DEF Before
<1>4. \A x, y \in LineType : x # y => Before(x, y) \/ Before(y, x)
  BY <1>1, <1>2 DEF Before
<1>5. \A x, y, z \in LineType : Before(x, y) /\ Before(y, z) => Before(x, z)
  <2>1. TAKE x, y, z \in LineType
  <2>2. HAVE Before(x, y) /\ Before(y, z)
  <2>3. CASE x.bm < y.bm
    BY <1>1, <2>2, <2>3 DEF Before
  <2>4. CASE x.bm = y.bm /\ x.row < y.row
    BY <1>1, <2>2, <2>4 DEF Before
  <2>5. CASE x.bm = y.bm /\ x.row = y.row /\ x.col < y.col
    BY <1>1, <2>2, <2>5 DEF Before
  <2>. QED
    BY <2>2, <2>3, <2>4, <2>5 DEF Before
<1>. QED
  BY <1>3, <1>4, <1>5

\* What is still to read of the lines L, in order.
IsQueue(L, queue, last) ==
  /\ queue \in Seq(L)
  /\ \A i, j \in 1 .. Len(queue) : i < j => Before(queue[i], queue[j])
  /\ {queue[i] : i \in 1 .. Len(queue)} = {l \in L : Before(last, l)}
  /\ last \in L \cup {NoLine}

\* The file has every line once, in order.
LEMMA SortedIs ==
  ASSUME NEW L \in SUBSET LineType, IsFiniteSet(L), \A l \in L : Before(NoLine, l)
  PROVE  IsQueue(L, Sorted(L), NoLine)
<1>. DEFINE R == {p \in L \X L : Before(p[1], p[2])}
            n == Cardinality(L)
            At(i) == CHOOSE l \in L : Cardinality({k \in L : Before(k, l)}) = i - 1
<1>1. n \in Nat
  BY FS_CardinalityType
<1>2. \A x, y \in L : <<x, y>> \in R <=> Before(x, y)
  OBVIOUS
<1>3. IsOrder(L, R)
  <2>. HIDE DEF R
  <2>1. \A x, y, z \in L : <<x, y>> \in R /\ <<y, z>> \in R => <<x, z>> \in R
    BY <1>2, BeforeOrder, Zenon
  <2>. QED
    BY <1>2, <2>1, BeforeOrder DEF IsOrder
<1>. HIDE DEF R
<1>4. \A x \in L : Rank(L, R, x) = Cardinality({k \in L : Before(k, x)})
  <2>1. TAKE x \in L
  <2>2. {k \in L : Before(k, x)} = {y \in L : <<y, x>> \in R}
    BY <1>2
  <2>. QED
    BY <2>2 DEF Rank
<1>5. /\ \A x \in L : Rank(L, R, x) \in 0 .. n - 1
      /\ \A x, y \in L : <<x, y>> \in R <=> Rank(L, R, x) < Rank(L, R, y)
      /\ \A i \in 1 .. n : \E x \in L : Rank(L, R, x) = i - 1
  <2>. HIDE DEF n
  <2>. QED
    BY <1>3, Ranks DEF n
<1>6. \A i \in 1 .. n : At(i) \in L /\ Rank(L, R, At(i)) = i - 1
  <2>1. TAKE i \in 1 .. n
  <2>2. \E l \in L : Cardinality({k \in L : Before(k, l)}) = i - 1
    BY <1>4, <1>5
  <2>. QED
    BY <1>4, <2>2
<1>7. Sorted(L) = [i \in 1 .. n |-> At(i)]
  BY DEF Sorted
<1>. HIDE DEF At
<1>8. Sorted(L) \in Seq(L) /\ Len(Sorted(L)) = n /\ \A i \in 1 .. n : Sorted(L)[i] = At(i)
  BY <1>1, <1>6, <1>7
<1>. HIDE DEF n
<1>9. ASSUME NEW i \in 1 .. n, NEW j \in 1 .. n, i < j
      PROVE  Before(Sorted(L)[i], Sorted(L)[j])
  <2>1. Rank(L, R, At(i)) < Rank(L, R, At(j))
    BY <1>1, <1>6, <1>9
  <2>. QED
    BY <1>2, <1>5, <1>6, <1>8, <2>1
<1>10. ASSUME NEW l \in L PROVE \E i \in 1 .. n : Sorted(L)[i] = l
  <2>. DEFINE i == Rank(L, R, l) + 1
  <2>1. i \in 1 .. n /\ Rank(L, R, At(i)) = Rank(L, R, l)
    BY <1>1, <1>5, <1>6
  <2>2. At(i) = l
    <3>1. At(i) \in L /\ Rank(L, R, l) \in Int
      BY <1>1, <1>5, <1>6, <2>1
    <3>. HIDE DEF i
    <3>2. ~(Rank(L, R, At(i)) < Rank(L, R, l)) /\ ~(Rank(L, R, l) < Rank(L, R, At(i)))
      BY <2>1, <3>1
    <3>3. ~Before(At(i), l) /\ ~Before(l, At(i))
      BY <1>2, <1>5, <3>1, <3>2, Zenon
    <3>. QED
      BY <3>1, <3>3, BeforeOrder
  <2>. QED
    BY <1>8, <2>1, <2>2
<1>11. {Sorted(L)[i] : i \in 1 .. n} = {l \in L : Before(NoLine, l)}
  BY <1>6, <1>8, <1>10
<1>. QED
  BY <1>8, <1>9, <1>11 DEF IsQueue

\* No line comes between the last one and the next.
LEMMA NextLine ==
  ASSUME NEW L \in SUBSET LineType, NEW queue, NEW last, IsQueue(L, queue, last), queue # << >>
  PROVE  LET next == queue[1]
         IN /\ next \in L /\ Before(last, next)
            /\ \A l \in L : Before(last, l) => l = next \/ Before(next, l)
            /\ IsQueue(L, Tail(queue), next)
<1>. DEFINE next == queue[1]
            n == Len(queue)
            rest == Tail(queue)
<1>1. n \in Nat /\ n >= 1 /\ 1 \in 1 .. n /\ queue \in Seq(L)
  BY DEF IsQueue
<1>2. next \in L /\ Before(last, next)
  BY <1>1 DEF IsQueue
<1>3. \A l \in L : Before(last, l) => \E i \in 1 .. n : l = queue[i]
  BY DEF IsQueue
<1>4. \A i \in 1 .. n : i = 1 \/ Before(next, queue[i])
  BY <1>1 DEF IsQueue
<1>5. \A l \in L : Before(last, l) => l = next \/ Before(next, l)
  BY <1>3, <1>4
<1>6. /\ rest \in Seq(L) /\ Len(rest) = n - 1
      /\ \A i \in 1 .. n - 1 : rest[i] = queue[i + 1]
  BY <1>1
<1>. HIDE DEF rest
<1>7. \A i, j \in 1 .. Len(rest) : i < j => Before(rest[i], rest[j])
  <2>1. TAKE i, j \in 1 .. Len(rest)
  <2>2. HAVE i < j
  <2>3. i + 1 \in 1 .. n /\ j + 1 \in 1 .. n /\ i + 1 < j + 1 /\ i \in 1 .. n - 1 /\ j \in 1 .. n - 1
    BY <1>1, <1>6, <2>2
  <2>. QED
    BY <1>6, <2>3 DEF IsQueue
<1>8. {rest[i] : i \in 1 .. Len(rest)} = {l \in L : Before(next, l)}
  <2>1. ASSUME NEW i \in 1 .. Len(rest) PROVE rest[i] \in L /\ Before(next, rest[i])
    <3>1. i + 1 \in 1 .. n /\ i + 1 # 1 /\ i \in 1 .. n - 1
      BY <1>1, <1>6
    <3>. QED
      BY <1>1, <1>4, <1>6, <3>1
  <2>2. ASSUME NEW l \in L, Before(next, l) PROVE \E i \in 1 .. Len(rest) : l = rest[i]
    <3>1. NoLine \in LineType
      BY DEF NoLine, LineType
    <3>2. last \in LineType /\ next \in LineType /\ l \in LineType
      BY <1>2, <3>1 DEF IsQueue
    <3>3. Before(last, l) /\ l # next
      BY <1>2, <2>2, <3>2, BeforeOrder
    <3>4. PICK i \in 1 .. n : l = queue[i]
      BY <1>3, <3>3
    <3>5. i - 1 \in 1 .. n - 1 /\ (i - 1) + 1 = i
      BY <1>1, <3>3, <3>4
    <3>6. rest[i - 1] = queue[(i - 1) + 1]
      BY <1>6, <3>5
    <3>. QED
      BY <1>6, <3>4, <3>5, <3>6
  <2>. QED
    BY <2>1, <2>2
<1>9. IsQueue(L, rest, next)
  BY <1>2, <1>6, <1>7, <1>8 DEF IsQueue
<1>. QED
  BY <1>2, <1>5, <1>9 DEF rest

----------------------------------------------------------------------------
(* Rows put together.                                                      *)

LEMMA Pair ==
  ASSUME NEW S, NEW x \in S, NEW y \in S
  PROVE  <<x>> \o <<y>> = <<x, y>>
<1>. DEFINE u == <<x>>
            z == <<y>>
            c == u \o z
<1>1. u \in Seq(S) /\ z \in Seq(S) /\ Len(u) = 1 /\ Len(z) = 1 /\ u[1] = x /\ z[1] = y
  OBVIOUS
<1>. HIDE DEF u, z
<1>2. /\ c \in Seq(S) /\ Len(c) = Len(u) + Len(z)
      /\ \A i \in 1 .. Len(u) + Len(z) : c[i] = IF i <= Len(u) THEN u[i] ELSE z[i - Len(u)]
  BY <1>1, ConcatProperties
<1>3. 1 \in 1 .. 2 /\ 2 \in 1 .. 2 /\ 2 - 1 = 1 /\ 1 + 1 = 2 /\ 1 <= 1 /\ ~(2 <= 1)
  OBVIOUS
<1>4. c \in Seq(S) /\ Len(c) = 2 /\ c[1] = x /\ c[2] = y
  BY <1>1, <1>2, <1>3
<1>5. \A q \in Seq(S) : Len(q) = 2 => q = <<q[1], q[2]>>
  OBVIOUS
<1>. HIDE DEF c
<1>6. c = <<c[1], c[2]>>
  BY <1>4, <1>5, Zenon
<1>7. c = <<x, y>>
  BY <1>4, <1>6, Zenon
<1>. QED
  BY <1>7 DEF c, u, z

LEMMA StartedIs ==
  ASSUME NEW col \in 1 .. Word - 1
  PROVE  IsRow(Started(col), {col}, col)
<1>1. col \in Nat /\ col >= 1 /\ col < Word /\ Word \in Nat
  BY WordAssumption
<1>2. CASE col = 1
  <2>1. IsRow(Run(TRUE, 1), 1 .. 1, 1)
    <3>1. 1 \in Nat \ {0} /\ 1 < Word
      BY <1>1
    <3>. QED
      BY <3>1, OneRun
  <2>2. Started(col) = Run(TRUE, 1) /\ 1 .. 1 = {1}
    BY <1>2 DEF Started
  <2>. QED
    BY <1>2, <2>1, <2>2
<1>3. CASE col # 1
  <2>. DEFINE w == col - 1
              a == Run(FALSE, w)
              c == Concatenate(a, Run(TRUE, 1))
  <2>1. w \in Nat \ {0} /\ w < Word /\ w + 1 < Word /\ w + 1 = col /\ 1 \in Nat \ {0}
    BY <1>1, <1>3
  <2>. HIDE DEF w
  <2>2. IsRow(a, {}, w)
    BY <2>1, OneRun
  <2>3. IsRow(c, {} \cup (w + 1 .. w + 1), w + 1)
    <3>. HIDE DEF a
    <3>. QED
      BY <2>1, <2>2, Extended
  <2>4. c = Started(col)
    <3>1. Started(col) = [flag |-> FALSE, runs |-> <<w, 1>>]
      <4>1. col > 1
        BY <1>1, <1>3
      <4>. QED
        BY <4>1, Zenon DEF Started, w
    <3>2. Value(a, Len(a.runs)) = FALSE
      <4>1. a.flag = FALSE /\ Len(a.runs) = 1 /\ 1 % 2 = 1
        BY DEF Run
      <4>. QED
        BY <4>1 DEF Value
    <3>3. a.runs = <<w>> /\ Run(TRUE, 1).runs = <<1>> /\ Run(TRUE, 1).flag = TRUE /\ a.flag = FALSE
      BY DEF Run
    <3>. HIDE DEF a
    <3>4. c = [flag |-> FALSE, runs |-> a.runs \o Run(TRUE, 1).runs]
      BY <3>2, <3>3 DEF Concatenate
    <3>5. <<w>> \o <<1>> = <<w, 1>>
      <4>1. w \in Nat /\ 1 \in Nat
        BY <2>1
      <4>. QED
        BY <4>1, Pair
    <3>. QED
      BY <3>1, <3>3, <3>4, <3>5
  <2>5. {} \cup (w + 1 .. w + 1) = {col} /\ w + 1 = col
    BY <1>1, <2>1
  <2>. HIDE DEF c
  <2>. QED
    BY <2>3, <2>4, <2>5
<1>. QED
  BY <1>2, <1>3

LEMMA ContinuedIs ==
  ASSUME NEW row, NEW ids, NEW from \in Nat, IsRow(row, ids, from),
         NEW col \in Nat, from < col, col < Word
  PROVE  IsRow(Continued(row, from, col), ids \cup {col}, col)
<1>. DEFINE gap == col - from - 1
            a == IF col - from > 1 THEN Concatenate(row, Run(FALSE, gap)) ELSE row
            w == col - 1
<1>1. w \in Nat /\ w + 1 = col /\ 1 \in Nat \ {0} /\ w + 1 < Word
  OBVIOUS
<1>2. IsRow(a, ids, w)
  <2>1. CASE col - from > 1
    <3>1. gap \in Nat \ {0} /\ from + gap = w /\ from + gap < Word
      BY <2>1, WordAssumption
    <3>. HIDE DEF gap, w
    <3>2. IsRow(Concatenate(row, Run(FALSE, gap)), ids, from + gap)
      BY <3>1, Extended
    <3>. QED
      BY <2>1, <3>1, <3>2
  <2>2. CASE ~(col - from > 1)
    <3>1. from = w
      BY <2>2
    <3>. QED
      BY <2>2, <3>1
  <2>. QED
    BY <2>1, <2>2
<1>3. Continued(row, from, col) = Concatenate(a, Run(TRUE, 1))
  BY DEF Continued
<1>4. (w + 1 .. w + 1) = {col}
  BY <1>1
<1>. HIDE DEF a, w
<1>5. IsRow(Concatenate(a, Run(TRUE, 1)), ids \cup (w + 1 .. w + 1), w + 1)
  BY <1>1, <1>2, Extended
<1>. QED
  BY <1>1, <1>3, <1>4, <1>5

\* The last value is a 1 if the last bit is.
LEMMA LastValue ==
  ASSUME NEW row, NEW ids, NEW w, IsRow(row, ids, w)
  PROVE  /\ row \in Row /\ Len(row.runs) \in Nat /\ Len(row.runs) >= 1
         /\ w \in Nat /\ w >= 1 /\ w < Word
         /\ Value(row, Len(row.runs)) <=> w \in ids
<1>. DEFINE n == Len(row.runs)
<1>1. Straight(row) /\ EndOf(row.runs, n) = w
  BY DEF IsRow
<1>2. row \in Row /\ n \in Nat /\ n >= 1
  BY <1>1, RowTypes DEF Straight
<1>3. EndOf(row.runs, n - 1) \in Nat /\ EndOf(row.runs, n) \in Nat /\ EndOf(row.runs, n) \in Length
  <2>1. n - 1 \in 0 .. n /\ n \in 0 .. n
    BY <1>2
  <2>. QED
    BY <1>2, <2>1, RowEnds
<1>4. row.runs[n] >= 1 /\ EndOf(row.runs, n) = EndOf(row.runs, n - 1) + row.runs[n] /\ row.runs[n] \in Nat
  <2>1. n \in 1 .. n
    BY <1>2
  <2>. QED
    BY <1>1, <1>2, <2>1, RowTypes DEF Straight, Solid
<1>5. n \in 1 .. n /\ w \in EndOf(row.runs, n - 1) + 1 .. EndOf(row.runs, n)
  <2>. HIDE DEF n
  <2>. QED
    BY <1>1, <1>2, <1>3, <1>4
<1>6. Value(row, n) <=> w \in ids
  <2>1. Value(row, n) \in BOOLEAN
    BY <1>2, Values
  <2>2. w \in ids <=> Value(row, n)
    BY <1>5 DEF IsRow
  <2>. QED
    BY <2>1, <2>2
<1>. QED
  BY <1>1, <1>2, <1>3, <1>4, <1>6, WordAssumption DEF Length

\* The 0s after the last bit are a run of their own.
LEMMA PaddedIs ==
  ASSUME NEW row, NEW ids, NEW last, IsRow(row, ids, last), last \in ids,
         NEW w \in Nat, last <= w, w < Word
  PROVE  IsRow(IF last = w THEN row ELSE [row EXCEPT !.runs = Append(@, w - last)], ids, w)
<1>1. /\ row \in Row /\ last \in Nat /\ Value(row, Len(row.runs)) = TRUE
      /\ row.runs \in Seq(Length)
  <2>1. Value(row, Len(row.runs)) \in BOOLEAN
    BY LastValue, Values
  <2>. QED
    BY <2>1, LastValue, RowTypes
<1>2. CASE last = w
  BY <1>2
<1>3. CASE last # w
  <2>. DEFINE k == w - last
              c == Concatenate(row, Run(FALSE, k))
  <2>1. k \in Nat \ {0} /\ last + k = w /\ last + k < Word
    BY <1>1, <1>3
  <2>. HIDE DEF k
  <2>2. IsRow(c, ids, last + k)
    BY <1>1, <2>1, Extended
  <2>3. c = [flag |-> row.flag, runs |-> row.runs \o <<k>>]
    BY <1>1 DEF Concatenate, Run
  <2>4. row.runs \o <<k>> = Append(row.runs, k)
    BY <1>1
  <2>5. [row EXCEPT !.runs = Append(@, k)] = [flag |-> row.flag, runs |-> Append(row.runs, k)]
    <3>. DEFINE r == [row EXCEPT !.runs = Append(@, k)]
                q == [flag |-> row.flag, runs |-> Append(row.runs, k)]
    <3>1. k \in Length
      BY <1>1, <2>1, WordAssumption DEF Length
    <3>2. Append(row.runs, k) \in Seq(0 .. Word - 1)
      BY <1>1, <3>1 DEF Length
    <3>3. \A x \in Row : x = [flag |-> x.flag, runs |-> x.runs]
      BY DEF Row
    <3>4. r \in Row /\ r.flag = row.flag /\ r.runs = Append(row.runs, k)
      BY <1>1, <3>2 DEF Row
    <3>. HIDE DEF r
    <3>5. r = q
      BY <3>3, <3>4, Zenon
    <3>. QED
      BY <3>5 DEF r
  <2>. HIDE DEF c
  <2>. QED
    BY <1>3, <2>1, <2>2, <2>3, <2>4, <2>5 DEF k
<1>. QED
  BY <1>2, <1>3

\* The 0s to the end of the row.
LEMMA FilledIs ==
  ASSUME NEW row, NEW ids, NEW last, IsRow(row, ids, last), NEW w \in Nat, last <= w, w < Word
  PROVE  IsRow(IF w - last > 0 THEN Concatenate(row, Run(FALSE, w - last)) ELSE row, ids, w)
<1>1. last \in Nat
  BY LastValue
<1>. DEFINE k == w - last
<1>2. CASE k > 0
  <2>1. k \in Nat \ {0} /\ last + k = w /\ last + k < Word
    BY <1>1, <1>2
  <2>. HIDE DEF k
  <2>2. IsRow(Concatenate(row, Run(FALSE, k)), ids, last + k)
    BY <1>1, <2>1, Extended
  <2>. QED
    BY <1>2, <2>1, <2>2 DEF k
<1>3. CASE ~(k > 0)
  <2>1. last = w
    BY <1>1, <1>3
  <2>. QED
    BY <1>3, <2>1
<1>. QED
  BY <1>2, <1>3

LEMMA SeqOver ==
  ASSUME NEW S, NEW T, NEW s \in Seq(S), \A i \in 1 .. Len(s) : s[i] \in T
  PROVE  s \in Seq(T)
<1>1. s \in [1 .. Len(s) -> T] /\ Len(s) \in Nat
  OBVIOUS
<1>. QED
  BY <1>1

\* A row has no empty run.
LEMMA RowIsBuilt ==
  ASSUME NEW row, NEW ids, NEW w, IsRow(row, ids, w)
  PROVE  row \in BuiltRow
<1>1. row \in Row /\ \A i \in 1 .. Len(row.runs) : row.runs[i] >= 1
  BY DEF IsRow, Straight, Solid
<1>2. row.runs \in Seq(Length) /\ Len(row.runs) \in Nat /\ \A i \in 1 .. Len(row.runs) : row.runs[i] \in Length
  BY <1>1, RowTypes
<1>3. \A i \in 1 .. Len(row.runs) : row.runs[i] \in 1 .. Word - 1
  BY <1>1, <1>2, WordAssumption DEF Length
<1>4. row.runs \in Seq(1 .. Word - 1)
  BY <1>2, <1>3, SeqOver
<1>. QED
  BY <1>1, <1>4 DEF Row, BuiltRow

\* Its bits say which row it is.
LEMMA RowIsCanonical ==
  ASSUME NEW row, NEW ids, NEW w, IsRow(row, ids, w)
  PROVE  row = Compress(Bits(row), w) /\ Bits(row) = ids /\ Loose(row)
BY Canonical, BitsOfRow, StraightIsLoose DEF IsRow

----------------------------------------------------------------------------
(* What has been read when a line has.                                     *)

IdLine == [bm : Id, row : Id, col : Id]

RowsIn(L, b)    == {l.row : l \in {k \in L : k.bm = b}}
ColsIn(L, b, r) == {l.col : l \in {k \in L : k.bm = b /\ k.row = r}}

\* The columns of its row up to it, the rows of its bitmat and the bitmats before it.
ColsTo(L, last)     == {c \in ColsIn(L, last.bm, last.row) : c <= last.col}
RowsBefore(L, last) == {r \in RowsIn(L, last.bm) : r < last.row}
BitMatsBefore(L, last) == {b \in {l.bm : l \in L} : b < last.bm}

\* The next line of L.
Follows(L, last, next) ==
  next \in L /\ Before(last, next) /\ \A l \in L : Before(last, l) => l = next \/ Before(next, l)

RowDone(L, last)    == \A l \in L : Before(last, l) => l.bm # last.bm \/ l.row # last.row
BitMatDone(L, last) == \A l \in L : Before(last, l) => l.bm # last.bm

LEMMA LineTypes ==
  /\ IdLine \subseteq LineType /\ NoLine \in LineType
  /\ \A l \in IdLine : l.bm \in Nat /\ l.row \in Nat /\ l.col \in Nat
                       /\ l.bm >= 1 /\ l.row >= 1 /\ l.col >= 1
                       /\ Before(NoLine, l) /\ l # NoLine
  /\ NoLine.bm = 0 /\ NoLine.row = 0 /\ NoLine.col = 0
<1>1. IdLine \subseteq LineType /\ NoLine \in LineType
  BY DEF IdLine, LineType, NoLine, Id
<1>2. NoLine.bm = 0 /\ NoLine.row = 0 /\ NoLine.col = 0
  BY DEF NoLine
<1>3. \A l \in IdLine : l.bm \in Nat /\ l.row \in Nat /\ l.col \in Nat
                       /\ l.bm >= 1 /\ l.row >= 1 /\ l.col >= 1
  BY DEF IdLine, Id
<1>4. \A l \in IdLine : Before(NoLine, l) /\ l # NoLine
  <2>1. TAKE l \in IdLine
  <2>2. NoLine.bm < l.bm
    BY <1>2, <1>3
  <2>3. l # NoLine
    BY <1>2, <1>3
  <2>. QED
    BY <2>2, <2>3 DEF Before
<1>. QED
  BY <1>1, <1>2, <1>3, <1>4

LEMMA RowGoesOn ==
  ASSUME NEW L \in SUBSET IdLine, NEW last \in L, NEW next, Follows(L, last, next),
         next.bm = last.bm, next.row = last.row
  PROVE  last.col < next.col /\ ColsTo(L, next) = ColsTo(L, last) \cup {next.col}
<1>1. next \in L /\ next \in IdLine /\ last \in IdLine
  BY DEF Follows
<1>2. last.col < next.col
  BY <1>1, LineTypes DEF Follows, Before
<1>3. ASSUME NEW l \in L, l.bm = last.bm, l.row = last.row
      PROVE  l.col <= next.col <=> l.col <= last.col \/ l.col = next.col
  <2>1. l \in IdLine
    OBVIOUS
  <2>2. last.col < l.col => l = next \/ next.col < l.col
    <3>1. last.col < l.col => Before(last, l)
      BY <1>3 DEF Before
    <3>2. Before(next, l) => next.col < l.col
      BY <1>1, <1>3, <2>1, LineTypes DEF Before
    <3>. QED
      BY <3>1, <3>2 DEF Follows
  <2>3. l.col \in Nat /\ last.col \in Nat /\ next.col \in Nat
    BY <1>1, <2>1, LineTypes
  <2>. QED
    BY <1>2, <2>2, <2>3
<1>4. ColsIn(L, next.bm, next.row) = ColsIn(L, last.bm, last.row)
  OBVIOUS
<1>5. \A c \in ColsIn(L, last.bm, last.row) : c <= next.col <=> c <= last.col \/ c = next.col
  BY <1>3 DEF ColsIn
<1>6. next.col \in ColsIn(L, last.bm, last.row)
  BY <1>1 DEF ColsIn
<1>. QED
  BY <1>2, <1>4, <1>5, <1>6 DEF ColsTo

LEMMA RowBegins ==
  ASSUME NEW L \in SUBSET IdLine, NEW last \in L \cup {NoLine}, NEW next, Follows(L, last, next),
         next.bm # last.bm \/ next.row # last.row
  PROVE  /\ ColsTo(L, next) = {next.col}
         /\ last # NoLine => RowDone(L, last)
         /\ next.bm # last.bm => BitMatDone(L, last) /\ last.bm < next.bm
<1>1. next \in L /\ next \in IdLine /\ last \in LineType /\ next \in LineType
  BY LineTypes DEF Follows
<1>2. /\ last.bm \in Nat /\ last.row \in Nat /\ last.col \in Nat
      /\ next.bm \in Nat /\ next.row \in Nat /\ next.col \in Nat
  BY <1>1 DEF LineType
<1>3. last.bm < next.bm \/ (last.bm = next.bm /\ last.row < next.row)
  BY <1>2 DEF Follows, Before
<1>4. \A l \in L : l.bm \in Nat /\ l.row \in Nat /\ l.col \in Nat
  BY LineTypes
<1>5. \A l \in L : Before(last, l) => l = next \/ Before(next, l)
  BY DEF Follows
<1>6. ASSUME NEW l \in L, l.bm = next.bm, l.row = next.row PROVE l.col <= next.col <=> l.col = next.col
  <2>1. Before(last, l)
    BY <1>3, <1>6 DEF Before
  <2>2. l = next \/ next.col < l.col
    BY <1>2, <1>4, <1>5, <1>6, <2>1 DEF Before
  <2>. QED
    BY <1>2, <1>4, <2>2
<1>7. ColsTo(L, next) = {next.col}
  <2>1. \A c \in ColsIn(L, next.bm, next.row) : c <= next.col <=> c = next.col
    BY <1>6 DEF ColsIn
  <2>2. next.col \in ColsIn(L, next.bm, next.row)
    BY <1>1 DEF ColsIn
  <2>. QED
    BY <2>1, <2>2 DEF ColsTo
<1>8. RowDone(L, last)
  <2>. SUFFICES ASSUME NEW l \in L, Before(last, l) PROVE l.bm # last.bm \/ l.row # last.row
    BY DEF RowDone
  <2>1. l = next \/ Before(next, l)
    BY <1>5
  <2>. QED
    BY <1>2, <1>3, <1>4, <2>1 DEF Before
<1>9. next.bm # last.bm => BitMatDone(L, last) /\ last.bm < next.bm
  <2>. SUFFICES ASSUME next.bm # last.bm PROVE BitMatDone(L, last) /\ last.bm < next.bm
    OBVIOUS
  <2>1. last.bm < next.bm
    BY <1>2, <1>3
  <2>2. ASSUME NEW l \in L, Before(last, l) PROVE l.bm # last.bm
    <3>1. l = next \/ Before(next, l)
      BY <1>5, <2>2
    <3>. QED
      BY <1>2, <1>4, <2>1, <3>1 DEF Before
  <2>. QED
    BY <2>1, <2>2 DEF BitMatDone
<1>. QED
  BY <1>7, <1>8, <1>9

LEMMA RowComplete ==
  ASSUME NEW L \in SUBSET IdLine, NEW last \in L, RowDone(L, last)
  PROVE  ColsTo(L, last) = ColsIn(L, last.bm, last.row)
<1>1. \A l \in L : l.bm = last.bm /\ l.row = last.row => l.col <= last.col
  <2>1. TAKE l \in L
  <2>2. l \in IdLine /\ last \in IdLine
    OBVIOUS
  <2>3. l.col \in Nat /\ last.col \in Nat
    BY <2>2, LineTypes
  <2>. QED
    BY <2>3 DEF RowDone, Before
<1>. QED
  BY <1>1 DEF ColsTo, ColsIn

LEMMA RowsGoOn ==
  ASSUME NEW L \in SUBSET IdLine, NEW last \in L, NEW next, Follows(L, last, next),
         next.bm = last.bm, next.row # last.row
  PROVE  RowsBefore(L, next) = RowsBefore(L, last) \cup {last.row} /\ last.row < next.row
<1>1. next \in L /\ next \in IdLine /\ last \in IdLine
  BY DEF Follows
<1>2. last.row < next.row
  BY <1>1, LineTypes DEF Follows, Before
<1>3. ASSUME NEW l \in L, l.bm = last.bm
      PROVE  l.row < next.row <=> l.row < last.row \/ l.row = last.row
  <2>1. l \in IdLine
    OBVIOUS
  <2>2. l.row \in Nat /\ last.row \in Nat /\ next.row \in Nat
    BY <1>1, <2>1, LineTypes
  <2>3. last.row < l.row => l = next \/ Before(next, l)
    BY <1>3 DEF Follows, Before
  <2>4. Before(next, l) => next.row < l.row \/ next.row = l.row
    BY <1>1, <1>3, <2>1, LineTypes DEF Before
  <2>. QED
    BY <1>2, <2>2, <2>3, <2>4
<1>4. \A r \in RowsIn(L, last.bm) : r < next.row <=> r < last.row \/ r = last.row
  BY <1>3 DEF RowsIn
<1>5. last.row \in RowsIn(L, last.bm)
  BY DEF RowsIn
<1>. QED
  BY <1>2, <1>4, <1>5 DEF RowsBefore

LEMMA BitMatBegins ==
  ASSUME NEW L \in SUBSET IdLine, NEW last \in L \cup {NoLine}, NEW next, Follows(L, last, next),
         next.bm # last.bm
  PROVE  RowsBefore(L, next) = {}
<1>1. next \in L /\ next \in IdLine /\ last \in LineType
  BY LineTypes DEF Follows
<1>2. /\ last.bm \in Nat /\ next.bm \in Nat /\ next.row \in Nat
  BY <1>1, LineTypes DEF LineType
<1>3. last.bm < next.bm
  BY RowBegins
<1>4. ASSUME NEW l \in L, l.bm = next.bm PROVE ~(l.row < next.row)
  <2>1. l.row \in Nat /\ l.bm \in Nat
    BY LineTypes
  <2>2. Before(last, l)
    BY <1>3, <1>4 DEF Before
  <2>3. l = next \/ Before(next, l)
    BY <2>2 DEF Follows
  <2>. QED
    BY <1>2, <1>4, <2>1, <2>3 DEF Before
<1>. QED
  BY <1>4 DEF RowsBefore, RowsIn

LEMMA BitMatComplete ==
  ASSUME NEW L \in SUBSET IdLine, NEW last \in L, BitMatDone(L, last)
  PROVE  RowsIn(L, last.bm) = RowsBefore(L, last) \cup {last.row}
<1>1. \A l \in L : l.bm = last.bm => l.row < last.row \/ l.row = last.row
  <2>1. TAKE l \in L
  <2>2. l \in IdLine /\ last \in IdLine
    OBVIOUS
  <2>3. l.row \in Nat /\ last.row \in Nat
    BY <2>2, LineTypes
  <2>. QED
    BY <2>3 DEF BitMatDone, Before
<1>. QED
  BY <1>1 DEF RowsBefore, RowsIn

LEMMA BitMatsGoOn ==
  ASSUME NEW L \in SUBSET IdLine, NEW last \in L, NEW next, Follows(L, last, next),
         next.bm # last.bm
  PROVE  BitMatsBefore(L, next) = BitMatsBefore(L, last) \cup {last.bm}
<1>1. next \in L /\ next \in IdLine /\ last \in IdLine
  BY DEF Follows
<1>2. last.bm < next.bm
  BY RowBegins
<1>3. ASSUME NEW l \in L
      PROVE  l.bm < next.bm <=> l.bm < last.bm \/ l.bm = last.bm
  <2>1. l \in IdLine
    OBVIOUS
  <2>2. l.bm \in Nat /\ last.bm \in Nat /\ next.bm \in Nat
    BY <1>1, <2>1, LineTypes
  <2>3. last.bm < l.bm => l = next \/ Before(next, l)
    BY DEF Follows, Before
  <2>4. Before(next, l) => next.bm < l.bm \/ next.bm = l.bm
    BY DEF Before
  <2>. QED
    BY <1>2, <2>2, <2>3, <2>4
<1>. QED
  BY <1>2, <1>3 DEF BitMatsBefore

LEMMA AllComplete ==
  ASSUME NEW L \in SUBSET IdLine, NEW last \in L, \A l \in L : ~Before(last, l)
  PROVE  /\ RowDone(L, last) /\ BitMatDone(L, last)
         /\ {l.bm : l \in L} = BitMatsBefore(L, last) \cup {last.bm}
<1>1. \A l \in L : l.bm < last.bm \/ l.bm = last.bm
  <2>1. TAKE l \in L
  <2>2. l \in IdLine /\ last \in IdLine
    OBVIOUS
  <2>3. l.bm \in Nat /\ last.bm \in Nat
    BY <2>2, LineTypes
  <2>. QED
    BY <2>3 DEF Before
<1>. QED
  BY <1>1 DEF RowDone, BitMatDone, BitMatsBefore

----------------------------------------------------------------------------
(* A bitmat built from lines, whether they come from a file or a list.     *)

MatRow == [rowid : Id, data : Row]

\* The rows R of bitmat b, in order.
IsRows(rows, L, b, R, bytes) ==
  /\ rows \in Seq(MatRow)
  /\ \A k, l \in 1 .. Len(rows) : k < l => rows[k].rowid < rows[l].rowid
  /\ {rows[k].rowid : k \in 1 .. Len(rows)} = R
  /\ \A k \in 1 .. Len(rows) : IsRow(rows[k].data, ColsIn(L, b, rows[k].rowid), 8 * bytes)

IsGrown(L, last, row) == last # NoLine => IsRow(row, ColsTo(L, last), last.col)

IsBuilt(L, queue, last, row, rows, bytes) ==
  /\ IsQueue(L, queue, last)
  /\ IsGrown(L, last, row)
  /\ IsRows(rows, L, last.bm, RowsBefore(L, last), bytes)

\* Lines that a row of so many bytes has room for.
Fitting(L, bytes) ==
  /\ L \subseteq IdLine /\ bytes \in Nat /\ 8 * bytes < Word
  /\ \A l \in L : l.col <= 8 * bytes

RowCompleted(row, last, bytes) ==
  [rowid |-> last.row,
   data  |-> IF 8 * bytes - last.col > 0 THEN Concatenate(row, Run(FALSE, 8 * bytes - last.col)) ELSE row]

LEMMA NextFollows ==
  ASSUME NEW L \in SUBSET IdLine, NEW queue, NEW last, IsQueue(L, queue, last), queue # << >>
  PROVE  Follows(L, last, queue[1]) /\ IsQueue(L, Tail(queue), queue[1])
BY NextLine, LineTypes DEF Follows

LEMMA NoneFollows ==
  ASSUME NEW L \in SUBSET IdLine, NEW last, IsQueue(L, << >>, last)
  PROVE  \A l \in L : ~Before(last, l)
BY DEF IsQueue

\* The row that is completed, after those before it.
LEMMA RowAdded ==
  ASSUME NEW L, NEW bytes, Fitting(L, bytes), NEW last \in L, NEW row,
         IsGrown(L, last, row), RowDone(L, last), NEW rows,
         IsRows(rows, L, last.bm, RowsBefore(L, last), bytes)
  PROVE  IsRows(Append(rows, RowCompleted(row, last, bytes)), L, last.bm,
                RowsBefore(L, last) \cup {last.row}, bytes)
<1>. DEFINE new == RowCompleted(row, last, bytes)
            all == Append(rows, new)
            n == Len(rows)
            R == RowsBefore(L, last)
<1>1. /\ last \in IdLine /\ last # NoLine /\ last.row \in Id /\ last.col \in Nat
      /\ last.col <= 8 * bytes /\ 8 * bytes \in Nat /\ 8 * bytes < Word
  BY LineTypes DEF Fitting, IdLine
<1>2. IsRow(row, ColsIn(L, last.bm, last.row), last.col)
  BY <1>1, RowComplete DEF IsGrown, Fitting
<1>3. new.rowid = last.row /\ IsRow(new.data, ColsIn(L, last.bm, last.row), 8 * bytes)
  <2>1. IsRow(IF 8 * bytes - last.col > 0 THEN Concatenate(row, Run(FALSE, 8 * bytes - last.col)) ELSE row,
              ColsIn(L, last.bm, last.row), 8 * bytes)
    BY <1>1, <1>2, FilledIs
  <2>. QED
    BY <2>1 DEF RowCompleted
<1>4. new \in MatRow
  <2>1. new.data \in Row
    BY <1>3 DEF IsRow, Straight
  <2>. QED
    BY <1>1, <1>3, <2>1 DEF RowCompleted, MatRow
<1>. HIDE DEF new
<1>5. n \in Nat /\ rows \in Seq(MatRow)
  BY DEF IsRows
<1>6. all \in Seq(MatRow) /\ Len(all) = n + 1 /\ all[n + 1] = new /\ \A k \in 1 .. n : all[k] = rows[k]
  BY <1>4, <1>5
<1>. HIDE DEF all
<1>7. \A k \in 1 .. n + 1 : k \in 1 .. n \/ k = n + 1
  BY <1>5
<1>8. \A k \in 1 .. n : rows[k].rowid \in R /\ rows[k].rowid < last.row
  BY DEF IsRows, RowsBefore
<1>9. \A k, l \in 1 .. n + 1 : k < l => all[k].rowid < all[l].rowid
  <2>1. TAKE k, l \in 1 .. n + 1
  <2>2. HAVE k < l
  <2>3. k \in 1 .. n
    BY <1>5, <2>2
  <2>4. CASE l = n + 1
    BY <1>3, <1>6, <1>8, <2>3, <2>4
  <2>5. CASE l # n + 1
    BY <1>6, <1>7, <2>2, <2>3, <2>5 DEF IsRows
  <2>. QED
    BY <2>4, <2>5
<1>10. {all[k].rowid : k \in 1 .. n + 1} = R \cup {last.row}
  <2>1. \A k \in 1 .. n + 1 : all[k].rowid \in R \cup {last.row}
    BY <1>3, <1>6, <1>7, <1>8
  <2>2. \A r \in R : \E k \in 1 .. n + 1 : r = all[k].rowid
    <3>1. TAKE r \in R
    <3>2. PICK k \in 1 .. n : r = rows[k].rowid
      BY DEF IsRows
    <3>3. k \in 1 .. n + 1
      BY <1>5
    <3>. QED
      BY <1>6, <3>2, <3>3
  <2>3. n + 1 \in 1 .. n + 1
    BY <1>5
  <2>. HIDE DEF R
  <2>. QED
    BY <1>3, <1>6, <2>1, <2>2, <2>3
<1>11. \A k \in 1 .. n + 1 : IsRow(all[k].data, ColsIn(L, last.bm, all[k].rowid), 8 * bytes)
  <2>1. \A k \in 1 .. n : IsRow(all[k].data, ColsIn(L, last.bm, all[k].rowid), 8 * bytes)
    BY <1>6 DEF IsRows
  <2>. QED
    BY <1>3, <1>6, <1>7, <2>1
<1>. QED
  BY <1>6, <1>9, <1>10, <1>11 DEF IsRows, all, new

LEMMA BuildFirst ==
  ASSUME NEW L, NEW bytes, Fitting(L, bytes), NEW queue, NEW row, NEW rows, queue # << >>,
         IsBuilt(L, queue, NoLine, row, rows, bytes)
  PROVE  IsBuilt(L, Tail(queue), queue[1], Started(queue[1].col), rows, bytes)
<1>. DEFINE next == queue[1]
<1>1. L \in SUBSET IdLine
  BY DEF Fitting
<1>2. Follows(L, NoLine, next) /\ IsQueue(L, Tail(queue), next)
  BY <1>1, NextFollows DEF IsBuilt
<1>. HIDE DEF next
<1>3. next \in L /\ next \in IdLine
  BY <1>1, <1>2 DEF Follows
<1>4. next.bm # NoLine.bm /\ next.col \in 1 .. Word - 1 /\ NoLine \in L \cup {NoLine}
  <2>1. next.col \in Nat /\ next.col >= 1 /\ next.col <= 8 * bytes /\ 8 * bytes < Word /\ 8 * bytes \in Nat
    BY <1>3, LineTypes DEF Fitting
  <2>. QED
    BY <1>3, <2>1, LineTypes, WordAssumption
<1>5. ColsTo(L, next) = {next.col} /\ RowsBefore(L, next) = {}
  BY <1>1, <1>2, <1>4, RowBegins, BitMatBegins
<1>6. IsGrown(L, next, Started(next.col))
  BY <1>4, <1>5, StartedIs DEF IsGrown
<1>7. rows = << >>
  <2>1. RowsBefore(L, NoLine) = {}
    <3>1. \A l \in L : l.bm # NoLine.bm
      BY <1>1, LineTypes
    <3>. QED
      BY <3>1 DEF RowsBefore, RowsIn
  <2>2. rows \in Seq(MatRow) /\ {rows[k].rowid : k \in 1 .. Len(rows)} = {}
    BY <2>1 DEF IsBuilt, IsRows
  <2>3. \A k \in 1 .. Len(rows) : FALSE
    BY <2>2
  <2>4. rows # << >> => 1 \in 1 .. Len(rows)
    BY <2>2
  <2>. QED
    BY <2>3, <2>4
<1>8. IsRows(rows, L, next.bm, {}, bytes)
  BY <1>7 DEF IsRows
<1>. QED
  BY <1>2, <1>5, <1>6, <1>8 DEF IsBuilt, next

LEMMA BuildSame ==
  ASSUME NEW L, NEW bytes, Fitting(L, bytes), NEW queue, NEW last, last # NoLine, NEW row, NEW rows,
         queue # << >>, IsBuilt(L, queue, last, row, rows, bytes),
         queue[1].bm = last.bm, queue[1].row = last.row
  PROVE  IsBuilt(L, Tail(queue), queue[1], Continued(row, last.col, queue[1].col), rows, bytes)
<1>. DEFINE next == queue[1]
<1>1. L \in SUBSET IdLine /\ last \in L
  BY DEF Fitting, IsBuilt, IsQueue
<1>2. Follows(L, last, next) /\ IsQueue(L, Tail(queue), next)
  BY <1>1, NextFollows DEF IsBuilt
<1>3. next.bm = last.bm /\ next.row = last.row
  OBVIOUS
<1>. HIDE DEF next
<1>4. next \in L /\ next \in IdLine /\ last \in IdLine
  BY <1>1, <1>2 DEF Follows
<1>5. last.col < next.col /\ ColsTo(L, next) = ColsTo(L, last) \cup {next.col}
  BY <1>1, <1>2, <1>3, RowGoesOn
<1>6. last.col \in Nat /\ next.col \in Nat /\ next.col < Word
  <2>1. next.col <= 8 * bytes /\ 8 * bytes < Word /\ 8 * bytes \in Nat /\ last.col \in Nat /\ next.col \in Nat
    BY <1>4, LineTypes DEF Fitting
  <2>. QED
    BY <2>1, WordAssumption
<1>7. IsGrown(L, next, Continued(row, last.col, next.col))
  <2>1. IsRow(row, ColsTo(L, last), last.col)
    BY DEF IsBuilt, IsGrown
  <2>. QED
    BY <1>5, <1>6, <2>1, ContinuedIs DEF IsGrown
<1>8. RowsBefore(L, next) = RowsBefore(L, last)
  BY <1>3 DEF RowsBefore
<1>. QED
  BY <1>2, <1>3, <1>7, <1>8 DEF IsBuilt, next

LEMMA BuildRow ==
  ASSUME NEW L, NEW bytes, Fitting(L, bytes), NEW queue, NEW last, last # NoLine, NEW row, NEW rows,
         queue # << >>, IsBuilt(L, queue, last, row, rows, bytes),
         queue[1].bm = last.bm, queue[1].row # last.row
  PROVE  /\ IsBuilt(L, Tail(queue), queue[1], Started(queue[1].col),
                    Append(rows, RowCompleted(row, last, bytes)), bytes)
         /\ RowsBefore(L, queue[1]) = RowsBefore(L, last) \cup {last.row}
<1>. DEFINE next == queue[1]
<1>1. L \in SUBSET IdLine /\ last \in L
  BY DEF Fitting, IsBuilt, IsQueue
<1>2. Follows(L, last, next) /\ IsQueue(L, Tail(queue), next)
  BY <1>1, NextFollows DEF IsBuilt
<1>3. next.bm = last.bm /\ next.row # last.row
  OBVIOUS
<1>. HIDE DEF next
<1>4. next \in L /\ next \in IdLine /\ last \in IdLine
  BY <1>1, <1>2 DEF Follows
<1>5. ColsTo(L, next) = {next.col} /\ RowDone(L, last)
  BY <1>1, <1>2, <1>3, RowBegins
<1>6. RowsBefore(L, next) = RowsBefore(L, last) \cup {last.row}
  BY <1>1, <1>2, <1>3, RowsGoOn
<1>7. next.col \in 1 .. Word - 1
  <2>1. next.col \in Nat /\ next.col >= 1 /\ next.col <= 8 * bytes /\ 8 * bytes < Word /\ 8 * bytes \in Nat
    BY <1>4, LineTypes DEF Fitting
  <2>. QED
    BY <2>1, WordAssumption
<1>8. IsGrown(L, next, Started(next.col))
  BY <1>5, <1>7, StartedIs DEF IsGrown
<1>9. IsRows(Append(rows, RowCompleted(row, last, bytes)), L, last.bm, RowsBefore(L, last) \cup {last.row}, bytes)
  BY <1>1, <1>5, RowAdded DEF IsBuilt
<1>. QED
  BY <1>2, <1>3, <1>6, <1>8, <1>9 DEF IsBuilt, next

LEMMA BuildBitMat ==
  ASSUME NEW L, NEW bytes, Fitting(L, bytes), NEW queue, NEW last, last # NoLine, NEW row, NEW rows,
         queue # << >>, IsBuilt(L, queue, last, row, rows, bytes), queue[1].bm # last.bm
  PROVE  /\ IsBuilt(L, Tail(queue), queue[1], Started(queue[1].col), << >>, bytes)
         /\ RowsBefore(L, queue[1]) = {}
         /\ IsRows(Append(rows, RowCompleted(row, last, bytes)), L, last.bm, RowsIn(L, last.bm), bytes)
         /\ RowsIn(L, last.bm) = RowsBefore(L, last) \cup {last.row}
         /\ BitMatsBefore(L, queue[1]) = BitMatsBefore(L, last) \cup {last.bm}
         /\ last \in L /\ Follows(L, last, queue[1])
<1>. DEFINE next == queue[1]
<1>1. L \in SUBSET IdLine /\ last \in L
  BY DEF Fitting, IsBuilt, IsQueue
<1>2. Follows(L, last, next) /\ IsQueue(L, Tail(queue), next)
  BY <1>1, NextFollows DEF IsBuilt
<1>3. next.bm # last.bm
  OBVIOUS
<1>. HIDE DEF next
<1>4. next \in L /\ next \in IdLine /\ last \in IdLine
  BY <1>1, <1>2 DEF Follows
<1>5. ColsTo(L, next) = {next.col} /\ RowDone(L, last) /\ BitMatDone(L, last)
  BY <1>1, <1>2, <1>3, RowBegins
<1>6. RowsBefore(L, next) = {}
  BY <1>1, <1>2, <1>3, BitMatBegins
<1>7. next.col \in 1 .. Word - 1
  <2>1. next.col \in Nat /\ next.col >= 1 /\ next.col <= 8 * bytes /\ 8 * bytes < Word /\ 8 * bytes \in Nat
    BY <1>4, LineTypes DEF Fitting
  <2>. QED
    BY <2>1, WordAssumption
<1>8. IsGrown(L, next, Started(next.col))
  BY <1>5, <1>7, StartedIs DEF IsGrown
<1>9. IsRows(Append(rows, RowCompleted(row, last, bytes)), L, last.bm, RowsBefore(L, last) \cup {last.row}, bytes)
  BY <1>1, <1>5, RowAdded DEF IsBuilt
<1>10. RowsIn(L, last.bm) = RowsBefore(L, last) \cup {last.row}
  BY <1>1, <1>5, BitMatComplete
<1>11. BitMatsBefore(L, next) = BitMatsBefore(L, last) \cup {last.bm}
  BY <1>1, <1>2, <1>3, BitMatsGoOn
<1>12. IsRows(<< >>, L, next.bm, {}, bytes)
  BY DEF IsRows
<1>. QED
  BY <1>1, <1>2, <1>6, <1>8, <1>9, <1>10, <1>11, <1>12 DEF IsBuilt, next

LEMMA BuildLast ==
  ASSUME NEW L, NEW bytes, Fitting(L, bytes), NEW last, last # NoLine, NEW row, NEW rows,
         IsBuilt(L, << >>, last, row, rows, bytes)
  PROVE  /\ IsRows(Append(rows, RowCompleted(row, last, bytes)), L, last.bm, RowsIn(L, last.bm), bytes)
         /\ RowsIn(L, last.bm) = RowsBefore(L, last) \cup {last.row}
         /\ {l.bm : l \in L} = BitMatsBefore(L, last) \cup {last.bm}
         /\ last \in L /\ \A l \in L : ~Before(last, l)
<1>1. L \in SUBSET IdLine /\ last \in L
  BY DEF Fitting, IsBuilt, IsQueue
<1>2. \A l \in L : ~Before(last, l)
  BY <1>1, NoneFollows DEF IsBuilt
<1>3. RowDone(L, last) /\ BitMatDone(L, last) /\ {l.bm : l \in L} = BitMatsBefore(L, last) \cup {last.bm}
  BY <1>1, <1>2, AllComplete
<1>4. IsRows(Append(rows, RowCompleted(row, last, bytes)), L, last.bm, RowsBefore(L, last) \cup {last.row}, bytes)
  BY <1>1, <1>3, RowAdded DEF IsBuilt
<1>5. RowsIn(L, last.bm) = RowsBefore(L, last) \cup {last.row}
  BY <1>1, <1>3, BitMatComplete
<1>. QED
  BY <1>1, <1>2, <1>3, <1>4, <1>5

----------------------------------------------------------------------------
(* The fold of the rows and the number of the triples.                     *)

\* A subject fold with the rows R, the last of them bit.
IsFold(R, fold, bit, coded) ==
  IF ~coded THEN fold = R
  ELSE IF R = {} THEN fold = NoRow /\ bit = 1
  ELSE bit \in R /\ (\A r \in R : r <= bit) /\ IsRow(fold, R, bit)

LEMMA FoldAdded ==
  ASSUME NEW R \in SUBSET Nat, NEW fold, NEW bit, NEW coded \in BOOLEAN, IsFold(R, fold, bit, coded),
         NEW row \in 1 .. Word - 1, \A r \in R : r < row
  PROVE  IsFold(R \cup {row},
                IF ~coded THEN fold \cup {row}
                ELSE IF fold = NoRow THEN Started(1 + row - bit) ELSE Continued(fold, bit, row),
                IF coded THEN row ELSE bit, coded)
<1>1. row \in Nat /\ row < Word
  BY WordAssumption
<1>2. CASE ~coded
  BY <1>2 DEF IsFold
<1>3. CASE coded /\ R = {}
  <2>1. fold = NoRow /\ bit = 1 /\ 1 + row - bit = row
    BY <1>1, <1>3 DEF IsFold
  <2>2. IsRow(Started(row), {row}, row)
    BY StartedIs
  <2>. QED
    BY <1>1, <1>3, <2>1, <2>2 DEF IsFold
<1>4. CASE coded /\ R # {}
  <2>1. bit \in R /\ IsRow(fold, R, bit) /\ \A r \in R : r <= bit
    BY <1>4 DEF IsFold
  <2>2. fold # NoRow
    BY <2>1 DEF IsRow, Straight, NoRow
  <2>3. bit \in Nat /\ bit < row
    BY <2>1
  <2>4. IsRow(Continued(fold, bit, row), R \cup {row}, row)
    BY <1>1, <2>1, <2>3, ContinuedIs
  <2>5. \A r \in R \cup {row} : r <= row
    BY <1>1
  <2>. QED
    BY <1>4, <2>2, <2>4, <2>5 DEF IsFold
<1>. QED
  BY <1>2, <1>3, <1>4

LEMMA SameSize ==
  ASSUME NEW S, IsFiniteSet(S), NEW T, NEW f \in [S -> T],
         \A x, y \in S : f[x] = f[y] => x = y, \A t \in T : \E x \in S : f[x] = t
  PROVE  IsFiniteSet(T) /\ Cardinality(T) = Cardinality(S)
<1>1. f \in Surjection(S, T)
  BY DEF Surjection
<1>2. f \in Injection(S, T)
  BY DEF Injection, IsInjective
<1>. QED
  BY <1>1, <1>2, FS_Surjection

\* Rows that are in order, and may have a last run of any length.
InOrder(rows) ==
  /\ rows \in Seq(MatRow)
  /\ \A k \in 1 .. Len(rows) : Loose(rows[k].data)
  /\ \A k, l \in 1 .. Len(rows) : k < l => rows[k].rowid < rows[l].rowid

\* The cells are counted row by row.
LEMMA CountIsCells ==
  ASSUME NEW rows, InOrder(rows)
  PROVE  IsFiniteSet(Cells(rows)) /\ CountTriples(rows) = Cardinality(Cells(rows))
<1>. DEFINE n == Len(rows)
            s == [k \in 1 .. n |-> CountTriplesInRow(rows[k].data)]
            Of(k) == {rows[k].rowid} \X Bits(rows[k].data)
            To(k) == UNION {Of(j) : j \in 1 .. k}
            T == {k \in 0 .. n : IsFiniteSet(To(k)) /\ Sums(s)[k] = Cardinality(To(k))}
<1>1. n \in Nat /\ DOMAIN rows = 1 .. n /\ \A k \in 1 .. n : rows[k].rowid \in Nat
  <2>1. rows \in Seq(MatRow)
    BY DEF InOrder
  <2>2. \A k \in 1 .. n : rows[k] \in MatRow
    BY <2>1
  <2>3. \A x \in MatRow : x.rowid \in Nat
    BY DEF MatRow, Id
  <2>. QED
    BY <2>1, <2>2, <2>3
<1>2. ASSUME NEW k \in 1 .. n
      PROVE  /\ IsFiniteSet(Bits(rows[k].data))
             /\ CountTriplesInRow(rows[k].data) = Cardinality(Bits(rows[k].data))
             /\ CountTriplesInRow(rows[k].data) \in Nat
             /\ IsFiniteSet(Of(k)) /\ Cardinality(Of(k)) = CountTriplesInRow(rows[k].data)
  <2>. DEFINE B == Bits(rows[k].data)
              x == rows[k].rowid
  <2>1. IsFiniteSet(B) /\ CountTriplesInRow(rows[k].data) = Cardinality(B)
    BY CountIsBits DEF InOrder
  <2>2. Cardinality(B) \in Nat
    BY <2>1, FS_CardinalityType
  <2>. HIDE DEF B, x
  <2>. DEFINE f == [b \in B |-> <<x, b>>]
  <2>3. f \in [B -> {x} \X B] /\ (\A b, c \in B : f[b] = f[c] => b = c)
        /\ \A p \in {x} \X B : \E b \in B : f[b] = p
    OBVIOUS
  <2>. HIDE DEF f
  <2>4. IsFiniteSet({x} \X B) /\ Cardinality({x} \X B) = Cardinality(B)
    BY <2>1, <2>3, SameSize
  <2>. QED
    BY <2>1, <2>2, <2>4 DEF B, x
<1>3. s \in Seq(Nat) /\ Len(s) = n /\ \A k \in 1 .. n : s[k] = CountTriplesInRow(rows[k].data)
  <2>1. \A k \in 1 .. n : CountTriplesInRow(rows[k].data) \in Nat
    BY <1>2
  <2>. HIDE DEF n
  <2>. QED
    BY <1>1, <2>1
<1>. HIDE DEF s
<1>4. Sums(s)[0] = 0 /\ \A k \in 1 .. n : Sums(s)[k] = Sums(s)[k - 1] + s[k]
  BY <1>3, SumsAre
<1>5. 0 \in T
  <2>1. To(0) = {}
    OBVIOUS
  <2>. HIDE DEF To, n
  <2>2. IsFiniteSet(To(0)) /\ Cardinality(To(0)) = 0
    BY <2>1, FS_EmptySet
  <2>. QED
    BY <1>1, <1>4, <2>2
<1>6. ASSUME NEW k \in 1 .. n, k - 1 \in T PROVE k \in T
  <2>1. IsFiniteSet(To(k - 1)) /\ Sums(s)[k - 1] = Cardinality(To(k - 1))
    BY <1>6
  <2>2. To(k) = To(k - 1) \cup Of(k)
    <3>1. \A j : j \in 1 .. k <=> j \in 1 .. k - 1 \/ j = k
      BY <1>1
    <3>. HIDE DEF Of
    <3>. QED
      BY <3>1
  <2>3. To(k - 1) \cap Of(k) = {}
    <3>1. \A j \in 1 .. k - 1 : j \in 1 .. n /\ rows[j].rowid # rows[k].rowid
      <4>1. TAKE j \in 1 .. k - 1
      <4>2. j \in 1 .. n /\ j < k
        BY <1>1
      <4>3. rows[j].rowid < rows[k].rowid
        BY <4>2 DEF InOrder
      <4>. QED
        BY <1>1, <4>2, <4>3
    <3>. QED
      BY <3>1
  <2>4. IsFiniteSet(Of(k)) /\ Cardinality(Of(k)) = s[k] /\ s[k] \in Nat
    BY <1>2, <1>3
  <2>. HIDE DEF To, Of
  <2>5. IsFiniteSet(To(k)) /\ Cardinality(To(k)) = Cardinality(To(k - 1)) + Cardinality(Of(k)) - Cardinality(To(k - 1) \cap Of(k))
    BY <2>1, <2>2, <2>4, FS_Union
  <2>6. Cardinality(To(k - 1)) \in Nat /\ Cardinality(To(k - 1) \cap Of(k)) = 0
    BY <2>1, <2>3, FS_CardinalityType, FS_EmptySet
  <2>7. Sums(s)[k] = Cardinality(To(k))
    BY <1>4, <2>1, <2>4, <2>5, <2>6
  <2>. QED
    BY <1>1, <2>5, <2>7
<1>7. n \in T
  <2>. HIDE DEF T
  <2>1. \A k \in 0 .. n : k \in T
    <3>. HIDE DEF n
    <3>. QED
      BY <1>1, <1>5, <1>6, InductOn
  <2>. QED
    BY <1>1, <2>1
<1>8. Cells(rows) = To(n)
  BY <1>1 DEF Cells
<1>9. CountTriples(rows) = Sums(s)[n]
  BY <1>3 DEF CountTriples, SumOf, s
<1>. QED
  BY <1>7, <1>8, <1>9

----------------------------------------------------------------------------
(* The fields of the file and where they end.                              *)

Field == [value : Nat \cup Row \cup SUBSET Nat, bytes : Nat \ {0}, coded : BOOLEAN]

LEMMA Sizes ==
  ASSUME NEW f \in Seq(Field)
  PROVE  LET s == [i \in 1 .. Len(f) |-> f[i].bytes]
         IN s \in Seq(Nat) /\ Len(s) = Len(f) /\ \A i \in 1 .. Len(f) : s[i] = f[i].bytes /\ s[i] >= 1
<1>. DEFINE n == Len(f)
<1>1. n \in Nat /\ \A i \in 1 .. n : f[i].bytes \in Nat /\ f[i].bytes >= 1
  <2>1. \A i \in 1 .. n : f[i] \in Field
    OBVIOUS
  <2>2. \A x \in Field : x.bytes \in Nat /\ x.bytes >= 1
    BY DEF Field
  <2>. QED
    BY <2>1, <2>2
<1>. HIDE DEF n
<1>2. [i \in 1 .. n |-> f[i].bytes] \in Seq(Nat) /\ Len([i \in 1 .. n |-> f[i].bytes]) = n
  BY <1>1
<1>. QED
  BY <1>1, <1>2 DEF n

LEMMA OffsetsAre ==
  ASSUME NEW f \in Seq(Field)
  PROVE  /\ \A i \in 0 .. Len(f) : Offsets(f)[i] \in Nat
         /\ Offsets(f)[0] = 0
         /\ \A i, j \in 0 .. Len(f) : i < j => Offsets(f)[i] < Offsets(f)[j]
<1>. DEFINE n == Len(f)
            s == [i \in 1 .. n |-> f[i].bytes]
            o == Offsets(f)
<1>1. s \in Seq(Nat) /\ Len(s) = n /\ n \in Nat /\ \A i \in 1 .. n : s[i] >= 1
  BY Sizes
<1>2. o = Sums(s)
  BY DEF Offsets
<1>. HIDE DEF s, o
<1>3. o \in [0 .. n -> Nat] /\ o[0] = 0 /\ \A i \in 1 .. n : o[i] = o[i - 1] + s[i]
  BY <1>1, <1>2, SumsAre
<1>4. \A i \in 1 .. n : o[i - 1] < o[i]
  <2>1. TAKE i \in 1 .. n
  <2>2. i - 1 \in 0 .. n /\ i \in 0 .. n
    BY <1>1
  <2>3. s[i] \in Nat /\ s[i] >= 1
    BY <1>1
  <2>4. o[i - 1] \in Nat /\ o[i] = o[i - 1] + s[i]
    <3>. HIDE DEF n
    <3>. QED
      BY <1>3, <2>2
  <2>. QED
    BY <2>3, <2>4
<1>. DEFINE T == {j \in 0 .. n : \A i \in 0 .. n : i < j => o[i] < o[j]}
<1>5. 0 \in T
  BY <1>1
<1>6. ASSUME NEW j \in 1 .. n, j - 1 \in T PROVE j \in T
  <2>1. j \in 0 .. n /\ j - 1 \in 0 .. n
    BY <1>1
  <2>2. ASSUME NEW i \in 0 .. n, i < j PROVE o[i] < o[j]
    <3>1. i = j - 1 \/ i < j - 1
      BY <1>1, <2>2
    <3>2. i < j - 1 => o[i] < o[j - 1]
      BY <1>6
    <3>3. o[i] \in Nat /\ o[j - 1] \in Nat /\ o[j] \in Nat /\ o[j - 1] < o[j]
      BY <1>3, <1>4, <2>1
    <3>. QED
      BY <3>1, <3>2, <3>3
  <2>. QED
    BY <2>1, <2>2
<1>7. \A j \in 0 .. n : j \in T
  <2>. HIDE DEF T, n
  <2>. QED
    BY <1>1, <1>5, <1>6, InductOn
<1>. QED
  BY <1>3, <1>7 DEF o

LEMMA SumsOfPrefix ==
  ASSUME NEW s \in Seq(Nat), NEW t \in Seq(Nat), NEW m \in Nat, m <= Len(s), m <= Len(t),
         \A i \in 1 .. m : s[i] = t[i]
  PROVE  \A i \in 0 .. m : Sums(s)[i] = Sums(t)[i]
<1>. DEFINE T == {i \in 0 .. m : Sums(s)[i] = Sums(t)[i]}
<1>1. /\ Sums(s)[0] = 0 /\ \A i \in 1 .. Len(s) : Sums(s)[i] = Sums(s)[i - 1] + s[i]
      /\ Sums(t)[0] = 0 /\ \A i \in 1 .. Len(t) : Sums(t)[i] = Sums(t)[i - 1] + t[i]
  BY SumsAre
<1>2. 0 \in T
  BY <1>1
<1>3. ASSUME NEW i \in 1 .. m, i - 1 \in T PROVE i \in T
  <2>1. i \in 1 .. Len(s) /\ i \in 1 .. Len(t) /\ i \in 0 .. m
    OBVIOUS
  <2>2. Sums(s)[i - 1] = Sums(t)[i - 1] /\ s[i] = t[i]
    BY <1>3
  <2>. QED
    BY <1>1, <2>1, <2>2
<1>4. \A i \in 0 .. m : i \in T
  <2>. HIDE DEF T
  <2>. QED
    BY <1>2, <1>3, InductOn
<1>. QED
  BY <1>4

LEMMA OffsetsStay ==
  ASSUME NEW f \in Seq(Field), NEW g \in Seq(Field)
  PROVE  \A i \in 0 .. Len(f) : Offsets(f \o g)[i] = Offsets(f)[i]
<1>. DEFINE h == f \o g
            s == [i \in 1 .. Len(f) |-> f[i].bytes]
            t == [i \in 1 .. Len(h) |-> h[i].bytes]
<1>1. h \in Seq(Field) /\ Len(h) = Len(f) + Len(g) /\ (\A i \in 1 .. Len(f) : h[i] = f[i])
      /\ Len(f) \in Nat /\ Len(g) \in Nat
  OBVIOUS
<1>. HIDE DEF h
<1>2. s \in Seq(Nat) /\ Len(s) = Len(f) /\ \A i \in 1 .. Len(f) : s[i] = f[i].bytes
  BY Sizes
<1>3. t \in Seq(Nat) /\ Len(t) = Len(h) /\ \A i \in 1 .. Len(h) : t[i] = h[i].bytes
  BY <1>1, Sizes
<1>4. Offsets(f) = Sums(s) /\ Offsets(h) = Sums(t)
  BY DEF Offsets
<1>. HIDE DEF s, t
<1>5. \A i \in 1 .. Len(f) : s[i] = t[i]
  <2>1. \A i \in 1 .. Len(f) : i \in 1 .. Len(h)
    BY <1>1
  <2>. QED
    BY <1>1, <1>2, <1>3, <2>1
<1>6. Len(f) <= Len(s) /\ Len(f) <= Len(t)
  BY <1>1, <1>2, <1>3
<1>7. \A i \in 0 .. Len(f) : Sums(s)[i] = Sums(t)[i]
  <2>. DEFINE m == Len(f)
  <2>. HIDE DEF m
  <2>1. m \in Nat /\ m <= Len(s) /\ m <= Len(t) /\ \A i \in 1 .. m : s[i] = t[i]
    BY <1>1, <1>5, <1>6 DEF m
  <2>2. \A i \in 0 .. m : Sums(s)[i] = Sums(t)[i]
    BY <1>2, <1>3, <2>1, SumsOfPrefix
  <2>. QED
    BY <2>2 DEF m
<1>. QED
  BY <1>4, <1>7 DEF h

----------------------------------------------------------------------------
(* The lines of the file and the widths of its rows.                       *)

LinesOf(s, c)   == {Line(c.dim, tr) : tr \in s}
IsPredicates(c) == c.dim \in {"PSO", "POS"}
IsCoded(c)      == IsPredicates(c) \/ c.compress
RowBytes(c)     == BytesFor(Width(c.dim, "objfold"))
FoldBytes(c)    == BytesFor(Width(c.dim, "subfold"))

\* The ids of a file.
WithinIds(L, c) ==
  \A l \in L : /\ l.bm \in 1 .. NumBitMats(c.dim)
               /\ l.row \in 1 .. Width(c.dim, "subfold")
               /\ l.col \in 1 .. Width(c.dim, "objfold")

LEMMA BytesOf ==
  ASSUME NEW n \in Nat \ {0}
  PROVE  BytesFor(n) \in Nat /\ BytesFor(n) >= 1 /\ n <= 8 * BytesFor(n) /\ 8 * BytesFor(n) \in Nat
BY DEF BytesFor

LEMMA Widths ==
  ASSUME NEW c \in Conf
  PROVE  /\ c.dim \in Dimension /\ c.compress \in BOOLEAN
         /\ \A a \in Axis : /\ Width(c.dim, a) \in Nat \ {0}
                            /\ 8 * BytesFor(Width(c.dim, a)) < Word
                            /\ BytesFor(Width(c.dim, a)) \in Nat /\ BytesFor(Width(c.dim, a)) >= 1
                            /\ Width(c.dim, a) <= 8 * BytesFor(Width(c.dim, a))
                            /\ 8 * BytesFor(Width(c.dim, a)) \in Nat
         /\ NumBitMats(c.dim) \in Nat \ {0}
<1>1. c.dim \in Dimension /\ c.compress \in BOOLEAN
  BY DEF Conf
<1>2. \A a \in Axis : Width(c.dim, a) \in {NumSubs, NumPreds, NumObjs}
  BY <1>1 DEF Dimension, Axis, Width
<1>3. NumBitMats(c.dim) \in {NumSubs, NumPreds, NumObjs}
  BY <1>1 DEF Dimension, NumBitMats
<1>4. \A n \in {NumSubs, NumPreds, NumObjs} : n \in Nat \ {0} /\ 8 * BytesFor(n) < Word
  BY SizesAssumption, WidthAssumption
<1>5. \A a \in Axis : Width(c.dim, a) \in Nat \ {0} /\ 8 * BytesFor(Width(c.dim, a)) < Word
  BY <1>2, <1>4
<1>6. \A a \in Axis : /\ BytesFor(Width(c.dim, a)) \in Nat /\ BytesFor(Width(c.dim, a)) >= 1
                      /\ Width(c.dim, a) <= 8 * BytesFor(Width(c.dim, a))
                      /\ 8 * BytesFor(Width(c.dim, a)) \in Nat
  BY <1>5, BytesOf
<1>. QED
  BY <1>1, <1>3, <1>4, <1>5, <1>6

\* The set of lines is finite, as the ids are.
LEMMA FileLinesAre ==
  ASSUME NEW s \in Stores, NEW c \in Conf
  PROVE  /\ LinesOf(s, c) \in SUBSET IdLine /\ LinesOf(s, c) # {} /\ IsFiniteSet(LinesOf(s, c))
         /\ WithinIds(LinesOf(s, c), c)
         /\ Fitting(LinesOf(s, c), RowBytes(c))
<1>. DEFINE L == LinesOf(s, c)
            P == (1 .. NumSubs) \X (1 .. NumPreds) \X (1 .. NumObjs)
            f == [tr \in s |-> Line(c.dim, tr)]
<1>1. c.dim \in Dimension
  BY Widths
<1>2. s # {} /\ s \subseteq P
  BY StoresAssumption
<1>3. NumSubs \in Nat \ {0} /\ NumPreds \in Nat \ {0} /\ NumObjs \in Nat \ {0}
  BY SizesAssumption
<1>4. ASSUME NEW tr \in s
      PROVE  LET l == Line(c.dim, tr)
             IN /\ l = [bm |-> l.bm, row |-> l.row, col |-> l.col]
                /\ l.bm \in 1 .. NumBitMats(c.dim)
                /\ l.row \in 1 .. Width(c.dim, "subfold") /\ l.col \in 1 .. Width(c.dim, "objfold")
  <2>1. tr[1] \in 1 .. NumSubs /\ tr[2] \in 1 .. NumPreds /\ tr[3] \in 1 .. NumObjs
    BY <1>2
  <2>2. CASE c.dim = "SPO"
    BY <2>1, <2>2 DEF Line, BitMatOf, CellOf, NumBitMats, Width
  <2>3. CASE c.dim = "OPS"
    BY <2>1, <2>3 DEF Line, BitMatOf, CellOf, NumBitMats, Width
  <2>4. CASE c.dim = "PSO"
    BY <2>1, <2>4 DEF Line, BitMatOf, CellOf, NumBitMats, Width
  <2>5. CASE c.dim = "POS"
    BY <2>1, <2>5 DEF Line, BitMatOf, CellOf, NumBitMats, Width
  <2>. QED
    BY <1>1, <2>2, <2>3, <2>4, <2>5 DEF Dimension
<1>5. WithinIds(L, c)
  BY <1>4 DEF LinesOf, WithinIds
<1>6. L \in SUBSET IdLine
  <2>1. ASSUME NEW l \in L PROVE l \in IdLine
    <3>1. l = [bm |-> l.bm, row |-> l.row, col |-> l.col]
      BY <1>4 DEF LinesOf
    <3>2. l.bm \in Id /\ l.row \in Id /\ l.col \in Id
      BY <1>5, Widths DEF WithinIds, Id, Axis
    <3>. QED
      BY <3>1, <3>2 DEF IdLine
  <2>. QED
    BY <2>1
<1>7. L # {}
  BY <1>2 DEF LinesOf
<1>8. IsFiniteSet(L)
  <2>1. IsFiniteSet(1 .. NumSubs) /\ IsFiniteSet(1 .. NumPreds) /\ IsFiniteSet(1 .. NumObjs)
    BY <1>3, FS_Interval
  <2>3. IsFiniteSet((1 .. NumSubs) \X (1 .. NumPreds))
    BY <2>1, FS_Product
  <2>4. IsFiniteSet(((1 .. NumSubs) \X (1 .. NumPreds)) \X (1 .. NumObjs))
    BY <2>1, <2>3, FS_Product
  <2>. DEFINE Q == ((1 .. NumSubs) \X (1 .. NumPreds)) \X (1 .. NumObjs)
              g == [q \in Q |-> <<q[1][1], q[1][2], q[2]>>]
  <2>5. g \in Surjection(Q, P)
    <3>1. g \in [Q -> P]
      OBVIOUS
    <3>2. \A p \in P : \E q \in Q : g[q] = p
      <4>1. TAKE p \in P
      <4>2. <<<<p[1], p[2]>>, p[3]>> \in Q /\ p = <<p[1], p[2], p[3]>>
        OBVIOUS
      <4>. QED
        BY <4>2
    <3>. QED
      BY <3>1, <3>2 DEF Surjection
  <2>6. IsFiniteSet(P)
    BY <2>4, <2>5, FS_Surjection
  <2>7. IsFiniteSet(s)
    BY <1>2, <2>6, FS_Subset
  <2>8. f \in Surjection(s, L)
    BY DEF Surjection, LinesOf
  <2>. QED
    BY <2>7, <2>8, FS_Surjection
<1>9. Fitting(L, RowBytes(c))
  <2>1. RowBytes(c) \in Nat /\ 8 * RowBytes(c) < Word /\ Width(c.dim, "objfold") <= 8 * RowBytes(c)
        /\ Width(c.dim, "objfold") \in Nat /\ 8 * RowBytes(c) \in Nat
    BY Widths DEF RowBytes, Axis
  <2>2. \A l \in L : l.col \in 1 .. Width(c.dim, "objfold")
    BY <1>5 DEF WithinIds
  <2>. QED
    BY <1>6, <2>1, <2>2 DEF Fitting
<1>. QED
  BY <1>5, <1>6, <1>7, <1>8, <1>9

\* The cells of a bitmat of the lines.
CellsIn(L, b) == {<<l.row, l.col>> : l \in {k \in L : k.bm = b}}

LEMMA CellsOfLines ==
  ASSUME NEW s \in Stores, NEW c \in Conf, NEW b
  PROVE  StoredCells(s, c.dim, b) = CellsIn(LinesOf(s, c), b)
<1>1. c.dim \in Dimension
  BY Widths
<1>2. \A tr \in s : /\ Line(c.dim, tr).bm = BitMatOf(c.dim, tr)
                    /\ <<Line(c.dim, tr).row, Line(c.dim, tr).col>> = CellOf(c.dim, tr)
  BY <1>1 DEF Line, CellOf, Dimension
<1>. QED
  BY <1>2 DEF StoredCells, CellsIn, LinesOf

\* The rows of a bitmat have its cells.
LEMMA RowsHaveCells ==
  ASSUME NEW rows, NEW L \in SUBSET IdLine, NEW b, NEW bytes, IsRows(rows, L, b, RowsIn(L, b), bytes)
  PROVE  Cells(rows) = CellsIn(L, b) /\ InOrder(rows)
<1>1. DOMAIN rows = 1 .. Len(rows) /\ rows \in Seq(MatRow)
  BY DEF IsRows
<1>2. \A k \in 1 .. Len(rows) : Bits(rows[k].data) = ColsIn(L, b, rows[k].rowid) /\ Loose(rows[k].data)
  BY RowIsCanonical DEF IsRows
<1>3. InOrder(rows)
  BY <1>1, <1>2 DEF IsRows, InOrder
<1>4. ASSUME NEW x \in Cells(rows) PROVE x \in CellsIn(L, b)
  <2>1. PICK k \in 1 .. Len(rows) : x \in {rows[k].rowid} \X Bits(rows[k].data)
    BY <1>1 DEF Cells
  <2>2. PICK col \in ColsIn(L, b, rows[k].rowid) : x = <<rows[k].rowid, col>>
    BY <1>2, <2>1
  <2>. QED
    BY <2>2 DEF ColsIn, CellsIn
<1>5. ASSUME NEW x \in CellsIn(L, b) PROVE x \in Cells(rows)
  <2>1. PICK l \in L : l.bm = b /\ x = <<l.row, l.col>>
    BY DEF CellsIn
  <2>2. l.row \in RowsIn(L, b) /\ l.col \in ColsIn(L, b, l.row)
    BY <2>1 DEF RowsIn, ColsIn
  <2>3. PICK k \in 1 .. Len(rows) : rows[k].rowid = l.row
    BY <2>2 DEF IsRows
  <2>4. l.col \in Bits(rows[k].data)
    BY <1>2, <2>2, <2>3
  <2>. QED
    BY <1>1, <2>1, <2>3, <2>4 DEF Cells
<1>. QED
  BY <1>3, <1>4, <1>5

----------------------------------------------------------------------------
(* The object fold, whose first bits go to the bitmat before.              *)

\* The first line of its bitmat, and one whose bit goes to an earlier bitmat.
IsFirst(L, l)  == \A k \in L : k.bm = l.bm => k = l \/ Before(l, k)
Strayed(L, l)  == IsFirst(L, l) /\ \E k \in L : k.bm < l.bm

\* What the fold has once the line is read.
FoldedTo(L, last) ==
  {l.col : l \in {k \in L : k.bm = last.bm /\ ~Before(last, k) /\ ~Strayed(L, k)}}

\* What it has when bitmat b is dumped.
FoldedFor(L, b) ==
  {l.col : l \in {k \in L : k.bm = b /\ ~Strayed(L, k)}}
  \cup {l.col : l \in {k \in L : IsFirst(L, k) /\ k.bm > b /\ \A j \in L : j.bm > b => j.bm >= k.bm}}

LEMMA LineOrder ==
  ASSUME NEW L \in SUBSET IdLine
  PROVE  /\ \A x, y \in L \cup {NoLine} : ~(Before(x, y) /\ Before(y, x)) /\ ~Before(x, x)
         /\ \A x, y \in L \cup {NoLine} : x = y \/ Before(x, y) \/ Before(y, x)
         /\ \A x, y, z \in L \cup {NoLine} : Before(x, y) /\ Before(y, z) => Before(x, z)
<1>1. L \cup {NoLine} \subseteq LineType
  BY LineTypes
<1>2. \A x, y, z \in L \cup {NoLine} : Before(x, y) /\ Before(y, z) => Before(x, z)
  BY <1>1, BeforeOrder, Zenon
<1>3. \A x, y \in L \cup {NoLine} : x = y \/ Before(x, y) \/ Before(y, x)
  BY <1>1, BeforeOrder, Zenon
<1>4. \A x \in L \cup {NoLine} : ~Before(x, x)
  BY <1>1, BeforeOrder, Zenon
<1>. QED
  BY <1>2, <1>3, <1>4, Zenon

LEMMA NothingFolded ==
  ASSUME NEW L \in SUBSET IdLine
  PROVE  FoldedTo(L, NoLine) = {}
<1>1. \A l \in L : l.bm # NoLine.bm
  BY LineTypes
<1>. QED
  BY <1>1 DEF FoldedTo

LEMMA FirstFolded ==
  ASSUME NEW L \in SUBSET IdLine, NEW next, Follows(L, NoLine, next)
  PROVE  FoldedTo(L, next) = {next.col}
<1>1. next \in L /\ \A l \in L : l = next \/ Before(next, l)
  BY LineTypes DEF Follows
<1>2. \A l \in L : l.bm \in Nat /\ ~(l.bm < next.bm)
  <2>1. TAKE l \in L
  <2>2. l.bm \in Nat /\ next.bm \in Nat
    BY <1>1, LineTypes
  <2>. QED
    BY <1>1, <2>2 DEF Before
<1>3. ~Strayed(L, next)
  BY <1>2 DEF Strayed
<1>4. {k \in L : k.bm = next.bm /\ ~Before(next, k) /\ ~Strayed(L, k)} = {next}
  BY <1>1, <1>3, LineOrder
<1>. QED
  BY <1>4 DEF FoldedTo

LEMMA MoreFolded ==
  ASSUME NEW L \in SUBSET IdLine, NEW last \in L, NEW next, Follows(L, last, next), next.bm = last.bm
  PROVE  FoldedTo(L, next) = FoldedTo(L, last) \cup {next.col}
<1>1. next \in L /\ Before(last, next) /\ \A l \in L : Before(last, l) => l = next \/ Before(next, l)
  BY DEF Follows
<1>2. ~IsFirst(L, next)
  BY <1>1, LineOrder DEF IsFirst
<1>3. \A k \in L : ~Before(next, k) <=> ~Before(last, k) \/ k = next
  BY <1>1, LineOrder
<1>4. {k \in L : k.bm = next.bm /\ ~Before(next, k) /\ ~Strayed(L, k)}
      = {k \in L : k.bm = last.bm /\ ~Before(last, k) /\ ~Strayed(L, k)} \cup {next}
  BY <1>1, <1>2, <1>3 DEF Strayed
<1>. QED
  BY <1>4 DEF FoldedTo

LEMMA StrayFolded ==
  ASSUME NEW L \in SUBSET IdLine, NEW last \in L, NEW next, Follows(L, last, next), next.bm # last.bm
  PROVE  /\ FoldedTo(L, next) = {}
         /\ FoldedFor(L, last.bm) = FoldedTo(L, last) \cup {next.col}
<1>1. next \in L /\ Before(last, next) /\ \A l \in L : Before(last, l) => l = next \/ Before(next, l)
  BY DEF Follows
<1>2. BitMatDone(L, last) /\ last.bm < next.bm
  BY <1>1, RowBegins
<1>3. \A l \in L : l.bm \in Nat
  BY LineTypes
<1>4. \A l \in L : l.bm = next.bm => Before(last, l)
  BY <1>1, <1>2, <1>3 DEF Before
<1>5. IsFirst(L, next) /\ Strayed(L, next)
  BY <1>1, <1>2, <1>4 DEF IsFirst, Strayed
<1>6. {k \in L : k.bm = next.bm /\ ~Before(next, k) /\ ~Strayed(L, k)} = {}
  BY <1>1, <1>4, <1>5
<1>7. {k \in L : k.bm = last.bm /\ ~Before(last, k) /\ ~Strayed(L, k)}
      = {k \in L : k.bm = last.bm /\ ~Strayed(L, k)}
  BY <1>2 DEF BitMatDone
<1>8. \A l \in L : l.bm > last.bm => l.bm >= next.bm
  <2>1. TAKE l \in L
  <2>2. HAVE l.bm > last.bm
  <2>3. Before(last, l)
    BY <1>3, <2>2 DEF Before
  <2>4. l = next \/ Before(next, l)
    BY <1>1, <2>3
  <2>. QED
    BY <1>1, <1>3, <2>4 DEF Before
<1>9. \A k \in L : IsFirst(L, k) /\ k.bm = next.bm => k = next
  BY <1>1, <1>5, LineOrder DEF IsFirst
<1>10. {k \in L : IsFirst(L, k) /\ k.bm > last.bm /\ \A j \in L : j.bm > last.bm => j.bm >= k.bm} = {next}
  <2>1. ASSUME NEW k \in L, IsFirst(L, k), k.bm > last.bm, \A j \in L : j.bm > last.bm => j.bm >= k.bm
        PROVE  k = next
    <3>1. k.bm >= next.bm /\ next.bm >= k.bm
      BY <1>1, <1>2, <1>3, <1>8, <2>1
    <3>2. k.bm = next.bm
      BY <1>1, <1>3, <3>1
    <3>. QED
      BY <1>9, <2>1, <3>2
  <2>2. next.bm > last.bm
    BY <1>1, <1>2, <1>3
  <2>. QED
    BY <1>1, <1>5, <1>8, <2>1, <2>2
<1>. QED
  BY <1>6, <1>7, <1>10 DEF FoldedTo, FoldedFor

LEMMA LastFolded ==
  ASSUME NEW L \in SUBSET IdLine, NEW last \in L, \A l \in L : ~Before(last, l)
  PROVE  FoldedFor(L, last.bm) = FoldedTo(L, last)
<1>1. \A l \in L : l.bm \in Nat /\ ~(l.bm > last.bm)
  <2>1. TAKE l \in L
  <2>2. l.bm \in Nat /\ last.bm \in Nat
    BY LineTypes
  <2>. QED
    BY <2>2 DEF Before
<1>2. {k \in L : IsFirst(L, k) /\ k.bm > last.bm /\ \A j \in L : j.bm > last.bm => j.bm >= k.bm} = {}
  BY <1>1
<1>3. {k \in L : k.bm = last.bm /\ ~Before(last, k) /\ ~Strayed(L, k)}
      = {k \in L : k.bm = last.bm /\ ~Strayed(L, k)}
  OBVIOUS
<1>. QED
  BY <1>2, <1>3 DEF FoldedTo, FoldedFor

\* Every bitmat has a first line.
LEMMA HasFirst ==
  ASSUME NEW L \in SUBSET IdLine, IsFiniteSet(L), NEW b \in {l.bm : l \in L}
  PROVE  \E l \in L : l.bm = b /\ IsFirst(L, l)
<1>. DEFINE B == {l \in L : l.bm = b}
            queue == Sorted(B)
<1>1. B # {} /\ B \in SUBSET IdLine /\ B \in SUBSET LineType
  BY LineTypes
<1>2. IsFiniteSet(B)
  BY FS_Subset
<1>3. \A l \in B : Before(NoLine, l)
  BY <1>1, LineTypes
<1>. HIDE DEF B
<1>4. IsQueue(B, queue, NoLine)
  BY <1>1, <1>2, <1>3, SortedIs
<1>5. queue # << >>
  <2>1. {queue[i] : i \in 1 .. Len(queue)} = B
    BY <1>3, <1>4 DEF IsQueue
  <2>2. queue = << >> => Len(queue) = 0
    BY <1>4 DEF IsQueue
  <2>. HIDE DEF queue
  <2>. QED
    BY <1>1, <2>1, <2>2
<1>. HIDE DEF queue
<1>6. queue[1] \in B /\ \A l \in B : l = queue[1] \/ Before(queue[1], l)
  BY <1>1, <1>3, <1>4, <1>5, NextLine
<1>. QED
  BY <1>6 DEF IsFirst, B

\* It is what Store says it is.
LEMMA FoldIsStored ==
  ASSUME NEW s \in Stores, NEW c \in Conf, NEW b \in {l.bm : l \in LinesOf(s, c)}
  PROVE  StoredObjfold(s, c.dim, b) = FoldedFor(LinesOf(s, c), b)
<1>. DEFINE L == LinesOf(s, c)
            present == {BitMatOf(c.dim, tr) : tr \in s}
            later == {x \in present : x > b}
            cells(x) == CellsIn(L, x)
            First(x) == FirstCell(cells(x))
<1>1. L \in SUBSET IdLine /\ IsFiniteSet(L)
  BY FileLinesAre
<1>2. present = {l.bm : l \in L}
  <2>1. \A tr \in s : Line(c.dim, tr).bm = BitMatOf(c.dim, tr)
    BY DEF Line
  <2>. QED
    BY <2>1 DEF LinesOf
<1>3. \A x : StoredCells(s, c.dim, x) = cells(x)
  BY CellsOfLines
<1>. HIDE DEF L, present
<1>4. \A l \in L : l.bm \in Nat /\ l.row \in Nat /\ l.col \in Nat
  BY <1>1, LineTypes
<1>5. \A l \in L : IsFirst(L, l) => First(l.bm) = <<l.row, l.col>>
  <2>1. TAKE l \in L
  <2>2. HAVE IsFirst(L, l)
  <2>. DEFINE Is(p) == \A d \in cells(l.bm) : p[1] < d[1] \/ (p[1] = d[1] /\ p[2] <= d[2])
  <2>3. <<l.row, l.col>> \in cells(l.bm)
    BY DEF CellsIn
  <2>4. Is(<<l.row, l.col>>)
    <3>1. TAKE d \in cells(l.bm)
    <3>2. PICK k \in L : k.bm = l.bm /\ d = <<k.row, k.col>>
      BY DEF CellsIn
    <3>3. k = l \/ Before(l, k)
      BY <2>2, <3>2 DEF IsFirst
    <3>. QED
      BY <1>4, <3>2, <3>3 DEF Before
  <2>5. \A p \in cells(l.bm) : Is(p) => p = <<l.row, l.col>>
    <3>1. TAKE p \in cells(l.bm)
    <3>2. HAVE Is(p)
    <3>3. PICK k \in L : k.bm = l.bm /\ p = <<k.row, k.col>>
      BY DEF CellsIn
    <3>4. p[1] < l.row \/ (p[1] = l.row /\ p[2] <= l.col)
      BY <2>3, <3>2
    <3>5. l.row < p[1] \/ (l.row = p[1] /\ l.col <= p[2])
      BY <2>4, <3>3
    <3>6. k.row = l.row /\ k.col = l.col
      BY <1>4, <3>3, <3>4, <3>5
    <3>. QED
      BY <3>3, <3>6
  <2>. HIDE DEF Is
  <2>6. First(l.bm) = CHOOSE p \in cells(l.bm) : Is(p)
    BY DEF FirstCell, Is
  <2>. QED
    BY <2>3, <2>4, <2>5, <2>6
<1>6. \A l \in L : l.bm = b => ((\E x \in present : x < b) /\ <<l.row, l.col>> = First(b) <=> Strayed(L, l))
  <2>1. PICK f \in L : f.bm = b /\ IsFirst(L, f)
    BY <1>1, HasFirst DEF L
  <2>2. First(b) = <<f.row, f.col>>
    BY <1>5, <2>1
  <2>3. TAKE l \in L
  <2>4. HAVE l.bm = b
  <2>5. <<l.row, l.col>> = First(b) <=> l = f
    <3>1. l \in IdLine /\ f \in IdLine
      BY <1>1
    <3>2. l.bm = f.bm /\ l.row = f.row /\ l.col = f.col => l = f
      BY <3>1 DEF IdLine
    <3>. QED
      BY <2>1, <2>2, <2>4, <3>2
  <2>6. IsFirst(L, l) <=> l = f
    BY <1>1, <2>1, <2>4, LineOrder DEF IsFirst
  <2>. QED
    BY <1>2, <2>4, <2>5, <2>6 DEF Strayed
<1>. DEFINE own == IF \E x \in present : x < b THEN cells(b) \ {First(b)} ELSE cells(b)
            next == IF later = {} THEN {} ELSE {First(Min(later))}
            ownLines == {k \in L : k.bm = b /\ ~Strayed(L, k)}
            nextLines == {k \in L : IsFirst(L, k) /\ k.bm > b /\ \A j \in L : j.bm > b => j.bm >= k.bm}
<1>7. StoredObjfold(s, c.dim, b) = {p[2] : p \in own \cup next}
  <2>. DEFINE stored(x) == StoredCells(s, c.dim, x)
              own0 == IF \E x \in present : x < b THEN stored(b) \ {FirstCell(stored(b))} ELSE stored(b)
              next0 == IF later = {} THEN {} ELSE {FirstCell(stored(Min(later)))}
  <2>0. StoredObjfold(s, c.dim, b) = SimpleFold(own0 \cup next0, "objfold")
    BY DEF StoredObjfold, present
  <2>. HIDE DEF cells, stored, later
  <2>3. \A x : stored(x) = cells(x)
    BY <1>3 DEF stored
  <2>4. stored(b) = cells(b) /\ stored(Min(later)) = cells(Min(later))
    BY <2>3
  <2>5. own0 = own /\ next0 = next
    BY <2>4
  <2>1. StoredObjfold(s, c.dim, b) = SimpleFold(own \cup next, "objfold")
    BY <2>0, <2>5
  <2>. HIDE DEF own, next
  <2>2. SimpleFold(own \cup next, "objfold") = {p[2] : p \in own \cup next}
    BY DEF SimpleFold, Coord
  <2>. QED
    BY <2>1, <2>2
<1>8. own = {<<l.row, l.col>> : l \in ownLines}
  <2>1. cells(b) = {<<l.row, l.col>> : l \in {k \in L : k.bm = b}}
    BY DEF CellsIn
  <2>. HIDE DEF First, cells
  <2>. QED
    BY <1>6, <2>1
<1>9. next = {<<l.row, l.col>> : l \in nextLines}
  <2>1. CASE later = {}
    <3>1. nextLines = {}
      BY <1>2, <2>1
    <3>. QED
      BY <2>1, <3>1
  <2>2. CASE later # {}
    <3>. DEFINE m == Min(later)
    <3>1. later \in SUBSET Nat
      BY <1>2, <1>4
    <3>2. m \in later /\ \A y \in later : m <= y
      <4>. HIDE DEF later
      <4>1. \E x \in later : \A y \in later : x <= y
        BY <2>2, <3>1, Least
      <4>. QED
        BY <4>1 DEF Min
    <3>. HIDE DEF m
    <3>3. PICK f \in L : f.bm = m /\ IsFirst(L, f)
      BY <1>1, <1>2, <3>2, HasFirst
    <3>4. nextLines = {f}
      <4>1. \A j \in L : j.bm > b => j.bm >= m
        BY <1>2, <3>1, <3>2
      <4>2. m > b /\ m \in Nat
        BY <3>1, <3>2
      <4>3. ASSUME NEW k \in L, IsFirst(L, k), k.bm > b, \A j \in L : j.bm > b => j.bm >= k.bm
            PROVE  k = f
        <5>1. k.bm >= m /\ m >= k.bm
          BY <3>3, <4>1, <4>2, <4>3
        <5>2. k.bm = m
          BY <1>4, <4>2, <5>1
        <5>. QED
          BY <1>1, <3>3, <4>3, <5>2, LineOrder DEF IsFirst
      <4>. QED
        BY <3>3, <4>1, <4>2, <4>3
    <3>5. First(m) = <<f.row, f.col>>
      BY <1>5, <3>3
    <3>. HIDE DEF First, nextLines
    <3>. QED
      BY <2>2, <3>4, <3>5 DEF m
  <2>. QED
    BY <2>1, <2>2
<1>10. FoldedFor(L, b) = {l.col : l \in ownLines} \cup {l.col : l \in nextLines}
  BY DEF FoldedFor
<1>. HIDE DEF own, next, ownLines, nextLines
<1>11. {p[2] : p \in own \cup next} = {l.col : l \in ownLines} \cup {l.col : l \in nextLines}
  <2>1. \A l : <<l.row, l.col>>[2] = l.col
    OBVIOUS
  <2>2. {p[2] : p \in {<<l.row, l.col>> : l \in ownLines}} = {l.col : l \in ownLines}
    BY <2>1
  <2>3. {p[2] : p \in {<<l.row, l.col>> : l \in nextLines}} = {l.col : l \in nextLines}
    BY <2>1
  <2>4. {p[2] : p \in own \cup next} = {p[2] : p \in own} \cup {p[2] : p \in next}
    OBVIOUS
  <2>. QED
    BY <1>8, <1>9, <2>2, <2>3, <2>4
<1>. QED
  BY <1>7, <1>10, <1>11 DEF L

----------------------------------------------------------------------------
(* The record of a bitmat.                                                 *)

\* How many fields come before the rows, after the number of triples.
Heads(c) == IF IsPredicates(c) THEN 1 ELSE 2

\* The fields of bitmat b are there after the first i.
HasRecord(s, c, fields, i, b) ==
  LET L   == LinesOf(s, c)
      ids == RowsIn(L, b)
  IN /\ i \in Nat /\ i + 1 + Heads(c) + Cardinality(ids) <= Len(fields)
     /\ fields[i + 1].value = Cardinality(CellsIn(L, b))
     /\ (IF IsCoded(c) THEN Bits(fields[i + 2].value) ELSE fields[i + 2].value) = ids
     /\ ~IsPredicates(c) =>
          (IF c.compress THEN Bits(fields[i + 3].value) ELSE fields[i + 3].value) = FoldedFor(L, b)
     /\ \A k \in 1 .. Cardinality(ids) :
          IsRow(fields[i + 1 + Heads(c) + k].value, ColsIn(L, b, Ascending(ids)[k]), 8 * RowBytes(c))

IsCodedField(c, f) ==
  f.coded => \E ids : IsRow(f.value, ids, 8 * RowBytes(c)) \/ IsRow(f.value, ids, 8 * FoldBytes(c))

IsFields(c, fields) == fields \in Seq(Field) /\ \A i \in 1 .. Len(fields) : IsCodedField(c, fields[i])

LEMMA PlainField ==
  ASSUME NEW c, NEW value \in Nat \cup SUBSET Nat, NEW bytes \in Nat, bytes >= 1
  PROVE  Plain(value, bytes) \in Field /\ IsCodedField(c, Plain(value, bytes))
BY DEF Plain, Field, IsCodedField

LEMMA CodedField ==
  ASSUME NEW c, NEW row, NEW ids,
         IsRow(row, ids, 8 * RowBytes(c)) \/ IsRow(row, ids, 8 * FoldBytes(c))
  PROVE  Coded(row) \in Field /\ IsCodedField(c, Coded(row)) /\ Coded(row).value = row
<1>1. row \in Row
  BY DEF IsRow, Straight
<1>2. Len(row.runs) \in Nat
  BY <1>1, RowTypes
<1>3. StoredSize(row) \in Nat /\ StoredSize(row) >= 1
  BY <1>2 DEF StoredSize, SizeOf, RowSizeBytes, GapSizeBytes
<1>. QED
  BY <1>1, <1>3 DEF Coded, Field, IsCodedField

\* The fields h are f and then g.
IsJoin(c, f, g, h) ==
  /\ IsFields(c, h) /\ Len(h) = Len(f) + Len(g)
  /\ \A i \in 1 .. Len(f) : h[i] = f[i]
  /\ \A i \in 1 .. Len(g) : h[Len(f) + i] = g[i]
  /\ Len(f) \in Nat /\ Len(g) \in Nat

LEMMA FieldsJoin ==
  ASSUME NEW c, NEW f, NEW g, IsFields(c, f), IsFields(c, g)
  PROVE  IsJoin(c, f, g, f \o g)
<1>. DEFINE h == f \o g
<1>1. f \in Seq(Field) /\ g \in Seq(Field) /\ Len(f) \in Nat /\ Len(g) \in Nat
  BY DEF IsFields
<1>2. h \in Seq(Field) /\ Len(h) = Len(f) + Len(g)
      /\ (\A i \in 1 .. Len(f) : h[i] = f[i]) /\ \A i \in 1 .. Len(g) : h[Len(f) + i] = g[i]
  BY <1>1
<1>. HIDE DEF h
<1>3. ASSUME NEW i \in 1 .. Len(h) PROVE IsCodedField(c, h[i])
  <2>1. CASE i <= Len(f)
    BY <1>1, <1>2, <2>1 DEF IsFields
  <2>2. CASE ~(i <= Len(f))
    <3>1. i - Len(f) \in 1 .. Len(g) /\ Len(f) + (i - Len(f)) = i
      BY <1>1, <1>2, <2>2
    <3>2. h[i] = g[i - Len(f)]
      BY <1>2, <3>1
    <3>. QED
      BY <3>1, <3>2 DEF IsFields
  <2>. QED
    BY <2>1, <2>2
<1>. QED
  BY <1>1, <1>2, <1>3 DEF IsFields, IsJoin, h

LEMMA OneField ==
  ASSUME NEW c, NEW f \in Field, IsCodedField(c, f)
  PROVE  IsFields(c, <<f>>) /\ Len(<<f>>) = 1 /\ <<f>>[1] = f
BY DEF IsFields

LEMMA NoField ==
  ASSUME NEW c PROVE IsFields(c, << >>) /\ Len(<< >>) = 0
BY DEF IsFields

\* What is there stays there.
LEMMA RecordStays ==
  ASSUME NEW s, NEW c, NEW f, NEW g, IsFields(c, f), IsFields(c, g), NEW i, NEW b, HasRecord(s, c, f, i, b),
         IsFiniteSet(RowsIn(LinesOf(s, c), b))
  PROVE  HasRecord(s, c, f \o g, i, b)
<1>. DEFINE h == f \o g
            n == Cardinality(RowsIn(LinesOf(s, c), b))
<1>1. Len(f) \in Nat /\ Len(g) \in Nat /\ Len(h) = Len(f) + Len(g) /\ \A j \in 1 .. Len(f) : h[j] = f[j]
  BY FieldsJoin DEF IsJoin
<1>. HIDE DEF h
<1>2. n \in Nat
  BY FS_CardinalityType
<1>3. i \in Nat /\ i + 1 + Heads(c) + n <= Len(f) /\ Heads(c) \in 1 .. 2 /\ (~IsPredicates(c) => Heads(c) = 2)
  BY DEF HasRecord, Heads
<1>. HIDE DEF n
<1>4. i + 1 \in 1 .. Len(f) /\ i + 2 \in 1 .. Len(f) /\ (~IsPredicates(c) => i + 3 \in 1 .. Len(f))
      /\ i + 1 + Heads(c) + n <= Len(h)
      /\ \A k \in 1 .. n : i + 1 + Heads(c) + k \in 1 .. Len(f)
  BY <1>1, <1>2, <1>3
<1>5. h[i + 1] = f[i + 1] /\ h[i + 2] = f[i + 2] /\ (~IsPredicates(c) => h[i + 3] = f[i + 3])
      /\ \A k \in 1 .. n : h[i + 1 + Heads(c) + k] = f[i + 1 + Heads(c) + k]
  BY <1>1, <1>4
<1>. QED
  BY <1>3, <1>4, <1>5 DEF HasRecord, n, h

\* The rows of a bitmat are in the order of their ids.
LEMMA RowsAscend ==
  ASSUME NEW rows, NEW L, NEW b, NEW R \in SUBSET Int, NEW bytes, IsRows(rows, L, b, R, bytes)
  PROVE  /\ IsFiniteSet(R) /\ Cardinality(R) = Len(rows)
         /\ Ascending(R) = [k \in 1 .. Len(rows) |-> rows[k].rowid]
<1>. DEFINE n == Len(rows)
            e == [k \in 1 .. n |-> rows[k].rowid]
<1>1. n \in Nat
  BY DEF IsRows
<1>. HIDE DEF n
<1>2. e \in [1 .. n -> R] /\ (\A i, j \in 1 .. n : i < j => e[i] < e[j]) /\ \A x \in R : \E i \in 1 .. n : e[i] = x
  BY DEF IsRows, n
<1>. HIDE DEF e
<1>3. IsFiniteSet(R) /\ Cardinality(R) = n /\ Ascending(R) = e
  BY <1>1, <1>2, AscendingUnique
<1>. QED
  BY <1>3 DEF e, n

LEMMA ConfIs ==
  /\ Predicates = IsPredicates(conf) /\ Compressed = IsCoded(conf)
  /\ ObjectBytes = RowBytes(conf) /\ SubjectBytes = FoldBytes(conf)
BY DEF Predicates, IsPredicates, Compressed, IsCoded, ObjectBytes, RowBytes, SubjectBytes, FoldBytes

LEMMA RecordIs ==
  ASSUME store \in Stores, conf \in Conf, NEW b \in {l.bm : l \in LinesOf(store, conf)},
         NEW rows, IsRows(rows, LinesOf(store, conf), b, RowsIn(LinesOf(store, conf), b), RowBytes(conf)),
         NEW sub, NEW last, NEW bit, IsFold(RowsIn(LinesOf(store, conf), b), sub, bit, IsCoded(conf)),
         IsCoded(conf) => bit = last,
         NEW obj, ~IsPredicates(conf) => obj = FoldedFor(LinesOf(store, conf), b)
  PROVE  LET rec == Record(rows, sub, last, obj)
         IN /\ IsFields(conf, rec) /\ Len(rec) >= 1
            /\ \A f : IsFields(conf, f) => HasRecord(store, conf, f \o rec, Len(f), b)
<1>. DEFINE L == LinesOf(store, conf)
            ids == RowsIn(L, b)
            n == Len(rows)
            first == Plain(CountTriples(rows), 4)
            second == IF Compressed THEN Coded(Padded(sub, last)) ELSE Plain(sub, SubjectBytes)
            third == IF conf.compress THEN Coded(Compress(obj, 8 * ObjectBytes)) ELSE Plain(obj, ObjectBytes)
            A == <<first>> \o <<second>>
            O == IF Predicates THEN << >> ELSE <<third>>
            R == [i \in DOMAIN rows |-> Coded(rows[i].data)]
            rec == Record(rows, sub, last, obj)
<1>1. L \in SUBSET IdLine /\ WithinIds(L, conf) /\ IsFiniteSet(L)
  BY FileLinesAre
<1>2. /\ FoldBytes(conf) \in Nat /\ FoldBytes(conf) >= 1 /\ RowBytes(conf) \in Nat /\ RowBytes(conf) >= 1
      /\ Width(conf.dim, "subfold") <= 8 * FoldBytes(conf) /\ Width(conf.dim, "objfold") <= 8 * RowBytes(conf)
      /\ Width(conf.dim, "subfold") \in Nat /\ Width(conf.dim, "objfold") \in Nat
      /\ 8 * FoldBytes(conf) < Word /\ 8 * RowBytes(conf) < Word
      /\ 8 * FoldBytes(conf) \in Nat /\ 8 * RowBytes(conf) \in Nat
      /\ conf.compress \in BOOLEAN
  BY Widths DEF FoldBytes, RowBytes, Axis
<1>3. ids \subseteq 1 .. Width(conf.dim, "subfold") /\ ids # {} /\ ids \in SUBSET Nat /\ ids \in SUBSET Int
  BY <1>1, <1>2 DEF RowsIn, WithinIds
<1>4. IsFiniteSet(ids) /\ Cardinality(ids) = n /\ Ascending(ids) = [k \in 1 .. n |-> rows[k].rowid]
  BY <1>3, RowsAscend
<1>5. n \in Nat /\ DOMAIN rows = 1 .. n /\ rows \in Seq(MatRow)
  BY DEF IsRows
<1>6. IsFields(conf, <<first>>) /\ first.value = Cardinality(CellsIn(L, b))
  <2>1. Cells(rows) = CellsIn(L, b) /\ InOrder(rows)
    BY <1>1, RowsHaveCells
  <2>2. CountTriples(rows) = Cardinality(CellsIn(L, b)) /\ CountTriples(rows) \in Nat
    BY <2>1, CountIsCells, FS_CardinalityType
  <2>3. first \in Field /\ IsCodedField(conf, first)
    BY <2>2, PlainField
  <2>4. first.value = CountTriples(rows)
    BY DEF Plain
  <2>. QED
    BY <2>2, <2>3, <2>4, OneField
<1>7. IsFields(conf, <<second>>) /\ (IF IsCoded(conf) THEN Bits(second.value) ELSE second.value) = ids
  <2>1. CASE IsCoded(conf)
    <3>1. last \in ids /\ IsRow(sub, ids, last)
      BY <1>3, <2>1 DEF IsFold
    <3>2. last <= 8 * FoldBytes(conf)
      BY <1>2, <1>3, <3>1
    <3>3. IsRow(Padded(sub, last), ids, 8 * FoldBytes(conf))
      BY <1>2, <3>1, <3>2, PaddedIs, ConfIs DEF Padded
    <3>4. Coded(Padded(sub, last)) \in Field /\ IsCodedField(conf, Coded(Padded(sub, last)))
          /\ Coded(Padded(sub, last)).value = Padded(sub, last)
      BY <3>3, CodedField
    <3>5. Bits(Padded(sub, last)) = ids
      BY <3>3, BitsOfRow
    <3>6. second = Coded(Padded(sub, last))
      BY <2>1, ConfIs
    <3>. HIDE DEF second
    <3>. QED
      BY <2>1, <3>4, <3>5, <3>6, OneField
  <2>2. CASE ~IsCoded(conf)
    <3>1. sub = ids
      BY <2>2 DEF IsFold
    <3>2. second = Plain(sub, FoldBytes(conf))
      BY <2>2, ConfIs
    <3>3. second \in Field /\ IsCodedField(conf, second) /\ second.value = ids
      <4>1. sub \in Nat \cup SUBSET Nat
        BY <1>3, <3>1
      <4>2. Plain(sub, FoldBytes(conf)) \in Field /\ IsCodedField(conf, Plain(sub, FoldBytes(conf)))
        BY <1>2, <4>1, PlainField
      <4>3. Plain(sub, FoldBytes(conf)).value = sub
        BY DEF Plain
      <4>. HIDE DEF second
      <4>. QED
        BY <3>1, <3>2, <4>2, <4>3
    <3>. QED
      BY <2>2, <3>3, OneField
  <2>. QED
    BY <2>1, <2>2
<1>8. ~IsPredicates(conf) =>
        IsFields(conf, <<third>>) /\ (IF conf.compress THEN Bits(third.value) ELSE third.value) = FoldedFor(L, b)
  <2>1. HAVE ~IsPredicates(conf)
  <2>2. obj = FoldedFor(L, b) /\ obj \subseteq 1 .. Width(conf.dim, "objfold") /\ obj \in SUBSET Nat
        /\ obj \in SUBSET (1 .. 8 * RowBytes(conf))
    BY <1>1, <1>2, <2>1 DEF FoldedFor, WithinIds
  <2>3. CASE conf.compress
    <3>1. 8 * RowBytes(conf) \in Nat \ {0}
      BY <1>2
    <3>2. IsRow(Compress(obj, 8 * RowBytes(conf)), obj, 8 * RowBytes(conf))
      BY <1>2, <2>2, <3>1, HasRow
    <3>3. Coded(Compress(obj, 8 * RowBytes(conf))) \in Field
          /\ IsCodedField(conf, Coded(Compress(obj, 8 * RowBytes(conf))))
          /\ Coded(Compress(obj, 8 * RowBytes(conf))).value = Compress(obj, 8 * RowBytes(conf))
      BY <3>2, CodedField
    <3>4. Bits(Compress(obj, 8 * RowBytes(conf))) = obj
      BY <3>2, BitsOfRow
    <3>5. third = Coded(Compress(obj, 8 * RowBytes(conf)))
      BY <2>3, ConfIs
    <3>. HIDE DEF third
    <3>. QED
      BY <2>2, <2>3, <3>3, <3>4, <3>5, OneField
  <2>4. CASE ~conf.compress
    <3>1. third = Plain(obj, RowBytes(conf))
      BY <2>4, ConfIs
    <3>2. third \in Field /\ IsCodedField(conf, third) /\ third.value = obj
      <4>1. obj \in Nat \cup SUBSET Nat
        BY <2>2
      <4>2. Plain(obj, RowBytes(conf)) \in Field /\ IsCodedField(conf, Plain(obj, RowBytes(conf)))
        BY <1>2, <4>1, PlainField
      <4>3. Plain(obj, RowBytes(conf)).value = obj
        BY DEF Plain
      <4>. HIDE DEF third
      <4>. QED
        BY <3>1, <4>2, <4>3
    <3>. QED
      BY <2>2, <2>4, <3>2, OneField
  <2>. QED
    BY <2>3, <2>4
<1>9. IsFields(conf, R) /\ Len(R) = n
      /\ \A k \in 1 .. n : R[k].value = rows[k].data /\ IsRow(rows[k].data, ColsIn(L, b, rows[k].rowid), 8 * RowBytes(conf))
  <2>1. \A k \in 1 .. n : IsRow(rows[k].data, ColsIn(L, b, rows[k].rowid), 8 * RowBytes(conf))
    BY DEF IsRows
  <2>2. \A k \in 1 .. n : Coded(rows[k].data) \in Field /\ IsCodedField(conf, Coded(rows[k].data))
                          /\ Coded(rows[k].data).value = rows[k].data
    BY <2>1, CodedField
  <2>3. R \in Seq(Field) /\ Len(R) = n /\ \A k \in 1 .. n : R[k] = Coded(rows[k].data)
    <3>. HIDE DEF n
    <3>. QED
      BY <1>5, <2>2
  <2>. HIDE DEF R, n
  <2>. QED
    BY <2>1, <2>2, <2>3 DEF IsFields
<1>. HIDE DEF first, second, third, R, n
<1>10. IsFields(conf, A) /\ Len(A) = 2 /\ A[1] = first /\ A[2] = second
  <2>1. Len(<<first>>) = 1 /\ <<first>>[1] = first /\ Len(<<second>>) = 1 /\ <<second>>[1] = second
    OBVIOUS
  <2>2. 1 \in 1 .. Len(<<first>>) /\ 1 \in 1 .. Len(<<second>>)
    BY <2>1
  <2>3. Len(A) = Len(<<first>>) + Len(<<second>>) /\ A[1] = <<first>>[1] /\ A[Len(<<first>>) + 1] = <<second>>[1]
        /\ IsFields(conf, A)
    BY <1>6, <1>7, <2>2, FieldsJoin DEF IsJoin
  <2>. HIDE DEF A
  <2>. QED
    BY <2>1, <2>3
<1>11. IsFields(conf, O) /\ Len(O) = Heads(conf) - 1 /\ (~IsPredicates(conf) => O[1] = third)
  <2>1. CASE IsPredicates(conf)
    BY <2>1, ConfIs, NoField DEF Heads
  <2>2. CASE ~IsPredicates(conf)
    BY <1>8, <2>2, ConfIs DEF Heads
  <2>. QED
    BY <2>1, <2>2
<1>12. rec = (A \o O) \o R
  <2>1. rec = (A \o (IF Predicates THEN << >>
                     ELSE IF conf.compress THEN <<Coded(Compress(obj, 8 * ObjectBytes))>>
                     ELSE <<Plain(obj, ObjectBytes)>>)) \o R
    BY DEF Record, first, second, R
  <2>2. O = (IF Predicates THEN << >>
             ELSE IF conf.compress THEN <<Coded(Compress(obj, 8 * ObjectBytes))>>
             ELSE <<Plain(obj, ObjectBytes)>>)
    BY DEF third
  <2>. QED
    BY <2>1, <2>2
<1>. HIDE DEF A, O, rec
<1>. DEFINE B == A \o O
            h == Heads(conf)
<1>13. h \in 1 .. 2 /\ (~IsPredicates(conf) => h = 2)
  BY DEF Heads
<1>14. IsFields(conf, B) /\ Len(B) = 1 + h /\ B[1] = first /\ B[2] = second /\ (~IsPredicates(conf) => B[3] = third)
  <2>1. /\ IsFields(conf, B) /\ Len(B) = Len(A) + Len(O) /\ (\A i \in 1 .. Len(A) : B[i] = A[i])
        /\ \A i \in 1 .. Len(O) : B[Len(A) + i] = O[i]
    <3>1. IsJoin(conf, A, O, B)
      BY <1>10, <1>11, FieldsJoin
    <3>. QED
      BY <3>1 DEF IsJoin
  <2>. HIDE DEF B, h
  <2>2. Len(B) = 1 + h
    BY <1>10, <1>11, <1>13, <2>1 DEF h
  <2>3. B[1] = first /\ B[2] = second
    BY <1>10, <2>1
  <2>4. ~IsPredicates(conf) => B[3] = third
    BY <1>10, <1>11, <1>13, <2>1 DEF h
  <2>. QED
    BY <2>1, <2>2, <2>3, <2>4
<1>. HIDE DEF B, h
<1>15. /\ IsFields(conf, rec) /\ Len(rec) = 1 + h + n
       /\ rec[1] = first /\ rec[2] = second /\ (~IsPredicates(conf) => rec[3] = third)
       /\ \A k \in 1 .. n : rec[1 + h + k] = R[k]
  <2>1. rec = B \o R
    BY <1>12 DEF B
  <2>2. /\ IsFields(conf, rec) /\ Len(rec) = Len(B) + Len(R) /\ (\A i \in 1 .. Len(B) : rec[i] = B[i])
        /\ \A i \in 1 .. Len(R) : rec[Len(B) + i] = R[i]
    <3>1. IsJoin(conf, B, R, B \o R)
      BY <1>9, <1>14, FieldsJoin
    <3>. QED
      BY <2>1, <3>1 DEF IsJoin
  <2>3. 1 \in 1 .. Len(B) /\ 2 \in 1 .. Len(B) /\ (~IsPredicates(conf) => 3 \in 1 .. Len(B))
    BY <1>13, <1>14
  <2>4. rec[1] = first /\ rec[2] = second /\ (~IsPredicates(conf) => rec[3] = third)
    BY <1>14, <2>2, <2>3
  <2>5. Len(rec) = 1 + h + n /\ \A k \in 1 .. n : rec[1 + h + k] = R[k]
    BY <1>9, <1>14, <2>2
  <2>. QED
    BY <2>2, <2>4, <2>5
<1>16. ASSUME NEW f, IsFields(conf, f) PROVE HasRecord(store, conf, f \o rec, Len(f), b)
  <2>. DEFINE g == f \o rec
              m == Len(f)
  <2>1. m \in Nat /\ Len(g) = m + Len(rec) /\ \A i \in 1 .. Len(rec) : g[m + i] = rec[i]
    <3>1. IsJoin(conf, f, rec, g)
      BY <1>15, <1>16, FieldsJoin
    <3>. QED
      BY <3>1 DEF IsJoin
  <2>. HIDE DEF g, m
  <2>2. /\ 1 \in 1 .. Len(rec) /\ 2 \in 1 .. Len(rec) /\ (~IsPredicates(conf) => 3 \in 1 .. Len(rec))
        /\ \A k \in 1 .. n : 1 + h + k \in 1 .. Len(rec) /\ m + (1 + h + k) = m + 1 + h + k
    BY <1>5, <1>13, <1>15, <2>1 DEF n
  <2>3. /\ m + 1 + h + n <= Len(g)
        /\ g[m + 1] = first /\ g[m + 2] = second /\ (~IsPredicates(conf) => g[m + 3] = third)
    BY <1>5, <1>13, <1>15, <2>1, <2>2 DEF n
  <2>4. \A k \in 1 .. n : g[m + 1 + h + k] = R[k]
    BY <1>15, <2>1, <2>2
  <2>5. \A k \in 1 .. n : IsRow(g[m + 1 + h + k].value, ColsIn(L, b, Ascending(ids)[k]), 8 * RowBytes(conf))
    <3>. HIDE DEF L, ids
    <3>. QED
      BY <1>4, <1>9, <2>4
  <2>. QED
    BY <1>4, <1>6, <1>7, <1>8, <2>1, <2>3, <2>5 DEF HasRecord, g, m, h
<1>17. Len(rec) >= 1
  BY <1>5, <1>13, <1>15 DEF n
<1>. QED
  BY <1>15, <1>16, <1>17 DEF rec

----------------------------------------------------------------------------
(* The file and the table.                                                 *)

\* The bitmats D are in the fields f, at the offsets of the table t.
IsFile(s, c, f, t, D) ==
  /\ IsFields(c, f)
  /\ t \in [1 .. NumBitMats(c.dim) -> Nat]
  /\ D = {} => f = << >>
  /\ \A b \in 1 .. NumBitMats(c.dim) : b \notin D => t[b] = 0
  /\ \A b \in D : \E i \in 0 .. Len(f) : Offsets(f)[i] = t[b] /\ HasRecord(s, c, f, i, b)
  /\ \A b \in D : (\A x \in D : b <= x) => t[b] = 0

LEMMA FileBegins ==
  ASSUME NEW s, NEW c
  PROVE  IsFile(s, c, << >>, [b \in 1 .. NumBitMats(c.dim) |-> 0], {})
BY NoField DEF IsFile

LEMMA FiniteRows ==
  ASSUME NEW s \in Stores, NEW c \in Conf, NEW b
  PROVE  IsFiniteSet(RowsIn(LinesOf(s, c), b)) /\ RowsIn(LinesOf(s, c), b) \in SUBSET (1 .. Width(c.dim, "subfold"))
<1>1. RowsIn(LinesOf(s, c), b) \in SUBSET (1 .. Width(c.dim, "subfold"))
  BY FileLinesAre DEF RowsIn, WithinIds
<1>2. Width(c.dim, "subfold") \in Nat
  BY Widths DEF Axis
<1>3. IsFiniteSet(1 .. Width(c.dim, "subfold"))
  BY <1>2, FS_Interval
<1>. QED
  BY <1>1, <1>3, FS_Subset

\* A bitmat is dumped after those before it.
LEMMA FileGoesOn ==
  ASSUME NEW s \in Stores, NEW c \in Conf, NEW f, NEW t, 
         NEW D \in SUBSET (1 .. NumBitMats(c.dim)), IsFile(s, c, f, t, D),
         NEW b \in 1 .. NumBitMats(c.dim), \A x \in D : x < b,
         NEW rec, IsFields(c, rec), HasRecord(s, c, f \o rec, Len(f), b)
  PROVE  /\ IsFile(s, c, f \o rec, [t EXCEPT ![b] = Offsets(f)[Len(f)]], D \cup {b})
         /\ Offsets(f)[Len(f)] <= Offsets(f \o rec)[Len(f \o rec)]
         /\ Offsets(f)[Len(f)] \in Nat /\ Offsets(f \o rec)[Len(f \o rec)] \in Nat
<1>. DEFINE h == f \o rec
            size == Offsets(f)[Len(f)]
            u == [t EXCEPT ![b] = size]
<1>1. IsFields(c, f) /\ t \in [1 .. NumBitMats(c.dim) -> Nat]
  BY DEF IsFile
<1>2. IsJoin(c, f, rec, h)
  BY <1>1, FieldsJoin
<1>3. IsFields(c, h) /\ Len(h) = Len(f) + Len(rec) /\ Len(f) \in Nat /\ Len(rec) \in Nat
  BY <1>2 DEF IsJoin
<1>4. f \in Seq(Field) /\ rec \in Seq(Field) /\ h \in Seq(Field)
  BY <1>1, <1>3 DEF IsFields
<1>5. \A i \in 0 .. Len(f) : Offsets(h)[i] = Offsets(f)[i]
  BY <1>4, OffsetsStay
<1>. HIDE DEF h
<1>6. (\A i \in 0 .. Len(f) : Offsets(f)[i] \in Nat) /\ Offsets(f)[0] = 0
  BY <1>4, OffsetsAre
<1>7. (\A i \in 0 .. Len(h) : Offsets(h)[i] \in Nat)
      /\ \A i, j \in 0 .. Len(h) : i < j => Offsets(h)[i] < Offsets(h)[j]
  BY <1>4, OffsetsAre
<1>8. Len(f) \in 0 .. Len(f) /\ Len(f) \in 0 .. Len(h) /\ Len(h) \in 0 .. Len(h)
  BY <1>3
<1>9. size \in Nat /\ Offsets(h)[Len(f)] = size /\ Offsets(h)[Len(h)] \in Nat
  BY <1>5, <1>6, <1>7, <1>8
<1>10. size <= Offsets(h)[Len(h)]
  <2>1. CASE Len(f) = Len(h)
    BY <1>9, <2>1
  <2>2. CASE Len(f) # Len(h)
    <3>1. Len(f) < Len(h)
      BY <1>3, <2>2
    <3>2. Offsets(h)[Len(f)] < Offsets(h)[Len(h)]
      BY <1>7, <1>8, <3>1
    <3>. QED
      BY <1>9, <3>2
  <2>. QED
    BY <2>1, <2>2
<1>11. u \in [1 .. NumBitMats(c.dim) -> Nat] /\ u[b] = size
       /\ \A x \in 1 .. NumBitMats(c.dim) : x # b => u[x] = t[x]
  <2>. HIDE DEF size
  <2>. QED
    BY <1>1, <1>9
<1>12. b \notin D
  BY Widths
<1>14. \A x \in D : u[x] = t[x]
  BY <1>11, <1>12
<1>. HIDE DEF u, size
<1>15. \A x \in 1 .. NumBitMats(c.dim) : x \notin D \cup {b} => u[x] = 0
  BY <1>11 DEF IsFile
<1>16. ASSUME NEW x \in D \cup {b}
       PROVE  \E i \in 0 .. Len(h) : Offsets(h)[i] = u[x] /\ HasRecord(s, c, h, i, x)
  <2>1. CASE x = b
    BY <1>8, <1>9, <1>11, <2>1 DEF h
  <2>2. CASE x \in D
    <3>1. PICK i \in 0 .. Len(f) : Offsets(f)[i] = t[x] /\ HasRecord(s, c, f, i, x)
      BY <2>2 DEF IsFile
    <3>2. HasRecord(s, c, h, i, x)
      BY <1>1, <3>1, RecordStays, FiniteRows DEF h
    <3>3. i \in 0 .. Len(h) /\ Offsets(h)[i] = u[x]
      <4>1. \A j \in 0 .. Len(f) : j \in 0 .. Len(h)
        BY <1>3
      <4>2. Offsets(h)[i] = Offsets(f)[i] /\ u[x] = t[x]
        BY <1>5, <1>14, <2>2
      <4>. QED
        BY <3>1, <4>1, <4>2
    <3>. QED
      BY <3>2, <3>3
  <2>. QED
    BY <2>1, <2>2
<1>17. ASSUME NEW x \in D \cup {b}, \A y \in D \cup {b} : x <= y PROVE u[x] = 0
  <2>1. CASE x \in D
    BY <1>14, <1>17, <2>1 DEF IsFile
  <2>2. CASE x \notin D
    <3>1. x = b /\ b \in Nat
      BY <2>2
    <3>2. D = {}
      <4>1. \A y \in D : y \in Nat /\ y < b /\ b <= y
        BY <1>17, <3>1
      <4>. QED
        BY <3>1, <4>1
    <3>3. f = << >>
      BY <3>2 DEF IsFile
    <3>4. size = 0
      BY <1>6, <3>3 DEF size
    <3>. QED
      BY <1>11, <3>1, <3>4
  <2>. QED
    BY <2>1, <2>2
<1>. QED
  BY <1>3, <1>9, <1>10, <1>11, <1>15, <1>16, <1>17 DEF IsFile, h, u, size

----------------------------------------------------------------------------
(* What is read.                                                           *)

\* The members of a finite set of numbers, in order.
LEMMA AscendingIs ==
  ASSUME NEW S \in SUBSET Int, IsFiniteSet(S)
  PROVE  /\ Cardinality(S) \in Nat
         /\ Ascending(S) \in [1 .. Cardinality(S) -> S]
         /\ \A i, j \in 1 .. Cardinality(S) : i < j => Ascending(S)[i] < Ascending(S)[j]
         /\ \A x \in S : \E i \in 1 .. Cardinality(S) : Ascending(S)[i] = x
<1>. DEFINE R == {p \in S \X S : p[1] < p[2]}
            n == Cardinality(S)
            e == [i \in 1 .. n |-> CHOOSE x \in S : Rank(S, R, x) = i - 1]
<1>1. n \in Nat
  BY FS_CardinalityType
<1>2. \A x, y \in S : <<x, y>> \in R <=> x < y
  OBVIOUS
<1>. HIDE DEF R
<1>3. IsOrder(S, R)
  BY <1>2 DEF IsOrder
<1>4. /\ \A x \in S : Rank(S, R, x) \in 0 .. n - 1
      /\ \A x, y \in S : <<x, y>> \in R <=> Rank(S, R, x) < Rank(S, R, y)
      /\ \A i \in 1 .. n : \E x \in S : Rank(S, R, x) = i - 1
  <2>. HIDE DEF n
  <2>. QED
    BY <1>3, Ranks DEF n
<1>. HIDE DEF n
<1>5. \A i \in 1 .. n : e[i] \in S /\ Rank(S, R, e[i]) = i - 1
  BY <1>4
<1>6. e \in [1 .. n -> S]
  BY <1>5
<1>. HIDE DEF e
<1>7. \A i, j \in 1 .. n : i < j => e[i] < e[j]
  <2>1. TAKE i, j \in 1 .. n
  <2>2. HAVE i < j
  <2>3. e[i] \in S /\ e[j] \in S /\ Rank(S, R, e[i]) = i - 1 /\ Rank(S, R, e[j]) = j - 1
    BY <1>5
  <2>4. Rank(S, R, e[i]) < Rank(S, R, e[j])
    BY <1>1, <2>2, <2>3
  <2>. QED
    BY <1>2, <1>4, <2>3, <2>4, Zenon
<1>8. \A x \in S : \E i \in 1 .. n : e[i] = x
  <2>1. TAKE x \in S
  <2>. DEFINE i == Rank(S, R, x) + 1
  <2>2. i \in 1 .. n /\ i - 1 = Rank(S, R, x) /\ Rank(S, R, x) \in Int
    BY <1>1, <1>4
  <2>. HIDE DEF i
  <2>3. e[i] \in S /\ Rank(S, R, e[i]) = Rank(S, R, x)
    BY <1>5, <2>2
  <2>4. ~(Rank(S, R, e[i]) < Rank(S, R, x)) /\ ~(Rank(S, R, x) < Rank(S, R, e[i]))
    BY <2>2, <2>3
  <2>5. ~(e[i] < x) /\ ~(x < e[i])
    BY <1>2, <1>4, <2>3, <2>4, Zenon
  <2>6. e[i] \in Int /\ x \in Int
    BY <2>3
  <2>. QED
    BY <2>2, <2>5, <2>6
<1>9. Ascending(S) = e
  BY <1>1, <1>6, <1>7, <1>8, AscendingUnique
<1>. QED
  BY <1>1, <1>6, <1>7, <1>8, <1>9 DEF n

\* The offset is that of one field only.
LEMMA ReadAt ==
  ASSUME store \in Stores, conf \in Conf,
         IsFile(store, conf, dump, table, {l.bm : l \in LinesOf(store, conf)}),
         NEW b \in 1 .. NumBitMats(conf.dim)
  PROVE  LET o == Offset(store, conf.dim, b)
         IN /\ o \in {l.bm : l \in LinesOf(store, conf)}
            /\ Start(b) - 1 \in Nat /\ Start(b) \in Nat
            /\ HasRecord(store, conf, dump, Start(b) - 1, o)
<1>. DEFINE L == LinesOf(store, conf)
            present == {BitMatOf(conf.dim, tr) : tr \in store}
            o == Offset(store, conf.dim, b)
<1>1. L \in SUBSET IdLine /\ L # {} /\ WithinIds(L, conf)
  BY FileLinesAre
<1>2. present = {l.bm : l \in L}
  <2>1. \A tr \in store : Line(conf.dim, tr).bm = BitMatOf(conf.dim, tr)
    BY DEF Line
  <2>. QED
    BY <2>1 DEF LinesOf
<1>3. o = IF b \in present THEN b ELSE Min(present)
  BY DEF Offset
<1>. HIDE DEF present, o, L
<1>4. present # {} /\ present \in SUBSET Nat /\ present \subseteq 1 .. NumBitMats(conf.dim)
  BY <1>1, <1>2, LineTypes DEF WithinIds
<1>5. Min(present) \in present /\ \A x \in present : Min(present) <= x
  <2>1. \E m \in present : \A x \in present : m <= x
    BY <1>4, Least
  <2>. QED
    BY <2>1 DEF Min
<1>6. o \in present /\ table[o] = table[b]
  <2>1. CASE b \in present
    BY <1>3, <2>1
  <2>2. CASE b \notin present
    <3>1. table[b] = 0 /\ table[o] = 0
      BY <1>2, <1>3, <1>5, <2>2 DEF IsFile, L
    <3>. QED
      BY <1>3, <1>5, <2>2, <3>1
  <2>. QED
    BY <2>1, <2>2
<1>7. PICK i \in 0 .. Len(dump) : Offsets(dump)[i] = table[o] /\ HasRecord(store, conf, dump, i, o)
  BY <1>2, <1>6 DEF IsFile, L
<1>8. dump \in Seq(Field) /\ Len(dump) \in Nat /\ DOMAIN dump = 1 .. Len(dump)
  BY DEF IsFile, IsFields
<1>9. i + 1 \in DOMAIN dump
  <2>1. Cardinality(RowsIn(LinesOf(store, conf), o)) \in Nat
    BY FiniteRows, FS_CardinalityType
  <2>2. Heads(conf) \in 1 .. 2
    BY DEF Heads
  <2>3. i + 1 + Heads(conf) + Cardinality(RowsIn(LinesOf(store, conf), o)) <= Len(dump)
    BY <1>7 DEF HasRecord
  <2>. QED
    BY <1>8, <2>1, <2>2, <2>3
<1>10. \A k \in DOMAIN dump : Offsets(dump)[k - 1] = table[b] <=> k = i + 1
  <2>1. /\ \A k \in 0 .. Len(dump) : Offsets(dump)[k] \in Nat
        /\ \A k, l \in 0 .. Len(dump) : k < l => Offsets(dump)[k] < Offsets(dump)[l]
    BY <1>8, OffsetsAre
  <2>2. TAKE k \in DOMAIN dump
  <2>3. k - 1 \in 0 .. Len(dump) /\ k \in Nat
    BY <1>8
  <2>4. Offsets(dump)[k - 1] = Offsets(dump)[i] => ~(k - 1 < i) /\ ~(i < k - 1)
    BY <2>1, <2>3
  <2>5. k = i + 1 => k - 1 = i
    BY <2>3
  <2>6. ~(k - 1 < i) /\ ~(i < k - 1) => k = i + 1
    BY <2>3
  <2>. QED
    BY <1>6, <1>7, <2>4, <2>5, <2>6
<1>11. Start(b) = i + 1
  BY <1>9, <1>10 DEF Start, FieldAt
<1>12. Start(b) - 1 = i /\ i \in Nat /\ Start(b) \in Nat
  BY <1>8, <1>11
<1>. QED
  BY <1>2, <1>6, <1>7, <1>12 DEF o, L

LEMMA ReadIs ==
  ASSUME store \in Stores, conf \in Conf,
         IsFile(store, conf, dump, table, {l.bm : l \in LinesOf(store, conf)}),
         NEW b \in 1 .. NumBitMats(conf.dim)
  PROVE  LET o == Offset(store, conf.dim, b)
             L == LinesOf(store, conf)
         IN /\ SubfoldAt(b) = RowsIn(L, o)
            /\ ~IsPredicates(conf) => ObjfoldAt(b) = FoldedFor(L, o)
            /\ IsPredicates(conf) => ObjfoldAt(b) = {}
            /\ dump[Start(b)].value = Cardinality(CellsIn(L, o))
            /\ IsRows(RowsAt(b), L, o, RowsIn(L, o), RowBytes(conf))
            /\ \A k \in 1 .. Cardinality(RowsIn(L, o)) :
                 IsRow(RowAt(b, k), ColsIn(L, o, Ascending(RowsIn(L, o))[k]), 8 * RowBytes(conf))
<1>. DEFINE o == Offset(store, conf.dim, b)
            L == LinesOf(store, conf)
            ids == RowsIn(L, o)
            n == Cardinality(ids)
            a == Start(b)
<1>1. a - 1 \in Nat /\ a \in Nat /\ HasRecord(store, conf, dump, a - 1, o)
  BY ReadAt
<1>. HIDE DEF a, o
<1>2. a - 1 + 1 = a /\ a - 1 + 2 = a + 1 /\ a - 1 + 3 = a + 2
  BY <1>1
<1>3. IsFiniteSet(ids) /\ ids \in SUBSET Nat /\ ids \in SUBSET Int /\ ids \in SUBSET Id
  BY FiniteRows DEF Id
<1>4. n \in Nat
  BY <1>3, FS_CardinalityType
<1>. HIDE DEF n
<1>5. \A k \in 1 .. n : a - 1 + 1 + Heads(conf) + k = a + k + Heads(conf)
  BY <1>1 DEF Heads
<1>6. /\ dump[a].value = Cardinality(CellsIn(L, o))
      /\ (IF IsCoded(conf) THEN Bits(dump[a + 1].value) ELSE dump[a + 1].value) = ids
      /\ ~IsPredicates(conf) =>
           (IF conf.compress THEN Bits(dump[a + 2].value) ELSE dump[a + 2].value) = FoldedFor(L, o)
      /\ \A k \in 1 .. n : IsRow(dump[a + k + Heads(conf)].value, ColsIn(L, o, Ascending(ids)[k]), 8 * RowBytes(conf))
  BY <1>1, <1>2, <1>5 DEF HasRecord, n
<1>7. SubfoldAt(b) = ids
  BY <1>6, ConfIs DEF SubfoldAt, Decoded, a
<1>8. /\ ~IsPredicates(conf) => ObjfoldAt(b) = FoldedFor(L, o)
      /\ IsPredicates(conf) => ObjfoldAt(b) = {}
  BY <1>6, ConfIs DEF ObjfoldAt, a
<1>9. \A k : RowAt(b, k) = dump[a + k + Heads(conf)].value
  BY ConfIs DEF RowAt, Heads, a
<1>10. \A k \in 1 .. n : IsRow(RowAt(b, k), ColsIn(L, o, Ascending(ids)[k]), 8 * RowBytes(conf))
  BY <1>6, <1>9
<1>. HIDE DEF ids
<1>. DEFINE e == Ascending(ids)
            rows == RowsAt(b)
<1>11. /\ e \in [1 .. n -> ids]
       /\ \A i, j \in 1 .. n : i < j => e[i] < e[j]
       /\ \A x \in ids : \E i \in 1 .. n : e[i] = x
  BY <1>3, AscendingIs DEF n
<1>12. rows = [k \in 1 .. n |-> [rowid |-> e[k], data |-> RowAt(b, k)]]
  BY <1>7, <1>11 DEF RowsAt
<1>. HIDE DEF e, rows
<1>13. \A k \in 1 .. n : [rowid |-> e[k], data |-> RowAt(b, k)] \in MatRow
  BY <1>3, <1>10, <1>11 DEF MatRow, IsRow, Straight
<1>14. rows \in Seq(MatRow) /\ Len(rows) = n
       /\ \A k \in 1 .. n : rows[k].rowid = e[k] /\ rows[k].data = RowAt(b, k)
  <2>. DEFINE r(k) == [rowid |-> e[k], data |-> RowAt(b, k)]
  <2>1. rows = [k \in 1 .. n |-> r(k)] /\ \A k \in 1 .. n : r(k) \in MatRow
    BY <1>12, <1>13
  <2>2. \A k : r(k).rowid = e[k] /\ r(k).data = RowAt(b, k)
    OBVIOUS
  <2>. HIDE DEF r
  <2>3. rows \in Seq(MatRow) /\ Len(rows) = n /\ \A k \in 1 .. n : rows[k] = r(k)
    BY <1>4, <2>1
  <2>. QED
    BY <2>2, <2>3
<1>15. {rows[k].rowid : k \in 1 .. n} = ids
  <2>1. \A k \in 1 .. n : rows[k].rowid \in ids
    BY <1>11, <1>14
  <2>2. \A x \in ids : \E k \in 1 .. n : rows[k].rowid = x
    BY <1>11, <1>14
  <2>. DEFINE id(k) == rows[k].rowid
  <2>3. (\A k \in 1 .. n : id(k) \in ids) /\ (\A x \in ids : \E k \in 1 .. n : id(k) = x)
    BY <2>1, <2>2
  <2>. HIDE DEF rows, n, ids, id
  <2>4. {id(k) : k \in 1 .. n} = ids
    BY <2>3
  <2>. QED
    BY <2>4 DEF id
<1>16. IsRows(rows, L, o, ids, RowBytes(conf))
  <2>1. \A k, l \in 1 .. Len(rows) : k < l => rows[k].rowid < rows[l].rowid
    BY <1>11, <1>14
  <2>2. {rows[k].rowid : k \in 1 .. Len(rows)} = ids
    <3>1. Len(rows) = n
      BY <1>14
    <3>. HIDE DEF rows, n, ids
    <3>. QED
      BY <1>15, <3>1
  <2>3. \A k \in 1 .. Len(rows) : IsRow(rows[k].data, ColsIn(L, o, rows[k].rowid), 8 * RowBytes(conf))
    <3>1. TAKE k \in 1 .. Len(rows)
    <3>2. k \in 1 .. n
      BY <1>14
    <3>3. rows[k].data = RowAt(b, k) /\ rows[k].rowid = Ascending(ids)[k]
      BY <1>14, <3>2 DEF e
    <3>4. IsRow(RowAt(b, k), ColsIn(L, o, Ascending(ids)[k]), 8 * RowBytes(conf))
      BY <1>10, <3>2
    <3>. HIDE DEF rows, n, ids, L, o
    <3>. QED
      BY <3>3, <3>4
  <2>. HIDE DEF rows, n, ids
  <2>. QED
    BY <1>14, <2>1, <2>2, <2>3 DEF IsRows
<1>. QED
  BY <1>6, <1>7, <1>8, <1>10, <1>16 DEF a, o, ids, n, rows

----------------------------------------------------------------------------
(* A bitmat in memory, and what Store says of it.                          *)

MemType    == [bm : Seq(MatRow), subfold : SUBSET Nat, objfold : SUBSET Nat, num_triples : Nat,
               whole : BOOLEAN, turned : BOOLEAN]
AnswerType == [bm : SUBSET (Nat \X Nat), subfold : SUBSET Nat, objfold : SUBSET Nat, num_triples : Nat,
               whole : BOOLEAN, turned : BOOLEAN]

GoodRows(rows) == InOrder(rows) /\ \A k \in 1 .. Len(rows) : Bits(rows[k].data) # {}

\* A turned bitmat has rows and columns swapped.
TurnedWidth(c, turned, axis) ==
  IF turned = (axis = "subfold") THEN Width(c.dim, "objfold") ELSE Width(c.dim, "subfold")

InMemory(c, g) ==
  /\ g \in MemType /\ GoodRows(g.bm)
  /\ Cells(g.bm) \subseteq Id \X (1 .. TurnedWidth(c, g.turned, "objfold"))
  /\ g.whole => Cells(g.bm) \subseteq (1 .. TurnedWidth(c, g.turned, "subfold")) \X Id

IsRead(c, g, p) ==
  /\ InMemory(c, g) /\ p \in AnswerType
  /\ Cells(g.bm) = p.bm /\ ~g.turned
  /\ [g EXCEPT !.bm = Cells(@)] = p

LEMMA ReadBitMat ==
  ASSUME NEW c, NEW rows, GoodRows(rows), NEW sub \in SUBSET Nat, NEW obj \in SUBSET Nat, NEW count \in Nat,
         NEW whole \in BOOLEAN,
         Cells(rows) \subseteq Id \X (1 .. Width(c.dim, "objfold")),
         whole => Cells(rows) \subseteq (1 .. Width(c.dim, "subfold")) \X Id
  PROVE  IsRead(c, [bm |-> rows, subfold |-> sub, objfold |-> obj, num_triples |-> count,
                    whole |-> whole, turned |-> FALSE],
                   [bm |-> Cells(rows), subfold |-> sub, objfold |-> obj, num_triples |-> count,
                    whole |-> whole, turned |-> FALSE])
<1>. DEFINE g == [bm |-> rows, subfold |-> sub, objfold |-> obj, num_triples |-> count,
                  whole |-> whole, turned |-> FALSE]
            p == [bm |-> Cells(rows), subfold |-> sub, objfold |-> obj, num_triples |-> count,
                  whole |-> whole, turned |-> FALSE]
            cells == Cells(rows)
            G == [bm : {rows}, subfold : {sub}, objfold : {obj}, num_triples : {count},
                  whole : {whole}, turned : {FALSE}]
            P == [bm : {cells}, subfold : {sub}, objfold : {obj}, num_triples : {count},
                  whole : {whole}, turned : {FALSE}]
<1>. HIDE DEF cells
<1>1. rows \in Seq(MatRow)
  BY DEF GoodRows, InOrder
<1>2. \A x \in 1 .. Width(c.dim, "objfold") : x \in Nat
  OBVIOUS
<1>3. cells \in SUBSET (Nat \X Nat)
  <2>1. \A x \in Id : x \in Nat
    BY DEF Id
  <2>. QED
    BY <1>2, <2>1 DEF cells
<1>4. g \in MemType /\ g \in G
  BY <1>1 DEF MemType
<1>5. g.bm = rows /\ g.turned = FALSE /\ g.whole = whole
  OBVIOUS
<1>6. [bm |-> cells, subfold |-> sub, objfold |-> obj, num_triples |-> count, whole |-> whole, turned |-> FALSE]
      \in AnswerType
  BY <1>3 DEF AnswerType
<1>7. p \in AnswerType /\ p.bm = cells
  BY <1>6 DEF cells
<1>8. InMemory(c, g)
  <2>1. TurnedWidth(c, FALSE, "objfold") = Width(c.dim, "objfold")
        /\ TurnedWidth(c, FALSE, "subfold") = Width(c.dim, "subfold")
    BY DEF TurnedWidth
  <2>. HIDE DEF g
  <2>. QED
    BY <1>4, <1>5, <2>1 DEF InMemory
<1>9. [g EXCEPT !.bm = Cells(@)] = p
  <2>1. [g EXCEPT !.bm = Cells(@)] = [g EXCEPT !.bm = cells]
    BY DEF cells
  <2>. HIDE DEF g
  <2>2. [g EXCEPT !.bm = cells] \in P
    BY <1>4
  <2>3. p \in P
    BY DEF cells
  <2>4. ASSUME NEW r \in P
        PROVE  r = [bm |-> cells, subfold |-> sub, objfold |-> obj, num_triples |-> count,
                    whole |-> whole, turned |-> FALSE]
    <3>1. r = [bm |-> r.bm, subfold |-> r.subfold, objfold |-> r.objfold, num_triples |-> r.num_triples,
               whole |-> r.whole, turned |-> r.turned]
      OBVIOUS
    <3>2. r.bm = cells /\ r.subfold = sub /\ r.objfold = obj /\ r.num_triples = count
          /\ r.whole = whole /\ r.turned = FALSE
      OBVIOUS
    <3>. HIDE DEF P
    <3>. QED
      BY <3>1, <3>2
  <2>. HIDE DEF P, p
  <2>5. \A r, q \in P : r = q
    BY <2>4
  <2>. QED
    BY <2>1, <2>2, <2>3, <2>5
<1>. QED
  BY <1>5, <1>7, <1>8, <1>9 DEF IsRead, cells

LEMMA CellOfRows ==
  ASSUME NEW rows, DOMAIN rows = 1 .. Len(rows)
  PROVE  \A p : p \in Cells(rows) <=> \E k \in 1 .. Len(rows) : p \in {rows[k].rowid} \X Bits(rows[k].data)
BY DEF Cells

\* The rows that are loaded from lines have bits.
LEMMA RowsAreGood ==
  ASSUME NEW L \in SUBSET IdLine, NEW b, NEW bytes, NEW rows, IsRows(rows, L, b, RowsIn(L, b), bytes)
  PROVE  GoodRows(rows) /\ Cells(rows) = CellsIn(L, b)
<1>1. Cells(rows) = CellsIn(L, b) /\ InOrder(rows)
  BY RowsHaveCells
<1>2. ASSUME NEW k \in 1 .. Len(rows) PROVE Bits(rows[k].data) # {}
  <2>1. rows[k].rowid \in RowsIn(L, b) /\ IsRow(rows[k].data, ColsIn(L, b, rows[k].rowid), 8 * bytes)
    BY DEF IsRows
  <2>2. Bits(rows[k].data) = ColsIn(L, b, rows[k].rowid)
    BY <2>1, RowIsCanonical
  <2>. QED
    BY <2>1, <2>2 DEF RowsIn, ColsIn
<1>. QED
  BY <1>1, <1>2 DEF GoodRows

\* In a file, within the ids that are counted.
LEMMA StoredRows ==
  ASSUME NEW c \in Conf, NEW s \in Stores, NEW b, NEW rows,
         IsRows(rows, LinesOf(s, c), b, RowsIn(LinesOf(s, c), b), RowBytes(c))
  PROVE  /\ GoodRows(rows) /\ Cells(rows) = CellsIn(LinesOf(s, c), b)
         /\ Cells(rows) \subseteq (1 .. Width(c.dim, "subfold")) \X (1 .. Width(c.dim, "objfold"))
         /\ Cells(rows) \subseteq Id \X Id
<1>. DEFINE L == LinesOf(s, c)
<1>1. L \in SUBSET IdLine /\ WithinIds(L, c)
  BY FileLinesAre
<1>2. GoodRows(rows) /\ Cells(rows) = CellsIn(L, b)
  BY <1>1, RowsAreGood
<1>. HIDE DEF L
<1>3. CellsIn(L, b) \subseteq (1 .. Width(c.dim, "subfold")) \X (1 .. Width(c.dim, "objfold"))
  BY <1>1 DEF CellsIn, WithinIds
<1>4. CellsIn(L, b) \subseteq Id \X Id
  BY <1>1 DEF CellsIn, IdLine
<1>. QED
  BY <1>2, <1>3, <1>4 DEF L

\* load_from_dump_file.
LEMMA LoadsStored ==
  ASSUME store \in Stores, conf \in Conf,
         IsFile(store, conf, dump, table, {l.bm : l \in LinesOf(store, conf)}),
         NEW b \in 1 .. NumBitMats(conf.dim)
  PROVE  IsRead(conf,
                [bm |-> RowsAt(b), subfold |-> SubfoldAt(b), objfold |-> ObjfoldAt(b),
                 num_triples |-> dump[Start(b)].value, whole |-> TRUE, turned |-> FALSE],
                Answer(LoadFromDumpFile(store, conf.dim, b), TripleCount(store, conf.dim, b), TRUE))
<1>. DEFINE o == Offset(store, conf.dim, b)
            L == LinesOf(store, conf)
            rows == RowsAt(b)
            sub == SubfoldAt(b)
            obj == ObjfoldAt(b)
            count == dump[Start(b)].value
<1>1. /\ sub = RowsIn(L, o)
      /\ ~IsPredicates(conf) => obj = FoldedFor(L, o)
      /\ IsPredicates(conf) => obj = {}
      /\ count = Cardinality(CellsIn(L, o))
      /\ IsRows(rows, L, o, RowsIn(L, o), RowBytes(conf))
  BY ReadIs
<1>2. o \in {l.bm : l \in L}
  BY ReadAt
<1>3. L \in SUBSET IdLine
  BY FileLinesAre
<1>. HIDE DEF o
<1>4. StoredCells(store, conf.dim, o) = CellsIn(L, o)
  BY CellsOfLines
<1>5. ~IsPredicates(conf) => StoredObjfold(store, conf.dim, o) = FoldedFor(L, o)
  BY <1>2, FoldIsStored
<1>6. conf.dim \in {"SPO", "OPS"} <=> ~IsPredicates(conf)
  BY Widths DEF Dimension, IsPredicates
<1>. HIDE DEF L, rows, sub, obj, count
<1>7. /\ GoodRows(rows) /\ Cells(rows) = CellsIn(L, o)
      /\ Cells(rows) \subseteq (1 .. Width(conf.dim, "subfold")) \X (1 .. Width(conf.dim, "objfold"))
      /\ Cells(rows) \subseteq Id \X Id
  BY <1>1, StoredRows DEF L
<1>8. SimpleFold(CellsIn(L, o), "subfold") = RowsIn(L, o)
  <2>1. \A l : Coord(<<l.row, l.col>>, "subfold") = l.row
    BY DEF Coord
  <2>. QED
    BY <2>1 DEF SimpleFold, CellsIn, RowsIn
<1>9. sub \in SUBSET Nat /\ obj \in SUBSET Nat /\ count \in Nat
  <2>1. \A l \in L : l.row \in Nat /\ l.col \in Nat
    BY <1>3, LineTypes
  <2>2. sub \in SUBSET Nat /\ obj \in SUBSET Nat
    BY <1>1, <2>1 DEF RowsIn, FoldedFor
  <2>3. IsFiniteSet(CellsIn(L, o))
    BY <1>7, CountIsCells DEF GoodRows
  <2>. QED
    BY <1>1, <2>2, <2>3, FS_CardinalityType
<1>10. Answer(LoadFromDumpFile(store, conf.dim, b), TripleCount(store, conf.dim, b), TRUE)
       = [bm |-> Cells(rows), subfold |-> sub, objfold |-> obj, num_triples |-> count, whole |-> TRUE, turned |-> FALSE]
  <2>1. LoadFromDumpFile(store, conf.dim, b).bm = Cells(rows)
    BY <1>4, <1>7 DEF LoadFromDumpFile, o
  <2>2. LoadFromDumpFile(store, conf.dim, b).subfold = sub
    BY <1>1, <1>4, <1>8 DEF LoadFromDumpFile, o
  <2>3. LoadFromDumpFile(store, conf.dim, b).objfold = obj
    BY <1>1, <1>5, <1>6 DEF LoadFromDumpFile, o
  <2>4. TripleCount(store, conf.dim, b) = count
    BY <1>1, <1>4 DEF TripleCount, o
  <2>. QED
    BY <2>1, <2>2, <2>3, <2>4 DEF Answer
<1>11. IsRead(conf, [bm |-> rows, subfold |-> sub, objfold |-> obj, num_triples |-> count, whole |-> TRUE, turned |-> FALSE],
                    [bm |-> Cells(rows), subfold |-> sub, objfold |-> obj, num_triples |-> count, whole |-> TRUE, turned |-> FALSE])
  <2>1. Cells(rows) \subseteq Id \X (1 .. Width(conf.dim, "objfold"))
        /\ Cells(rows) \subseteq (1 .. Width(conf.dim, "subfold")) \X Id
    BY <1>7
  <2>. QED
    BY <1>7, <1>9, <2>1, ReadBitMat
<1>. QED
  BY <1>10, <1>11 DEF rows, sub, obj, count

\* How many members of a set come no later than one.
LEMMA RankIs ==
  ASSUME NEW S \in SUBSET Int, IsFiniteSet(S), NEW x \in S
  PROVE  LET k == Cardinality({y \in S : y <= x}) IN k \in 1 .. Cardinality(S) /\ Ascending(S)[k] = x
<1>. DEFINE n == Cardinality(S)
            e == Ascending(S)
<1>1. /\ n \in Nat /\ e \in [1 .. n -> S]
      /\ \A i, j \in 1 .. n : i < j => e[i] < e[j]
      /\ \A y \in S : \E i \in 1 .. n : e[i] = y
  BY AscendingIs
<1>. HIDE DEF n, e
<1>2. PICK k \in 1 .. n : e[k] = x
  BY <1>1
<1>. DEFINE T == {y \in S : y <= x}
            f == [i \in 1 .. k |-> e[i]]
<1>3. \A i \in 1 .. k : i \in 1 .. n
  BY <1>1
<1>4. \A i \in 1 .. n : e[i] <= x <=> i <= k
  <2>1. TAKE i \in 1 .. n
  <2>2. e[i] \in Int /\ x \in Int
    BY <1>1
  <2>3. i < k => e[i] < x
    BY <1>1, <1>2
  <2>4. k < i => x < e[i]
    BY <1>1, <1>2
  <2>5. i = k => e[i] = x
    BY <1>2
  <2>. QED
    BY <1>1, <2>2, <2>3, <2>4, <2>5
<1>5. f \in [1 .. k -> T]
  BY <1>1, <1>3, <1>4
<1>6. \A i, j \in 1 .. k : f[i] = f[j] => i = j
  <2>1. TAKE i, j \in 1 .. k
  <2>2. HAVE f[i] = f[j]
  <2>3. e[i] = e[j] /\ i \in 1 .. n /\ j \in 1 .. n /\ e[i] \in Int
    BY <1>1, <1>3, <2>2
  <2>4. ~(i < j) /\ ~(j < i)
    BY <1>1, <2>3
  <2>. QED
    BY <2>4
<1>7. \A t \in T : \E i \in 1 .. k : f[i] = t
  <2>1. TAKE t \in T
  <2>2. PICK i \in 1 .. n : e[i] = t
    BY <1>1
  <2>3. i \in 1 .. k
    BY <1>1, <1>4, <2>2
  <2>. QED
    BY <2>2, <2>3
<1>8. k \in Nat /\ IsFiniteSet(1 .. k) /\ Cardinality(1 .. k) = k
  <2>1. k \in Nat /\ k >= 1
    BY <1>1
  <2>. QED
    BY <2>1, FS_Interval
<1>. HIDE DEF f, T
<1>9. Cardinality(T) = k
  BY <1>5, <1>6, <1>7, <1>8, SameSize
<1>. QED
  BY <1>2, <1>9 DEF T, n, e

\* load_one_row.
LEMMA LoadsRow ==
  ASSUME store \in Stores, conf \in Conf,
         IsFile(store, conf, dump, table, {l.bm : l \in LinesOf(store, conf)}),
         NEW b \in 1 .. NumBitMats(conf.dim), NEW r \in SubfoldAt(b),
         NEW row, row = RowAt(b, Cardinality({i \in SubfoldAt(b) : i <= r}))
  PROVE  IsRead(conf,
                [bm |-> <<[rowid |-> r, data |-> row]>>, subfold |-> {r}, objfold |-> Bits(row),
                 num_triples |-> 0, whole |-> FALSE, turned |-> FALSE],
                Answer(AddRow(store, conf.dim, b, r), 0, FALSE))
<1>. DEFINE o == Offset(store, conf.dim, b)
            L == LinesOf(store, conf)
            ids == RowsIn(L, o)
            cols == ColsIn(L, o, r)
            rows == <<[rowid |-> r, data |-> row]>>
            cells == {p \in CellsIn(L, o) : p[1] = r}
<1>1. /\ SubfoldAt(b) = ids
      /\ \A k \in 1 .. Cardinality(ids) : IsRow(RowAt(b, k), ColsIn(L, o, Ascending(ids)[k]), 8 * RowBytes(conf))
  BY ReadIs
<1>2. L \in SUBSET IdLine /\ WithinIds(L, conf) /\ IsFiniteSet(ids)
  BY FileLinesAre, FiniteRows
<1>3. StoredCells(store, conf.dim, o) = CellsIn(L, o)
  BY CellsOfLines
<1>. HIDE DEF o, L
<1>4. r \in ids /\ ids \in SUBSET Id /\ ids \in SUBSET Int
  BY <1>1, <1>2 DEF RowsIn, IdLine, Id
<1>. HIDE DEF ids
<1>5. IsRow(row, cols, 8 * RowBytes(conf))
  BY <1>1, <1>2, <1>4, RankIs
<1>6. Bits(row) = cols /\ Loose(row) /\ row \in Row
  BY <1>5, RowIsCanonical DEF IsRow, Straight
<1>7. cols # {}
  BY <1>4 DEF ids, RowsIn, ColsIn
<1>8. cells = {r} \X cols
  <2>1. ASSUME NEW p \in cells PROVE p \in {r} \X cols
    BY DEF CellsIn, ColsIn
  <2>2. ASSUME NEW p \in {r} \X cols PROVE p \in cells
    <3>1. PICK l \in L : l.bm = o /\ l.row = r /\ p = <<r, l.col>>
      BY DEF ColsIn
    <3>. QED
      BY <3>1 DEF CellsIn
  <2>. QED
    BY <2>1, <2>2
<1>9. cols \subseteq 1 .. Width(conf.dim, "objfold") /\ cols \in SUBSET Nat
  BY <1>2 DEF ColsIn, WithinIds
<1>. HIDE DEF cols, cells
<1>10. rows \in Seq(MatRow) /\ Len(rows) = 1 /\ DOMAIN rows = 1 .. 1 /\ rows[1].rowid = r /\ rows[1].data = row
  <2>1. [rowid |-> r, data |-> row] \in MatRow
    BY <1>4, <1>6 DEF MatRow
  <2>. QED
    BY <2>1
<1>. HIDE DEF rows
<1>11. \A k \in 1 .. Len(rows) : k = 1
  BY <1>10
<1>12. GoodRows(rows)
  BY <1>6, <1>7, <1>10, <1>11 DEF GoodRows, InOrder
<1>13. Cells(rows) = cells
  <2>. DEFINE Of(k) == {rows[k].rowid} \X Bits(rows[k].data)
  <2>2. DOMAIN rows = {1} /\ Cells(rows) = UNION {Of(k) : k \in DOMAIN rows}
    BY <1>10 DEF Cells
  <2>3. Cells(rows) = Of(1)
    <3>. HIDE DEF Of
    <3>. QED
      BY <2>2
  <2>1. Cells(rows) = {rows[1].rowid} \X Bits(rows[1].data)
    BY <2>3
  <2>. QED
    BY <1>6, <1>8, <1>10, <2>1
<1>14. Cells(rows) \subseteq Id \X (1 .. Width(conf.dim, "objfold"))
  <2>. DEFINE w == 1 .. Width(conf.dim, "objfold")
  <2>1. cols \subseteq w /\ r \in Id
    BY <1>4, <1>9
  <2>. HIDE DEF w
  <2>2. {r} \X cols \subseteq Id \X w
    BY <2>1
  <2>. QED
    BY <1>8, <1>13, <2>2 DEF w
<1>15. SimpleFold(cells, "subfold") = {r} /\ SimpleFold(cells, "objfold") = cols
  <2>1. \A x, y : Coord(<<x, y>>, "subfold") = x /\ Coord(<<x, y>>, "objfold") = y
    BY DEF Coord
  <2>2. \A p \in cells : p = <<r, p[2]>> /\ p[2] \in cols
    BY <1>8
  <2>3. \A y \in cols : <<r, y>> \in cells
    BY <1>8
  <2>4. \A p \in cells : Coord(p, "subfold") = r /\ Coord(p, "objfold") = p[2]
    BY <1>8 DEF Coord
  <2>5. \A y \in cols : Coord(<<r, y>>, "objfold") = y
    BY <2>1
  <2>6. {Coord(p, "subfold") : p \in cells} = {r}
    <3>. DEFINE f(p) == Coord(p, "subfold")
    <3>1. PICK q \in cells : TRUE
      BY <1>7, <2>3
    <3>2. \A p \in cells : f(p) = r
      BY <2>4
    <3>. HIDE DEF f
    <3>3. {f(p) : p \in cells} = {r}
      BY <3>1, <3>2
    <3>. QED
      BY <3>3 DEF f
  <2>7. {Coord(p, "objfold") : p \in cells} = cols
    <3>. DEFINE f(p) == Coord(p, "objfold")
    <3>1. \A p \in cells : f(p) \in cols
      BY <2>2, <2>4
    <3>2. \A y \in cols : \E p \in cells : f(p) = y
      BY <2>3, <2>5
    <3>. HIDE DEF f
    <3>3. {f(p) : p \in cells} = cols
      BY <3>1, <3>2
    <3>. QED
      BY <3>3 DEF f
  <2>. QED
    BY <2>6, <2>7 DEF SimpleFold
<1>16. Answer(AddRow(store, conf.dim, b, r), 0, FALSE)
       = [bm |-> Cells(rows), subfold |-> {r}, objfold |-> cols, num_triples |-> 0, whole |-> FALSE, turned |-> FALSE]
  <2>1. {c \in StoredCells(store, conf.dim, Offset(store, conf.dim, b)) : c[1] = r} = cells
    BY <1>3 DEF cells, o
  <2>2. AddRow(store, conf.dim, b, r)
        = [bm |-> cells, subfold |-> SimpleFold(cells, "subfold"), objfold |-> SimpleFold(cells, "objfold")]
    BY <2>1 DEF AddRow
  <2>3. AddRow(store, conf.dim, b, r).bm = Cells(rows) /\ AddRow(store, conf.dim, b, r).subfold = {r}
        /\ AddRow(store, conf.dim, b, r).objfold = cols
    BY <1>13, <1>15, <2>2
  <2>. QED
    BY <2>3 DEF Answer
<1>17. IsRead(conf, [bm |-> rows, subfold |-> {r}, objfold |-> cols, num_triples |-> 0, whole |-> FALSE, turned |-> FALSE],
                    [bm |-> Cells(rows), subfold |-> {r}, objfold |-> cols, num_triples |-> 0, whole |-> FALSE, turned |-> FALSE])
  <2>1. {r} \in SUBSET Nat
    BY <1>4 DEF Id
  <2>. QED
    BY <1>9, <1>12, <1>14, <2>1, ReadBitMat
<1>. QED
  BY <1>6, <1>16, <1>17 DEF rows

----------------------------------------------------------------------------
(* filter_and_load_bitmat.                                                 *)

FilterState == [bm : Seq([rowid : Int, data : Row]), subfold : SUBSET Int, objfold : SUBSET Int, skipped : Int]

LEMMA FilterRowsAre ==
  ASSUME NEW rows, InOrder(rows), NEW sub \in SUBSET Int, NEW mask, Loose(mask)
  PROVE  LET st == FilterRows(rows, sub, mask)
         IN /\ st[0] = [bm |-> << >>, subfold |-> sub, objfold |-> {}, skipped |-> 0]
            /\ \A k \in 1 .. Len(rows) : st[k] = FilterRow(mask, st[k - 1], rows[k])
            /\ \A k \in 0 .. Len(rows) : st[k] \in FilterState
<1>. DEFINE n == Len(rows)
            first == [bm |-> << >>, subfold |-> sub, objfold |-> {}, skipped |-> 0]
            S == FilterState
            step == [p \in (1 .. n) \X S |-> FilterRow(mask, p[2], rows[p[1]])]
            Body(f) == [k \in 0 .. n |-> IF k = 0 THEN first ELSE FilterRow(mask, f[k - 1], rows[k])]
<1>1. n \in Nat /\ \A k \in 1 .. n : rows[k] \in MatRow /\ rows[k].rowid \in Int /\ Loose(rows[k].data)
  <2>1. rows \in Seq(MatRow) /\ \A k \in 1 .. n : Loose(rows[k].data)
    BY DEF InOrder
  <2>2. \A k \in 1 .. n : rows[k] \in MatRow
    BY <2>1
  <2>3. \A x \in MatRow : x.rowid \in Int
    BY DEF MatRow, Id
  <2>. QED
    BY <2>1, <2>2, <2>3
<1>2. first \in S
  BY DEF FilterState
<1>. HIDE DEF n, first
<1>3. ASSUME NEW st \in S, NEW k \in 1 .. n PROVE FilterRow(mask, st, rows[k]) \in S
  <2>. DEFINE both == DgapAnd(rows[k].data, mask)
              x == [rowid |-> rows[k].rowid - st.skipped, data |-> both]
  <2>1. Loose(both) /\ both \in Row
    BY <1>1, DgapAndMeets, LooseEnds
  <2>2. \A t \in Bits(both) : t \in Int
    BY <2>1, BitsAre
  <2>3. st.skipped \in Int /\ st.bm \in Seq([rowid : Int, data : Row]) /\ st.subfold \in SUBSET Int
        /\ st.objfold \in SUBSET Int
    BY DEF FilterState
  <2>4. FilterRow(mask, st, rows[k])
        = IF IsZero(both)
          THEN [st EXCEPT !.skipped = st.skipped + 1, !.subfold = st.subfold \ {ByteOf(rows[k].rowid) + 1}]
          ELSE [st EXCEPT !.bm = Append(st.bm, x), !.objfold = st.objfold \cup Bits(both)]
    BY DEF FilterRow
  <2>. HIDE DEF both
  <2>5. x \in [rowid : Int, data : Row]
    BY <1>1, <2>1, <2>3
  <2>. HIDE DEF x
  <2>6. Append(st.bm, x) \in Seq([rowid : Int, data : Row])
    BY <2>3, <2>5
  <2>7. st.skipped + 1 \in Int /\ st.subfold \ {ByteOf(rows[k].rowid) + 1} \in SUBSET Int
        /\ st.objfold \cup Bits(both) \in SUBSET Int
    BY <2>2, <2>3
  <2>8. \A y \in Seq([rowid : Int, data : Row]) : \A z \in SUBSET Int : [st EXCEPT !.bm = y, !.objfold = z] \in S
    BY DEF FilterState
  <2>9. \A y \in Int : \A z \in SUBSET Int : [st EXCEPT !.skipped = y, !.subfold = z] \in S
    BY DEF FilterState
  <2>. HIDE DEF S
  <2>. QED
    BY <2>4, <2>6, <2>7, <2>8, <2>9
<1>4. step \in [(1 .. n) \X S -> S]
  <2>1. ASSUME NEW p \in (1 .. n) \X S PROVE FilterRow(mask, p[2], rows[p[1]]) \in S
    <3>. HIDE DEF S
    <3>1. p[2] \in S /\ p[1] \in 1 .. n
      OBVIOUS
    <3>. QED
      BY <1>3, <3>1
  <2>. HIDE DEF S
  <2>. QED
    BY <2>1
<1>5. \A k \in 1 .. n : \A st \in S : step[<<k, st>>] = FilterRow(mask, st, rows[k])
  <2>. HIDE DEF S
  <2>. QED
    OBVIOUS
<1>. HIDE DEF step, S
<1>6. PICK g : IsSteps(g, n, S, first, step)
  <2>1. IsStep(n, S, step)
    BY <1>4 DEF IsStep
  <2>. QED
    BY <1>1, <1>2, <2>1, Recursion, Zenon
<1>7. g \in [0 .. n -> S] /\ g[0] = first /\ \A k \in 1 .. n : g[k] = step[<<k, g[k - 1]>>]
  BY <1>6 DEF IsSteps
<1>8. \A k \in 1 .. n : g[k] = FilterRow(mask, g[k - 1], rows[k])
  <2>1. \A k \in 1 .. n : k - 1 \in 0 .. n
    BY <1>1
  <2>. QED
    BY <1>5, <1>7, <2>1
<1>9. g = Body(g)
  BY <1>7, <1>8
<1>10. FilterRows(rows, sub, mask) = CHOOSE f : f = Body(f)
  BY DEF FilterRows, n, first
<1>. DEFINE st == FilterRows(rows, sub, mask)
<1>11. st = Body(st)
  BY <1>9, <1>10
<1>12. \A k \in 0 .. n : Body(st)[k] = IF k = 0 THEN first ELSE FilterRow(mask, st[k - 1], rows[k])
  OBVIOUS
<1>. HIDE DEF Body, st
<1>13. \A k \in 0 .. n : st[k] = IF k = 0 THEN first ELSE FilterRow(mask, st[k - 1], rows[k])
  BY <1>11, <1>12
<1>14. st[0] = first
  BY <1>1, <1>13
<1>15. ASSUME NEW k \in 1 .. n PROVE st[k] = FilterRow(mask, st[k - 1], rows[k])
  BY <1>1, <1>13
<1>. DEFINE T == {k \in 0 .. n : st[k] \in S}
<1>16. 0 \in T
  BY <1>1, <1>2, <1>14
<1>17. ASSUME NEW k \in 1 .. n, k - 1 \in T PROVE k \in T
  <2>1. st[k - 1] \in S /\ k \in 0 .. n
    BY <1>17
  <2>. QED
    BY <1>3, <1>15, <2>1
<1>18. \A k \in 0 .. n : k \in T
  <2>. HIDE DEF T
  <2>. QED
    BY <1>1, <1>16, <1>17, InductOn
<1>. QED
  BY <1>14, <1>15, <1>18 DEF n, first, S, st

LEMMA CellsAppend ==
  ASSUME NEW rows, GoodRows(rows), NEW x \in MatRow, Loose(x.data), Bits(x.data) # {},
         \A k \in 1 .. Len(rows) : rows[k].rowid < x.rowid
  PROVE  /\ GoodRows(Append(rows, x))
         /\ Cells(Append(rows, x)) = Cells(rows) \cup ({x.rowid} \X Bits(x.data))
         /\ Len(Append(rows, x)) = Len(rows) + 1
         /\ Append(rows, x)[Len(rows) + 1] = x
         /\ \A k \in 1 .. Len(rows) : Append(rows, x)[k] = rows[k]
<1>. DEFINE n == Len(rows)
            all == Append(rows, x)
            Of(k) == {rows[k].rowid} \X Bits(rows[k].data)
            AllOf(k) == {all[k].rowid} \X Bits(all[k].data)
<1>1. n \in Nat /\ rows \in Seq(MatRow) /\ DOMAIN rows = 1 .. n
  BY DEF GoodRows, InOrder
<1>2. /\ all \in Seq(MatRow) /\ Len(all) = n + 1 /\ all[n + 1] = x /\ DOMAIN all = 1 .. n + 1
      /\ \A k \in 1 .. n : all[k] = rows[k]
  BY <1>1
<1>3. Cells(rows) = UNION {Of(k) : k \in 1 .. n} /\ Cells(all) = UNION {AllOf(k) : k \in 1 .. n + 1}
  BY <1>1, <1>2 DEF Cells
<1>. HIDE DEF all, n
<1>4. \A k \in 1 .. n + 1 : k \in 1 .. n \/ k = n + 1
  BY <1>1
<1>5. \A k \in 1 .. n : k \in 1 .. n + 1
  BY <1>1
<1>6. n + 1 \in 1 .. n + 1
  BY <1>1
<1>7. (\A k \in 1 .. n : AllOf(k) = Of(k)) /\ AllOf(n + 1) = {x.rowid} \X Bits(x.data)
  BY <1>2
<1>. HIDE DEF Of, AllOf
<1>8. Cells(all) = Cells(rows) \cup ({x.rowid} \X Bits(x.data))
  <2>1. \A p : p \in Cells(all) <=> \E k \in 1 .. n + 1 : p \in AllOf(k)
    BY <1>3
  <2>2. \A p : p \in Cells(rows) <=> \E k \in 1 .. n : p \in Of(k)
    BY <1>3
  <2>. QED
    BY <1>4, <1>5, <1>6, <1>7, <2>1, <2>2
<1>9. \A k \in 1 .. n : Loose(rows[k].data) /\ Bits(rows[k].data) # {}
  BY DEF GoodRows, InOrder, n
<1>10. \A k \in 1 .. n + 1 : Loose(all[k].data) /\ Bits(all[k].data) # {}
  BY <1>2, <1>4, <1>9
<1>11. \A k, l \in 1 .. n + 1 : k < l => all[k].rowid < all[l].rowid
  <2>1. TAKE k, l \in 1 .. n + 1
  <2>2. HAVE k < l
  <2>3. k \in 1 .. n
    BY <1>1, <2>2
  <2>4. CASE l = n + 1
    BY <1>2, <2>3, <2>4 DEF n
  <2>5. CASE l # n + 1
    BY <1>2, <1>4, <2>2, <2>3, <2>5 DEF GoodRows, InOrder, n
  <2>. QED
    BY <2>4, <2>5
<1>. QED
  BY <1>2, <1>8, <1>10, <1>11 DEF GoodRows, InOrder, all, n

\* The rows up to the k-th, and the id of the last of them.
Seen(rows, k)   == {rows[j].rowid : j \in 1 .. k}
LastId(rows, k) == IF k = 0 THEN 0 ELSE rows[k].rowid

\* The id under which a row is filed.
Filed(dropped, r) == r - Cardinality({d \in dropped : d < r})

IsFiltered(rows, sub, c, dropped, k, st) ==
  LET gone == dropped \cap Seen(rows, k)
  IN /\ st \in FilterState
     /\ IsFiniteSet(gone) /\ st.skipped = Cardinality(gone) /\ st.skipped <= LastId(rows, k)
     /\ st.subfold = sub \ {ByteOf(d) + 1 : d \in gone}
     /\ st.objfold = IF Seen(rows, k) \subseteq dropped THEN {} ELSE {c}
     /\ GoodRows(st.bm)
     /\ \A j \in 1 .. Len(st.bm) : st.bm[j].rowid + st.skipped <= LastId(rows, k)
     /\ Cells(st.bm) = {<<Filed(dropped, r), c>> : r \in Seen(rows, k) \ dropped}

\* The rows that have no bit in column c.
IsDropped(rows, c, dropped) ==
  /\ dropped \subseteq Seen(rows, Len(rows))
  /\ \A k \in 1 .. Len(rows) : rows[k].rowid \in dropped <=> c \notin Bits(rows[k].data)

LEMMA SeenNext ==
  ASSUME NEW rows, InOrder(rows), NEW c, NEW dropped, IsDropped(rows, c, dropped), NEW k \in 1 .. Len(rows)
  PROVE  LET r == rows[k].rowid
         IN /\ r \in Nat /\ r >= 1 /\ k - 1 \in Nat
            /\ LastId(rows, k) = r /\ LastId(rows, k - 1) \in Nat /\ LastId(rows, k - 1) < r
            /\ Seen(rows, k) = Seen(rows, k - 1) \cup {r} /\ r \notin Seen(rows, k - 1)
            /\ {d \in dropped : d < r} = dropped \cap Seen(rows, k - 1)
<1>. DEFINE r == rows[k].rowid
            n == Len(rows)
<1>1. n \in Nat /\ k \in Nat /\ k >= 1 /\ k - 1 \in Nat /\ (\A j \in 1 .. n : rows[j].rowid \in Nat /\ rows[j].rowid >= 1)
      /\ \A i, j \in 1 .. n : i < j => rows[i].rowid < rows[j].rowid
  <2>1. rows \in Seq(MatRow) /\ \A i, j \in 1 .. n : i < j => rows[i].rowid < rows[j].rowid
    BY DEF InOrder
  <2>2. \A j \in 1 .. n : rows[j] \in MatRow
    BY <2>1
  <2>3. \A x \in MatRow : x.rowid \in Nat /\ x.rowid >= 1
    BY DEF MatRow, Id
  <2>. QED
    BY <2>1, <2>2, <2>3
<1>. HIDE DEF n
<1>2. r \in Nat /\ r >= 1 /\ LastId(rows, k) = r
  BY <1>1 DEF LastId, n
<1>3. LastId(rows, k - 1) \in Nat /\ LastId(rows, k - 1) < r
  <2>1. CASE k = 1
    BY <1>2, <2>1 DEF LastId
  <2>2. CASE k # 1
    <3>1. k - 1 \in 1 .. n /\ k - 1 < k /\ k - 1 # 0 /\ k \in 1 .. n
      BY <1>1, <2>2 DEF n
    <3>2. LastId(rows, k - 1) = rows[k - 1].rowid
      BY <3>1 DEF LastId
    <3>. QED
      BY <1>1, <3>1, <3>2
  <2>. QED
    BY <2>1, <2>2
<1>4. \A j : j \in 1 .. k <=> j \in 1 .. k - 1 \/ j = k
  BY <1>1
<1>5. \A j \in 1 .. k - 1 : j \in 1 .. n /\ j < k
  BY <1>1 DEF n
<1>6. \A j \in 1 .. k - 1 : rows[j].rowid < r
  BY <1>1, <1>5 DEF n
<1>7. Seen(rows, k) = Seen(rows, k - 1) \cup {r}
  BY <1>4 DEF Seen
<1>8. r \notin Seen(rows, k - 1)
  BY <1>1, <1>2, <1>5, <1>6 DEF Seen
<1>9. \A d \in dropped : d < r <=> d \in Seen(rows, k - 1)
  <2>1. TAKE d \in dropped
  <2>2. PICK j \in 1 .. n : d = rows[j].rowid
    BY DEF IsDropped, Seen, n
  <2>3. d < r => j < k
    <3>1. SUFFICES ASSUME ~(j < k) PROVE ~(d < r)
      OBVIOUS
    <3>2. j = k \/ k < j
      BY <1>1, <3>1
    <3>3. k < j => r < d
      BY <1>1, <2>2 DEF n
    <3>. QED
      BY <1>1, <1>2, <2>2, <3>2, <3>3
  <2>4. j < k => d \in Seen(rows, k - 1)
    <3>1. j < k => j \in 1 .. k - 1
      BY <1>1
    <3>. QED
      BY <2>2, <3>1 DEF Seen
  <2>5. d \in Seen(rows, k - 1) => d < r
    BY <1>6 DEF Seen
  <2>. QED
    BY <2>3, <2>4, <2>5
<1>10. {d \in dropped : d < r} = dropped \cap Seen(rows, k - 1)
  BY <1>9
<1>. QED
  BY <1>1, <1>2, <1>3, <1>7, <1>8, <1>10

\* The room below an id: what fits under the id before it fits under it with one more.
LEMMA RoomBelow ==
  ASSUME NEW x \in Int, NEW skipped \in Int, NEW last \in Int, NEW r \in Int, x + skipped <= last, last < r
  PROVE  x + skipped <= r /\ x + (skipped + 1) <= r
OBVIOUS

LEMMA FilterStep ==
  ASSUME NEW rows, InOrder(rows), NEW sub \in SUBSET Int, NEW c \in Nat, NEW mask, Loose(mask), Bits(mask) = {c},
         NEW dropped, IsDropped(rows, c, dropped), NEW k \in 1 .. Len(rows), NEW st,
         IsFiltered(rows, sub, c, dropped, k - 1, st), FilterRow(mask, st, rows[k]) \in FilterState
  PROVE  IsFiltered(rows, sub, c, dropped, k, FilterRow(mask, st, rows[k]))
<1>. DEFINE r == rows[k].rowid
            both == DgapAnd(rows[k].data, mask)
            gone == dropped \cap Seen(rows, k - 1)
            next == FilterRow(mask, st, rows[k])
<1>1. /\ r \in Nat /\ r >= 1
      /\ LastId(rows, k) = r /\ LastId(rows, k - 1) \in Nat /\ LastId(rows, k - 1) < r
      /\ Seen(rows, k) = Seen(rows, k - 1) \cup {r} /\ r \notin Seen(rows, k - 1)
      /\ {d \in dropped : d < r} = gone
  BY SeenNext
<1>2. /\ st \in FilterState
      /\ IsFiniteSet(gone) /\ st.skipped = Cardinality(gone) /\ st.skipped <= LastId(rows, k - 1)
      /\ st.subfold = sub \ {ByteOf(d) + 1 : d \in gone}
      /\ st.objfold = IF Seen(rows, k - 1) \subseteq dropped THEN {} ELSE {c}
      /\ GoodRows(st.bm)
      /\ \A j \in 1 .. Len(st.bm) : st.bm[j].rowid + st.skipped <= LastId(rows, k - 1)
      /\ Cells(st.bm) = {<<Filed(dropped, x), c>> : x \in Seen(rows, k - 1) \ dropped}
  BY DEF IsFiltered
<1>3. Loose(rows[k].data)
  BY DEF InOrder
<1>4. Loose(both) /\ Bits(both) = Bits(rows[k].data) \cap {c}
  BY <1>3, DgapAndMeets
<1>5. IsZero(both) <=> r \in dropped
  BY <1>4, ZeroIsNoBit DEF IsDropped
<1>6. st.skipped \in Nat
  BY <1>2, FS_CardinalityType
<1>7. \A j \in 1 .. Len(st.bm) : st.bm[j].rowid \in Nat
  <2>1. st.bm \in Seq(MatRow)
    BY <1>2 DEF GoodRows, InOrder
  <2>2. \A x \in MatRow : x.rowid \in Nat
    BY DEF MatRow, Id
  <2>. QED
    BY <2>1, <2>2
<1>. HIDE DEF r, both, gone, next
<1>8. CASE r \in dropped
  <2>1. next = [st EXCEPT !.skipped = st.skipped + 1, !.subfold = st.subfold \ {ByteOf(r) + 1}]
    BY <1>5, <1>8 DEF FilterRow, next, both, r
  <2>2. /\ next.skipped = st.skipped + 1 /\ next.subfold = st.subfold \ {ByteOf(r) + 1}
        /\ next.bm = st.bm /\ next.objfold = st.objfold
    BY <1>2, <2>1 DEF FilterState
  <2>3. dropped \cap Seen(rows, k) = gone \cup {r} /\ r \notin gone
    BY <1>1, <1>8 DEF gone
  <2>4. IsFiniteSet(gone \cup {r}) /\ Cardinality(gone \cup {r}) = st.skipped + 1
    BY <1>2, <2>3, FS_AddElement
  <2>5. next.skipped = Cardinality(gone \cup {r}) /\ next.skipped <= r
    BY <1>1, <1>2, <1>6, <2>2, <2>4
  <2>6. next.subfold = sub \ {ByteOf(d) + 1 : d \in gone \cup {r}}
    BY <1>2, <2>2
  <2>7. next.objfold = IF Seen(rows, k) \subseteq dropped THEN {} ELSE {c}
    BY <1>1, <1>2, <1>8, <2>2
  <2>8. \A j \in 1 .. Len(next.bm) : next.bm[j].rowid + next.skipped <= r
    <3>1. TAKE j \in 1 .. Len(next.bm)
    <3>2. next.bm[j] = st.bm[j] /\ j \in 1 .. Len(st.bm)
      BY <2>2
    <3>3. st.bm[j].rowid \in Nat /\ st.bm[j].rowid + st.skipped <= LastId(rows, k - 1)
      BY <1>2, <1>7, <3>2
    <3>. DEFINE z == st.bm[j].rowid
                l == LastId(rows, k - 1)
    <3>4. z \in Int /\ st.skipped \in Int /\ l \in Int /\ r \in Int /\ z + st.skipped <= l /\ l < r
      BY <1>1, <1>6, <3>3
    <3>5. next.bm[j].rowid = z /\ next.skipped = st.skipped + 1
      BY <2>2, <3>2
    <3>. HIDE DEF z, l
    <3>6. z + (st.skipped + 1) <= r
      BY <3>4, RoomBelow
    <3>. QED
      BY <3>5, <3>6
  <2>9. Seen(rows, k) \ dropped = Seen(rows, k - 1) \ dropped
    BY <1>1, <1>8
  <2>. QED
    BY <1>1, <1>2, <2>2, <2>3, <2>4, <2>5, <2>6, <2>7, <2>8, <2>9 DEF IsFiltered, next
<1>9. CASE r \notin dropped
  <2>. DEFINE x == [rowid |-> r - st.skipped, data |-> both]
  <2>1. next = [st EXCEPT !.bm = Append(st.bm, x), !.objfold = st.objfold \cup Bits(both)]
    BY <1>5, <1>9 DEF FilterRow, next, both, r
  <2>2. /\ next.skipped = st.skipped /\ next.subfold = st.subfold
        /\ next.bm = Append(st.bm, x) /\ next.objfold = st.objfold \cup Bits(both)
    BY <1>2, <2>1 DEF FilterState
  <2>3. c \in Bits(rows[k].data) /\ Bits(both) = {c}
    BY <1>4, <1>9 DEF IsDropped, r
  <2>4. r - st.skipped \in Id /\ r - st.skipped \in Nat
    BY <1>1, <1>2, <1>6 DEF Id
  <2>5. x \in MatRow /\ x.rowid = r - st.skipped /\ x.data = both
    BY <1>4, <2>4, LooseEnds DEF MatRow
  <2>. HIDE DEF x
  <2>6. \A j \in 1 .. Len(st.bm) : st.bm[j].rowid < x.rowid
    BY <1>1, <1>2, <1>6, <1>7, <2>5
  <2>7. /\ GoodRows(next.bm) /\ Cells(next.bm) = Cells(st.bm) \cup ({x.rowid} \X Bits(x.data))
        /\ Len(next.bm) = Len(st.bm) + 1 /\ next.bm[Len(st.bm) + 1] = x
        /\ \A j \in 1 .. Len(st.bm) : next.bm[j] = st.bm[j]
    <3>1. Loose(x.data) /\ Bits(x.data) # {} /\ x \in MatRow /\ GoodRows(st.bm)
      BY <1>2, <1>4, <2>3, <2>5
    <3>. DEFINE old == st.bm
    <3>. HIDE DEF old
    <3>2. /\ GoodRows(old) /\ \A j \in 1 .. Len(old) : old[j].rowid < x.rowid
      BY <2>6, <3>1 DEF old
    <3>3. /\ GoodRows(Append(old, x)) /\ Cells(Append(old, x)) = Cells(old) \cup ({x.rowid} \X Bits(x.data))
          /\ Len(Append(old, x)) = Len(old) + 1 /\ Append(old, x)[Len(old) + 1] = x
          /\ \A j \in 1 .. Len(old) : Append(old, x)[j] = old[j]
      BY <3>1, <3>2, CellsAppend
    <3>. QED
      BY <2>2, <3>3 DEF old
  <2>8. dropped \cap Seen(rows, k) = gone
    BY <1>1, <1>9 DEF gone
  <2>9. next.objfold = {c} /\ ~(Seen(rows, k) \subseteq dropped)
    BY <1>1, <1>2, <1>9, <2>2, <2>3
  <2>10. \A j \in 1 .. Len(next.bm) : next.bm[j].rowid + next.skipped <= r
    <3>1. TAKE j \in 1 .. Len(next.bm)
    <3>2. Len(st.bm) \in Nat
      BY <1>2 DEF GoodRows, InOrder
    <3>3. j \in 1 .. Len(st.bm) \/ j = Len(st.bm) + 1
      BY <2>7, <3>2
    <3>4. CASE j \in 1 .. Len(st.bm)
      <4>1. next.bm[j] = st.bm[j]
        BY <2>7, <3>4
      <4>2. st.bm[j].rowid \in Nat /\ st.bm[j].rowid + st.skipped <= LastId(rows, k - 1)
        BY <1>2, <1>7, <3>4
      <4>. DEFINE z == st.bm[j].rowid
                  l == LastId(rows, k - 1)
      <4>3. z \in Int /\ st.skipped \in Int /\ l \in Int /\ r \in Int /\ z + st.skipped <= l /\ l < r
        BY <1>1, <1>6, <4>2
      <4>4. next.bm[j].rowid = z /\ next.skipped = st.skipped
        BY <2>2, <4>1
      <4>. HIDE DEF z, l
      <4>5. z + st.skipped <= r
        BY <4>3, RoomBelow
      <4>. QED
        BY <4>4, <4>5
    <3>5. CASE j = Len(st.bm) + 1
      BY <1>1, <1>6, <2>2, <2>5, <2>7, <3>5
    <3>. QED
      BY <3>3, <3>4, <3>5
  <2>11. x.rowid = Filed(dropped, r)
    BY <1>1, <1>2, <2>5 DEF Filed
  <2>12. Cells(next.bm) = {<<Filed(dropped, y), c>> : y \in Seen(rows, k) \ dropped}
    <3>1. {x.rowid} \X Bits(x.data) = {<<Filed(dropped, r), c>>}
      BY <2>3, <2>5, <2>11
    <3>2. Seen(rows, k) \ dropped = (Seen(rows, k - 1) \ dropped) \cup {r}
      BY <1>1, <1>9
    <3>. QED
      BY <1>2, <2>7, <3>1, <3>2
  <2>13. next.skipped <= r
    BY <1>1, <1>2, <1>6, <2>2
  <2>. QED
    BY <1>1, <1>2, <2>2, <2>7, <2>8, <2>9, <2>10, <2>12, <2>13 DEF IsFiltered, next
<1>. QED
  BY <1>8, <1>9 DEF next, r

LEMMA FilterLoop ==
  ASSUME NEW rows, InOrder(rows), NEW sub \in SUBSET Int, NEW c \in Nat, NEW mask, Loose(mask), Bits(mask) = {c},
         NEW dropped, IsDropped(rows, c, dropped)
  PROVE  IsFiltered(rows, sub, c, dropped, Len(rows), FilterRows(rows, sub, mask)[Len(rows)])
<1>. DEFINE n == Len(rows)
            st == FilterRows(rows, sub, mask)
            T == {k \in 0 .. n : IsFiltered(rows, sub, c, dropped, k, st[k])}
<1>1. n \in Nat
  BY DEF InOrder
<1>2. /\ st[0] = [bm |-> << >>, subfold |-> sub, objfold |-> {}, skipped |-> 0]
      /\ \A k \in 1 .. n : st[k] = FilterRow(mask, st[k - 1], rows[k])
      /\ \A k \in 0 .. n : st[k] \in FilterState
  BY FilterRowsAre
<1>. HIDE DEF n, st
<1>3. IsFiltered(rows, sub, c, dropped, 0, st[0])
  <2>1. Seen(rows, 0) = {}
    BY DEF Seen
  <2>2. LastId(rows, 0) = 0
    BY DEF LastId
  <2>3. /\ st[0].bm = << >> /\ st[0].subfold = sub /\ st[0].objfold = {} /\ st[0].skipped = 0
    BY <1>2
  <2>4. st[0] \in FilterState
    BY <1>1, <1>2
  <2>5. IsFiniteSet({}) /\ Cardinality({}) = 0
    BY FS_EmptySet
  <2>6. GoodRows(<< >>) /\ Len(<< >>) = 0
    BY DEF GoodRows, InOrder
  <2>7. Cells(<< >>) = {}
    <3>1. DOMAIN << >> = {}
      OBVIOUS
    <3>. QED
      BY <3>1 DEF Cells
  <2>. HIDE DEF FilterState
  <2>8. dropped \cap Seen(rows, 0) = {} /\ Seen(rows, 0) \subseteq dropped /\ Seen(rows, 0) \ dropped = {}
    BY <2>1
  <2>9. {ByteOf(d) + 1 : d \in {}} = {} /\ {<<Filed(dropped, r), c>> : r \in {}} = {}
    OBVIOUS
  <2>10. /\ st[0].subfold = sub \ {ByteOf(d) + 1 : d \in {}}
         /\ Cells(st[0].bm) = {<<Filed(dropped, r), c>> : r \in {}}
         /\ GoodRows(st[0].bm) /\ \A j \in 1 .. Len(st[0].bm) : st[0].bm[j].rowid + st[0].skipped <= LastId(rows, 0)
         /\ st[0].skipped <= LastId(rows, 0)
    BY <2>2, <2>3, <2>6, <2>7, <2>9
  <2>. QED
    BY <2>3, <2>4, <2>5, <2>8, <2>10 DEF IsFiltered
<1>4. 0 \in T
  BY <1>1, <1>3
<1>5. ASSUME NEW k \in 1 .. n, k - 1 \in T PROVE k \in T
  <2>1. k \in 0 .. n /\ k - 1 \in 0 .. n
    BY <1>1
  <2>2. st[k] = FilterRow(mask, st[k - 1], rows[k]) /\ st[k] \in FilterState
    BY <1>2, <2>1
  <2>3. IsFiltered(rows, sub, c, dropped, k - 1, st[k - 1])
    BY <1>5
  <2>4. IsFiltered(rows, sub, c, dropped, k, FilterRow(mask, st[k - 1], rows[k]))
    BY <2>2, <2>3, FilterStep DEF n
  <2>. QED
    BY <2>1, <2>2, <2>4
<1>. HIDE DEF T
<1>6. \A k \in 0 .. n : k \in T
  BY <1>1, <1>4, <1>5, InductOn
<1>7. n \in T
  BY <1>1, <1>6
<1>. QED
  BY <1>7 DEF T, n, st

LEMMA LoadsFiltered ==
  ASSUME store \in Stores, conf \in Conf,
         IsFile(store, conf, dump, table, {l.bm : l \in LinesOf(store, conf)}),
         NEW b \in 1 .. NumBitMats(conf.dim), NEW c \in 1 .. Width(conf.dim, "objfold"), NEW bytes \in StaleBytes
  PROVE  LET st     == Filtered(b, AndArray(c, bytes))
             loaded == FilteredLoad(store, conf.dim, b, c)
         IN IsRead(conf,
                   [bm |-> st.bm, subfold |-> st.subfold, objfold |-> st.objfold,
                    num_triples |-> CountTriples(st.bm), whole |-> FALSE, turned |-> FALSE],
                   Answer(loaded, Cardinality(loaded.bm), FALSE))
<1>. DEFINE o == Offset(store, conf.dim, b)
            L == LinesOf(store, conf)
            W == Width(conf.dim, "objfold")
            ids == RowsIn(L, o)
            cells == CellsIn(L, o)
            rows == RowsAt(b)
            mask == AndArray(c, bytes)
            dropped == {r \in ids : <<r, c>> \notin cells}
            st == Filtered(b, mask)
            loaded == FilteredLoad(store, conf.dim, b, c)
<1>1. SubfoldAt(b) = ids /\ IsRows(rows, L, o, ids, RowBytes(conf))
  BY ReadIs
<1>2. L \in SUBSET IdLine
  BY FileLinesAre
<1>3. StoredCells(store, conf.dim, o) = cells
  BY CellsOfLines
<1>4. GoodRows(rows) /\ Cells(rows) = cells
  BY <1>1, StoredRows
<1>5. W \in Nat /\ W < Word
  <2>1. "objfold" \in Axis
    BY DEF Axis
  <2>2. W \in Nat /\ W <= 8 * BytesFor(W) /\ 8 * BytesFor(W) \in Nat /\ 8 * BytesFor(W) < Word
    BY <2>1, Widths
  <2>. HIDE DEF W
  <2>. QED
    BY <2>2, WordAssumption
<1>6. c \in Nat /\ c \in 1 .. W /\ c \in 1 .. Word - 1
  BY <1>5, WordAssumption
<1>7. bytes \in Nat
  BY StaleAssumption
<1>8. Loose(mask) /\ Bits(mask) = {c}
  BY <1>6, <1>7, MaskIs
<1>9. st = FilterRows(rows, ids, mask)[Len(rows)]
  BY <1>1 DEF Filtered
<1>10. ids \in SUBSET Nat /\ ids \in SUBSET Int
  BY <1>2 DEF RowsIn, IdLine, Id
<1>11. Seen(rows, Len(rows)) = ids
  BY <1>1 DEF IsRows, Seen
<1>12. InOrder(rows)
  BY <1>4 DEF GoodRows
<1>. HIDE DEF o, L, W, ids, cells, rows, mask
<1>13. \A k \in 1 .. Len(rows) : rows[k].rowid \in ids /\ Bits(rows[k].data) = ColsIn(L, o, rows[k].rowid)
  <2>1. TAKE k \in 1 .. Len(rows)
  <2>2. rows[k].rowid \in ids /\ IsRow(rows[k].data, ColsIn(L, o, rows[k].rowid), 8 * RowBytes(conf))
    BY <1>1 DEF IsRows
  <2>. QED
    BY <2>2, RowIsCanonical
<1>14. \A r : <<r, c>> \in cells <=> c \in ColsIn(L, o, r)
  <2>1. TAKE r
  <2>2. <<r, c>> \in cells <=> \E l \in L : l.bm = o /\ l.row = r /\ l.col = c
    BY DEF cells, CellsIn
  <2>3. c \in ColsIn(L, o, r) <=> \E l \in L : l.bm = o /\ l.row = r /\ l.col = c
    BY DEF ColsIn
  <2>. QED
    BY <2>2, <2>3
<1>15. IsDropped(rows, c, dropped)
  BY <1>11, <1>13, <1>14 DEF IsDropped
<1>. HIDE DEF dropped, st
<1>16. IsFiltered(rows, ids, c, dropped, Len(rows), st)
  BY <1>6, <1>8, <1>9, <1>10, <1>12, <1>15, FilterLoop
<1>17. dropped \subseteq ids
  BY DEF dropped
<1>18. dropped \cap Seen(rows, Len(rows)) = dropped /\ (ids \subseteq dropped <=> ids = dropped)
  BY <1>11, <1>17
<1>19. /\ st.subfold = ids \ {ByteOf(d) + 1 : d \in dropped}
       /\ st.objfold = IF ids = dropped THEN {} ELSE {c}
       /\ GoodRows(st.bm)
       /\ Cells(st.bm) = {<<Filed(dropped, r), c>> : r \in ids \ dropped}
  BY <1>11, <1>16, <1>18 DEF IsFiltered
<1>20. loaded.bm = Cells(st.bm) /\ loaded.subfold = st.subfold /\ loaded.objfold = st.objfold
  <2>1. SimpleFold(cells, "subfold") = ids
    <3>1. \A l \in L : Coord(<<l.row, l.col>>, "subfold") = l.row
      BY DEF Coord
    <3>. QED
      BY <3>1 DEF SimpleFold, cells, CellsIn, ids, RowsIn
  <2>2. StoredCells(store, conf.dim, Offset(store, conf.dim, b)) = cells
    BY <1>3 DEF o
  <2>. DEFINE all == StoredCells(store, conf.dim, Offset(store, conf.dim, b))
              from == SimpleFold(all, "subfold")
              without == {r \in from : <<r, c>> \notin all}
  <2>3. /\ loaded.bm = {<<Filed(without, r), c>> : r \in from \ without}
        /\ loaded.subfold = from \ {ByteOf(d) + 1 : d \in without}
        /\ loaded.objfold = IF from = without THEN {} ELSE {c}
    BY DEF FilteredLoad, Filed
  <2>4. from = ids
    BY <2>1, <2>2
  <2>5. without = dropped
    <3>1. all = cells
      BY <2>2
    <3>. HIDE DEF all, from
    <3>. QED
      BY <2>4, <3>1 DEF dropped
  <2>. HIDE DEF from, without
  <2>6. {<<Filed(without, r), c>> : r \in from \ without} = {<<Filed(dropped, r), c>> : r \in ids \ dropped}
    BY <2>4, <2>5
  <2>. QED
    BY <1>19, <2>3, <2>4, <2>5, <2>6
<1>21. Cells(st.bm) \subseteq Id \X (1 .. W)
  <2>1. st.bm \in Seq(MatRow) /\ DOMAIN st.bm = 1 .. Len(st.bm)
    BY <1>19 DEF GoodRows, InOrder
  <2>2. \A x \in MatRow : x.rowid \in Id
    BY DEF MatRow
  <2>3. \A k \in 1 .. Len(st.bm) : st.bm[k].rowid \in Id
    BY <2>1, <2>2
  <2>4. \A p \in Cells(st.bm) : p[1] \in Id
    <3>1. TAKE p \in Cells(st.bm)
    <3>2. PICK k \in 1 .. Len(st.bm) : p \in {st.bm[k].rowid} \X Bits(st.bm[k].data)
      BY <2>1, CellOfRows
    <3>. QED
      BY <2>3, <3>2
  <2>. HIDE DEF Id
  <2>5. \A p \in Cells(st.bm) : p = <<p[1], c>>
    BY <1>19
  <2>. QED
    BY <1>6, <2>4, <2>5
<1>22. CountTriples(st.bm) = Cardinality(Cells(st.bm)) /\ IsFiniteSet(Cells(st.bm))
  BY <1>19, CountIsCells DEF GoodRows
<1>23. CountTriples(st.bm) \in Nat
  BY <1>22, FS_CardinalityType
<1>24. st.subfold \in SUBSET Nat /\ st.objfold \in SUBSET Nat
  BY <1>6, <1>10, <1>19
<1>25. Answer(loaded, Cardinality(loaded.bm), FALSE)
       = [bm |-> Cells(st.bm), subfold |-> st.subfold, objfold |-> st.objfold,
          num_triples |-> CountTriples(st.bm), whole |-> FALSE, turned |-> FALSE]
  BY <1>20, <1>22 DEF Answer
<1>26. IsRead(conf, [bm |-> st.bm, subfold |-> st.subfold, objfold |-> st.objfold,
                     num_triples |-> CountTriples(st.bm), whole |-> FALSE, turned |-> FALSE],
                    [bm |-> Cells(st.bm), subfold |-> st.subfold, objfold |-> st.objfold,
                     num_triples |-> CountTriples(st.bm), whole |-> FALSE, turned |-> FALSE])
  <2>1. Cells(st.bm) \subseteq Id \X (1 .. Width(conf.dim, "objfold"))
    BY <1>21 DEF W
  <2>. QED
    BY <1>19, <1>23, <1>24, <2>1, ReadBitMat
<1>. QED
  BY <1>25, <1>26 DEF st, mask

----------------------------------------------------------------------------
(* simple_unfold.                                                          *)

\* The rows that stay are in order, and are all of them.
LEMMA KeptIs ==
  ASSUME NEW rows, InOrder(rows), NEW which \in SUBSET (1 .. Len(rows))
  PROVE  LET kept == Kept(rows, which)
         IN /\ InOrder(kept)
            /\ \A k \in 1 .. Len(kept) : \E j \in which : kept[k] = rows[j]
            /\ \A j \in which : \E k \in 1 .. Len(kept) : kept[k] = rows[j]
<1>. DEFINE n == Len(rows)
            m == Cardinality(which)
            a == Ascending(which)
            kept == Kept(rows, which)
<1>1. /\ rows \in Seq(MatRow) /\ n \in Nat
      /\ \A k \in 1 .. n : rows[k] \in MatRow /\ Loose(rows[k].data)
      /\ \A k, l \in 1 .. n : k < l => rows[k].rowid < rows[l].rowid
  BY DEF InOrder
<1>2. IsFiniteSet(which) /\ which \in SUBSET Int
  <2>1. IsFiniteSet(1 .. n)
    BY <1>1, FS_Interval
  <2>2. which \in SUBSET (1 .. n)
    OBVIOUS
  <2>. HIDE DEF n
  <2>3. IsFiniteSet(which)
    BY <2>1, <2>2, FS_Subset
  <2>. QED
    BY <1>1, <2>2, <2>3
<1>3. /\ m \in Nat /\ a \in [1 .. m -> which]
      /\ \A i, j \in 1 .. m : i < j => a[i] < a[j]
      /\ \A x \in which : \E i \in 1 .. m : a[i] = x
  BY <1>2, AscendingIs
<1>4. kept = [i \in 1 .. m |-> rows[a[i]]]
  BY DEF Kept
<1>. HIDE DEF n, m, a, kept
<1>5. \A i \in 1 .. m : a[i] \in which /\ a[i] \in 1 .. n
  BY <1>3 DEF n
<1>6. \A i \in 1 .. m : rows[a[i]] \in MatRow
  BY <1>1, <1>5
<1>7. kept \in Seq(MatRow) /\ Len(kept) = m /\ \A i \in 1 .. m : kept[i] = rows[a[i]]
  <2>. HIDE DEF MatRow
  <2>. QED
    BY <1>3, <1>4, <1>6
<1>8. \A i \in 1 .. m : Loose(kept[i].data)
  BY <1>1, <1>5, <1>7
<1>9. \A i, j \in 1 .. m : i < j => kept[i].rowid < kept[j].rowid
  <2>1. SUFFICES ASSUME NEW i \in 1 .. m, NEW j \in 1 .. m, i < j PROVE kept[i].rowid < kept[j].rowid
    OBVIOUS
  <2>2. a[i] < a[j] /\ a[i] \in 1 .. n /\ a[j] \in 1 .. n
    BY <1>3, <1>5, <2>1
  <2>3. rows[a[i]].rowid < rows[a[j]].rowid
    BY <1>1, <2>2
  <2>. QED
    BY <1>7, <2>3
<1>10. InOrder(kept)
  BY <1>7, <1>8, <1>9 DEF InOrder
<1>11. \A k \in 1 .. Len(kept) : \E j \in which : kept[k] = rows[j]
  BY <1>5, <1>7
<1>12. \A j \in which : \E k \in 1 .. Len(kept) : kept[k] = rows[j]
  BY <1>3, <1>7
<1>. QED
  BY <1>10, <1>11, <1>12 DEF kept

LEMMA GoodKept ==
  ASSUME NEW rows, InOrder(rows), NEW which \in SUBSET (1 .. Len(rows)), \A k \in which : Bits(rows[k].data) # {}
  PROVE  /\ GoodRows(Kept(rows, which))
         /\ \A p : p \in Cells(Kept(rows, which))
                   <=> \E k \in which : p \in {rows[k].rowid} \X Bits(rows[k].data)
<1>. DEFINE kept == Kept(rows, which)
<1>1. /\ InOrder(kept)
      /\ \A k \in 1 .. Len(kept) : \E j \in which : kept[k] = rows[j]
      /\ \A j \in which : \E k \in 1 .. Len(kept) : kept[k] = rows[j]
  BY KeptIs
<1>. HIDE DEF kept
<1>2. GoodRows(kept)
  BY <1>1 DEF GoodRows
<1>3. DOMAIN kept = 1 .. Len(kept)
  BY <1>1 DEF InOrder
<1>. DEFINE In(p, row) == p \in {row.rowid} \X Bits(row.data)
<1>4. \A p : p \in Cells(kept) <=> \E k \in 1 .. Len(kept) : In(p, kept[k])
  BY <1>3, CellOfRows
<1>5. \A p : p \in Cells(kept) <=> \E k \in which : In(p, rows[k])
  <2>. HIDE DEF In
  <2>. QED
    BY <1>1, <1>4
<1>. QED
  BY <1>2, <1>5 DEF kept

\* By its rows.
LEMMA RowsUnfolded ==
  ASSUME NEW rows, GoodRows(rows), NEW mask
  PROVE  LET kept == Kept(rows, {k \in DOMAIN rows : rows[k].rowid \in mask})
         IN GoodRows(kept) /\ Cells(kept) = SimpleUnfold(Cells(rows), "subfold", mask)
<1>. DEFINE which == {k \in DOMAIN rows : rows[k].rowid \in mask}
            kept == Kept(rows, which)
<1>1. InOrder(rows) /\ DOMAIN rows = 1 .. Len(rows) /\ \A k \in 1 .. Len(rows) : Bits(rows[k].data) # {}
  BY DEF GoodRows, InOrder
<1>2. which \in SUBSET (1 .. Len(rows)) /\ \A k \in which : Bits(rows[k].data) # {}
  BY <1>1
<1>3. \A k : k \in which <=> k \in 1 .. Len(rows) /\ rows[k].rowid \in mask
  BY <1>1
<1>. HIDE DEF which
<1>4. /\ GoodRows(kept)
      /\ \A p : p \in Cells(kept) <=> \E k \in which : p \in {rows[k].rowid} \X Bits(rows[k].data)
  BY <1>1, <1>2, GoodKept
<1>5. \A p : p \in Cells(rows) <=> \E k \in 1 .. Len(rows) : p \in {rows[k].rowid} \X Bits(rows[k].data)
  BY <1>1, CellOfRows
<1>. HIDE DEF kept
<1>6. \A p : p \in Cells(kept) <=> p \in Cells(rows) /\ p[1] \in mask
  BY <1>3, <1>4, <1>5
<1>7. \A p : Coord(p, "subfold") = p[1]
  BY DEF Coord
<1>8. Cells(kept) = SimpleUnfold(Cells(rows), "subfold", mask)
  BY <1>6, <1>7 DEF SimpleUnfold
<1>. QED
  BY <1>4, <1>8 DEF kept, which

\* By its columns.
LEMMA ColumnsUnfolded ==
  ASSUME conf \in Conf, NEW rows, GoodRows(rows), Cells(rows) \subseteq Id \X (1 .. Width(conf.dim, "objfold")),
         NEW mask \in SUBSET (1 .. Width(conf.dim, "objfold"))
  PROVE  /\ GoodRows(UnfoldRows(rows, mask))
         /\ Cells(UnfoldRows(rows, mask)) = SimpleUnfold(Cells(rows), "objfold", mask)
<1>. DEFINE W == Width(conf.dim, "objfold")
            coded == Compress(mask, 8 * ObjectBytes)
            and == [k \in DOMAIN rows |-> [rows[k] EXCEPT !.data = DgapAnd(@, coded)]]
            which == {k \in DOMAIN and : ~IsZero(and[k].data)}
            kept == Kept(and, which)
            w == 8 * ObjectBytes
            n == Len(rows)
<1>1. W \in Nat \ {0} /\ W <= w /\ w < Word /\ w \in Nat \ {0}
  <2>1. "objfold" \in Axis
    BY DEF Axis
  <2>2. /\ W \in Nat \ {0} /\ 8 * BytesFor(W) < Word /\ BytesFor(W) \in Nat /\ BytesFor(W) >= 1
        /\ W <= 8 * BytesFor(W) /\ 8 * BytesFor(W) \in Nat
    BY <2>1, Widths
  <2>3. w = 8 * BytesFor(W)
    BY DEF ObjectBytes
  <2>. HIDE DEF W, w
  <2>. QED
    BY <2>2, <2>3
<1>2. mask \in SUBSET (1 .. w)
  BY <1>1
<1>3. IsRow(coded, mask, w)
  <2>. HIDE DEF w
  <2>1. IsRow(Compress(mask, w), mask, w)
    BY <1>1, <1>2, HasRow
  <2>. QED
    BY <2>1 DEF w
<1>4. Bits(coded) = mask /\ Loose(coded)
  BY <1>3, RowIsCanonical
<1>5. CountTriplesInRow(coded) = Cardinality(mask)
  BY <1>4, CountIsBits
<1>6. /\ rows \in Seq(MatRow) /\ n \in Nat /\ DOMAIN rows = 1 .. n
      /\ \A k \in 1 .. n : rows[k] \in MatRow /\ Loose(rows[k].data) /\ Bits(rows[k].data) # {}
      /\ \A k, l \in 1 .. n : k < l => rows[k].rowid < rows[l].rowid
  BY DEF GoodRows, InOrder
<1>7. \A p : p \in Cells(rows) <=> \E k \in 1 .. Len(rows) : p \in {rows[k].rowid} \X Bits(rows[k].data)
  BY <1>6, CellOfRows
<1>8. UnfoldRows(rows, mask) = IF CountTriplesInRow(coded) = W THEN rows ELSE kept
  BY DEF UnfoldRows
<1>9. \A p : Coord(p, "objfold") = p[2]
  BY DEF Coord
<1>. HIDE DEF coded, W, w
<1>10. CASE CountTriplesInRow(coded) = W
  <2>1. IsFiniteSet(1 .. W) /\ Cardinality(1 .. W) = W
    <3>1. IsFiniteSet(1 .. W) /\ Cardinality(1 .. W) = IF 1 > W THEN 0 ELSE W - 1 + 1
      BY <1>1, FS_Interval
    <3>. QED
      BY <1>1, <3>1
  <2>2. mask \in SUBSET (1 .. W)
    BY DEF W
  <2>3. mask = 1 .. W
    BY <1>5, <1>10, <2>1, <2>2, FS_Subset
  <2>4. \A p \in Cells(rows) : p[2] \in mask
    BY <2>3 DEF W
  <2>5. Cells(rows) = SimpleUnfold(Cells(rows), "objfold", mask)
    BY <1>9, <2>4 DEF SimpleUnfold
  <2>. QED
    BY <1>8, <1>10, <2>5
<1>11. CASE CountTriplesInRow(coded) # W
  <2>1. \A k \in 1 .. n : LET both == DgapAnd(rows[k].data, coded)
                          IN Loose(both) /\ Bits(both) = Bits(rows[k].data) \cap mask
    BY <1>4, <1>6, DgapAndMeets
  <2>2. \A k \in 1 .. n : and[k] = [rows[k] EXCEPT !.data = DgapAnd(rows[k].data, coded)]
    BY <1>6
  <2>3. \A k \in 1 .. n : and[k] \in MatRow /\ and[k].rowid = rows[k].rowid
                          /\ and[k].data = DgapAnd(rows[k].data, coded)
    <3>1. TAKE k \in 1 .. n
    <3>2. DgapAnd(rows[k].data, coded) \in Row
      BY <2>1, LooseEnds
    <3>. QED
      BY <1>6, <2>2, <3>2 DEF MatRow
  <2>4. and \in Seq(MatRow) /\ Len(and) = n /\ DOMAIN and = 1 .. n
    <3>1. DOMAIN and = 1 .. n
      BY <1>6
    <3>2. and = [k \in 1 .. n |-> and[k]]
      BY <1>6
    <3>. HIDE DEF and, MatRow, n
    <3>. QED
      BY <1>6, <2>3, <3>1, <3>2
  <2>. HIDE DEF and
  <2>5. InOrder(and)
    BY <1>6, <2>1, <2>3, <2>4 DEF InOrder
  <2>6. \A k : k \in which <=> k \in 1 .. n /\ Bits(rows[k].data) \cap mask # {}
    <3>1. TAKE k
    <3>2. k \in which <=> k \in 1 .. n /\ ~IsZero(and[k].data)
      BY <2>4
    <3>3. k \in 1 .. n => (IsZero(and[k].data) <=> Bits(rows[k].data) \cap mask = {})
      BY <2>1, <2>3, ZeroIsNoBit
    <3>. QED
      BY <3>2, <3>3
  <2>. HIDE DEF which
  <2>7. which \in SUBSET (1 .. Len(and)) /\ \A k \in which : Bits(and[k].data) # {}
    BY <2>1, <2>3, <2>4, <2>6
  <2>8. /\ GoodRows(kept)
        /\ \A p : p \in Cells(kept) <=> \E k \in which : p \in {and[k].rowid} \X Bits(and[k].data)
    BY <2>5, <2>7, GoodKept
  <2>. HIDE DEF kept
  <2>9. \A k \in which : and[k].rowid = rows[k].rowid /\ Bits(and[k].data) = Bits(rows[k].data) \cap mask /\ k \in 1 .. n
    BY <2>1, <2>3, <2>6
  <2>10. \A p : p \in Cells(kept) <=> \E k \in which : p \in {rows[k].rowid} \X (Bits(rows[k].data) \cap mask)
    BY <2>8, <2>9
  <2>11. \A p : p \in Cells(kept) <=> p \in Cells(rows) /\ p[2] \in mask
    <3>1. ASSUME NEW p, p \in Cells(kept) PROVE p \in Cells(rows) /\ p[2] \in mask
      BY <1>7, <2>9, <2>10, <3>1
    <3>2. ASSUME NEW p, p \in Cells(rows), p[2] \in mask PROVE p \in Cells(kept)
      <4>1. PICK k \in 1 .. n : p \in {rows[k].rowid} \X Bits(rows[k].data)
        BY <1>7, <3>2
      <4>2. p[2] \in Bits(rows[k].data) \cap mask /\ k \in which
        BY <2>6, <3>2, <4>1
      <4>. QED
        BY <2>10, <4>1, <4>2
    <3>. QED
      BY <3>1, <3>2
  <2>12. Cells(kept) = SimpleUnfold(Cells(rows), "objfold", mask)
    BY <1>9, <2>11 DEF SimpleUnfold
  <2>. QED
    BY <1>8, <1>11, <2>8, <2>12
<1>. QED
  BY <1>10, <1>11

----------------------------------------------------------------------------
(* bitmat2.                                                                *)

ListOf(g)            == {Inverted(p) : p \in Cells(g.bm)}
ListBytes(c, turned) == BytesFor(TurnedWidth(c, turned, "subfold"))
Transposed(cells)    == {<<p[2], p[1]>> : p \in cells}

LEMMA TurnedWidths ==
  ASSUME NEW c \in Conf, NEW turned \in BOOLEAN
  PROVE  LET W == TurnedWidth(c, turned, "subfold")
         IN /\ W \in Nat /\ W <= 8 * ListBytes(c, turned) /\ ListBytes(c, turned) \in Nat
            /\ 8 * ListBytes(c, turned) < Word
            /\ TurnedWidth(c, ~turned, "objfold") = W
            /\ TurnedWidth(c, ~turned, "subfold") = TurnedWidth(c, turned, "objfold")
<1>. DEFINE axis == IF turned THEN "objfold" ELSE "subfold"
            W == TurnedWidth(c, turned, "subfold")
<1>1. axis \in Axis
  BY DEF Axis
<1>2. W = Width(c.dim, axis)
  BY DEF TurnedWidth
<1>3. /\ TurnedWidth(c, ~turned, "objfold") = W
      /\ TurnedWidth(c, ~turned, "subfold") = TurnedWidth(c, turned, "objfold")
  BY DEF TurnedWidth
<1>. HIDE DEF axis, W
<1>4. /\ Width(c.dim, axis) \in Nat \ {0} /\ 8 * BytesFor(Width(c.dim, axis)) < Word
      /\ BytesFor(Width(c.dim, axis)) \in Nat /\ Width(c.dim, axis) <= 8 * BytesFor(Width(c.dim, axis))
  BY <1>1, Widths
<1>5. ListBytes(c, turned) = BytesFor(Width(c.dim, axis))
  BY <1>2 DEF ListBytes, W
<1>. QED
  BY <1>2, <1>3, <1>4, <1>5 DEF W

\* The list of a whole bitmat.
LEMMA ListIs ==
  ASSUME NEW c \in Conf, NEW g, InMemory(c, g), g.whole
  PROVE  /\ ListOf(g) \in SUBSET IdLine /\ IsFiniteSet(ListOf(g))
         /\ \A l \in ListOf(g) : l.bm = 1
         /\ g.bm # << >> => ListOf(g) # {}
         /\ Fitting(ListOf(g), ListBytes(c, g.turned))
         /\ CellsIn(ListOf(g), 1) = Transposed(Cells(g.bm))
<1>. DEFINE cells == Cells(g.bm)
            L == ListOf(g)
            W == TurnedWidth(c, g.turned, "subfold")
            V == TurnedWidth(c, g.turned, "objfold")
<1>1. g \in MemType /\ GoodRows(g.bm) /\ cells \subseteq Id \X (1 .. V) /\ cells \subseteq (1 .. W) \X Id
  BY DEF InMemory
<1>2. g.turned \in BOOLEAN
  BY <1>1 DEF MemType
<1>3. /\ W \in Nat /\ W <= 8 * ListBytes(c, g.turned) /\ ListBytes(c, g.turned) \in Nat
      /\ 8 * ListBytes(c, g.turned) < Word
  BY <1>2, TurnedWidths
<1>4. IsFiniteSet(cells)
  BY <1>1, CountIsCells DEF GoodRows
<1>5. L = {Inverted(p) : p \in cells}
  BY DEF ListOf
<1>6. g.bm # << >> => cells # {}
  <2>1. SUFFICES ASSUME g.bm # << >> PROVE cells # {}
    OBVIOUS
  <2>2. g.bm \in Seq(MatRow) /\ DOMAIN g.bm = 1 .. Len(g.bm)
    BY <1>1 DEF GoodRows, InOrder
  <2>3. 1 \in 1 .. Len(g.bm)
    BY <2>1, <2>2
  <2>4. Bits(g.bm[1].data) # {}
    BY <1>1, <2>3 DEF GoodRows
  <2>5. PICK x : x \in Bits(g.bm[1].data)
    BY <2>4
  <2>6. <<g.bm[1].rowid, x>> \in cells
    BY <2>2, <2>3, <2>5, CellOfRows
  <2>. QED
    BY <2>6
<1>. HIDE DEF cells, L, W, V
<1>7. IsFiniteSet(L)
  <2>. DEFINE f == [p \in cells |-> Inverted(p)]
  <2>1. f \in Surjection(cells, L)
    BY <1>5 DEF Surjection
  <2>. QED
    BY <1>4, <2>1, FS_Surjection
<1>8. \A p \in cells : p = <<p[1], p[2]>> /\ p[1] \in Id /\ p[2] \in Id /\ p[1] <= W
  <2>1. TAKE p \in cells
  <2>2. p \in (1 .. W) \X Id
    BY <1>1
  <2>. QED
    BY <1>3, <2>2 DEF Id
<1>9. \A p \in cells : Inverted(p) \in IdLine /\ Inverted(p).bm = 1 /\ Inverted(p).row = p[2] /\ Inverted(p).col = p[1]
  <2>1. 1 \in Id
    BY DEF Id
  <2>. HIDE DEF Id
  <2>. QED
    BY <1>8, <2>1 DEF Inverted, IdLine
<1>10. L \in SUBSET IdLine /\ \A l \in L : l.bm = 1
  BY <1>5, <1>9
<1>11. g.bm # << >> => L # {}
  BY <1>5, <1>6
<1>12. \A l \in L : l.col <= 8 * ListBytes(c, g.turned)
  <2>1. TAKE l \in L
  <2>2. PICK p \in cells : l = Inverted(p)
    BY <1>5
  <2>3. l.col \in Nat /\ l.col <= W
    BY <1>8, <1>9, <2>2 DEF Id
  <2>. QED
    BY <1>3, <2>3
<1>13. CellsIn(L, 1) = Transposed(cells)
  <2>1. {k \in L : k.bm = 1} = L
    BY <1>10
  <2>2. CellsIn(L, 1) = {<<l.row, l.col>> : l \in L}
    BY <2>1 DEF CellsIn
  <2>3. {<<l.row, l.col>> : l \in L} = {<<p[2], p[1]>> : p \in cells}
    BY <1>5, <1>9
  <2>. QED
    BY <2>2, <2>3 DEF Transposed
<1>14. Fitting(L, ListBytes(c, g.turned))
  BY <1>3, <1>10, <1>12 DEF Fitting
<1>. QED
  BY <1>7, <1>10, <1>11, <1>13, <1>14 DEF L, cells

\* What is loaded from it.
LEMMA ListLoaded ==
  ASSUME NEW c \in Conf, NEW g, InMemory(c, g), g.whole, NEW rows,
         IsRows(rows, ListOf(g), 1, RowsIn(ListOf(g), 1), ListBytes(c, g.turned))
  PROVE  /\ InMemory(c, [g EXCEPT !.bm = rows, !.turned = ~@])
         /\ Cells(rows) = Transposed(Cells(g.bm))
         /\ [g EXCEPT !.bm = rows, !.turned = ~@].bm = rows
<1>. DEFINE h == [g EXCEPT !.bm = rows, !.turned = ~@]
            cells == Cells(g.bm)
            W == TurnedWidth(c, g.turned, "subfold")
            V == TurnedWidth(c, g.turned, "objfold")
<1>1. /\ g \in MemType /\ g.turned \in BOOLEAN
      /\ cells \subseteq Id \X (1 .. V) /\ cells \subseteq (1 .. W) \X Id
  BY DEF InMemory, MemType
<1>2. ListOf(g) \in SUBSET IdLine /\ CellsIn(ListOf(g), 1) = Transposed(cells)
  BY ListIs
<1>3. GoodRows(rows) /\ Cells(rows) = Transposed(cells)
  BY <1>2, RowsAreGood
<1>4. rows \in Seq(MatRow)
  BY <1>3 DEF GoodRows, InOrder
<1>5. h \in MemType /\ h.bm = rows /\ h.turned = ~g.turned /\ h.whole = g.whole
  <2>. DEFINE M == Seq(MatRow)
  <2>1. g \in [bm : M, subfold : SUBSET Nat, objfold : SUBSET Nat, num_triples : Nat, whole : BOOLEAN, turned : BOOLEAN]
    BY <1>1 DEF MemType
  <2>2. rows \in M
    BY <1>4
  <2>. HIDE DEF M
  <2>3. h \in [bm : M, subfold : SUBSET Nat, objfold : SUBSET Nat, num_triples : Nat, whole : BOOLEAN, turned : BOOLEAN]
        /\ h.bm = rows /\ h.turned = ~g.turned /\ h.whole = g.whole
    BY <2>1, <2>2
  <2>. QED
    BY <2>3 DEF MemType, M
<1>6. TurnedWidth(c, ~g.turned, "objfold") = W /\ TurnedWidth(c, ~g.turned, "subfold") = V
  BY <1>1, TurnedWidths
<1>. HIDE DEF h, cells, W, V, Id
<1>7. \A p \in cells : p[1] \in Id /\ p[2] \in Id /\ p[1] \in 1 .. W /\ p[2] \in 1 .. V
  <2>1. TAKE p \in cells
  <2>2. p \in Id \X (1 .. V) /\ p \in (1 .. W) \X Id
    BY <1>1
  <2>. QED
    BY <2>2
<1>8. Cells(rows) \subseteq Id \X (1 .. W) /\ Cells(rows) \subseteq (1 .. V) \X Id
  BY <1>3, <1>7 DEF Transposed
<1>9. InMemory(c, h)
  BY <1>3, <1>5, <1>6, <1>8 DEF InMemory
<1>. QED
  BY <1>3, <1>5, <1>9 DEF h, cells

----------------------------------------------------------------------------
(* The invariant.                                                          *)

\* Every offset that is written has room in the table, as README.md:83 asks: "the size
\* of the large metafile holding all the BitMats won't be greater than 4GB" for 4 bytes.
Fits == OnDisk => FileSize < 256 ^ TableColBytes

\* What was dumped when a line is read.
DumpedTo(at, s, c, last) ==
  IF at = "load" THEN BitMatsBefore(LinesOf(s, c), last) ELSE {l.bm : l \in LinesOf(s, c)}

\* Between two lines of the file.
IsLoading(s, c, queue, last, row, rows, fold, bit, obj) ==
  /\ IsBuilt(LinesOf(s, c), queue, last, row, rows, RowBytes(c))
  /\ IsFold(RowsBefore(LinesOf(s, c), last), fold, bit, IsCoded(c))
  /\ obj = IF IsPredicates(c) THEN {} ELSE FoldedTo(LinesOf(s, c), last)

\* Between two lines of a list.
IsListing(c, g, p, queue, last, row, rows) ==
  /\ g.whole /\ g.bm # << >> /\ p.bm = Transposed(Cells(g.bm))
  /\ IsBuilt(ListOf(g), queue, last, row, rows, ListBytes(c, g.turned))

\* A bitmat was read.
HasRead(c, at, g, p) ==
  /\ InMemory(c, g) /\ p \in AnswerType
  /\ at # "list" => Cells(g.bm) = p.bm
  /\ at = "read" => ~g.turned /\ [g EXCEPT !.bm = Cells(@)] = p

\* Every row has the same width.
AreRows(rows, bytes) ==
  rows \in Seq(MatRow) /\ \A k \in 1 .. Len(rows) : \E ids : IsRow(rows[k].data, ids, 8 * bytes)

DataInv == store \in Stores /\ conf \in Conf
FileInv == IsFile(store, conf, dump, table, DumpedTo(pc, store, conf, prev))
LoadInv == pc = "load" => IsLoading(store, conf, todo, prev, grow, bm, subfold, prevRowbit, objfold)
ListInv == pc = "list" => IsListing(conf, got, promise, todo, prev, grow, bm)
ReadInv == pc \notin {"load", "dumped"} => HasRead(conf, pc, got, promise)
RestInv == pc \notin {"load", "list"} =>
             /\ todo = << >> /\ AreRows(bm, ListBytes(conf, ~got.turned))
             /\ pc \in {"dumped", "read"} => bm = << >>
IdleInv == /\ prev \in IdLine \cup {NoLine} /\ grow \in BuiltRow
           /\ pc # "load" => subfold = (IF IsCoded(conf) THEN NoRow ELSE {}) /\ objfold = {}

IInv == DataInv /\ FileInv /\ LoadInv /\ ListInv /\ ReadInv /\ RestInv /\ IdleInv

----------------------------------------------------------------------------
(* What begins, and what is built next.                                    *)

LEMMA NothingBefore ==
  ASSUME NEW L \in SUBSET IdLine
  PROVE  RowsBefore(L, NoLine) = {} /\ BitMatsBefore(L, NoLine) = {}
<1>1. \A l \in L : l.bm >= 1 /\ l.bm \in Nat /\ l.row >= 1 /\ l.row \in Nat
  BY LineTypes
<1>2. NoLine.bm = 0 /\ NoLine.row = 0
  BY LineTypes
<1>. QED
  BY <1>1, <1>2 DEF RowsBefore, BitMatsBefore, RowsIn

LEMMA NoRows ==
  ASSUME NEW L, NEW b, NEW bytes
  PROVE  IsRows(<< >>, L, b, {}, bytes) /\ AreRows(<< >>, bytes)
BY DEF IsRows, AreRows

LEMMA BuildBegins ==
  ASSUME NEW L \in SUBSET IdLine, IsFiniteSet(L), NEW row, NEW bytes
  PROVE  IsBuilt(L, Sorted(L), NoLine, row, << >>, bytes)
<1>1. L \in SUBSET LineType /\ \A l \in L : Before(NoLine, l)
  BY LineTypes
<1>2. IsQueue(L, Sorted(L), NoLine)
  BY <1>1, SortedIs
<1>3. IsRows(<< >>, L, NoLine.bm, RowsBefore(L, NoLine), bytes)
  BY NothingBefore, NoRows
<1>. QED
  BY <1>2, <1>3 DEF IsBuilt, IsGrown

LEMMA RowsAreWide ==
  ASSUME NEW rows, NEW L, NEW b, NEW R, NEW bytes, IsRows(rows, L, b, R, bytes)
  PROVE  AreRows(rows, bytes)
BY DEF IsRows, AreRows

\* The row being built is one.
LEMMA GrownIsBuilt ==
  ASSUME NEW L, NEW queue, NEW last, last # NoLine, NEW row, NEW rows, NEW bytes,
         IsBuilt(L, queue, last, row, rows, bytes)
  PROVE  row \in BuiltRow
BY RowIsBuilt DEF IsBuilt, IsGrown

\* A line that is read.
LEMMA ReadIsLine ==
  ASSUME NEW L \in SUBSET IdLine, NEW queue, queue # << >>, NEW last, IsQueue(L, queue, last)
  PROVE  queue[1] \in L /\ queue[1] \in IdLine /\ queue[1] # NoLine /\ Follows(L, last, queue[1])
BY NextFollows, LineTypes DEF Follows

\* object_bytes.
LEMMA BuiltBytesAre ==
  /\ pc = "load" => BuiltBytes = RowBytes(conf)
  /\ pc = "list" /\ got.turned \in BOOLEAN => BuiltBytes = ListBytes(conf, got.turned)
  /\ pc \notin {"load", "list"} /\ got.turned \in BOOLEAN => BuiltBytes = ListBytes(conf, ~got.turned)
BY DEF BuiltBytes, BuiltAxis, OnDisk, RowBytes, ListBytes, TurnedWidth

LEMMA CompletedIs ==
  Completed = RowCompleted(grow, prev, BuiltBytes)
BY DEF Completed, RowCompleted

LEMMA FoldWithRow ==
  ASSUME store \in Stores, conf \in Conf, prev \in LinesOf(store, conf),
         IsFold(RowsBefore(LinesOf(store, conf), prev), subfold, prevRowbit, IsCoded(conf))
  PROVE  IsFold(RowsBefore(LinesOf(store, conf), prev) \cup {prev.row}, SubfoldWithRow,
                IF Compressed THEN prev.row ELSE prevRowbit, IsCoded(conf))
<1>. DEFINE L == LinesOf(store, conf)
            R == RowsBefore(L, prev)
            w == Width(conf.dim, "subfold")
<1>1. L \in SUBSET IdLine /\ WithinIds(L, conf)
  BY FileLinesAre
<1>2. IsCoded(conf) \in BOOLEAN /\ Compressed = IsCoded(conf)
  BY ConfIs, Widths DEF IsCoded, IsPredicates
<1>3. R \in SUBSET Nat /\ \A r \in R : r < prev.row
  <2>. HIDE DEF L
  <2>. QED
    BY <1>1, LineTypes DEF RowsBefore, RowsIn
<1>4. w \in Nat /\ w < Word
  <2>1. "subfold" \in Axis
    BY DEF Axis
  <2>2. w \in Nat /\ w <= 8 * BytesFor(w) /\ 8 * BytesFor(w) \in Nat /\ 8 * BytesFor(w) < Word
    BY <2>1, Widths
  <2>. HIDE DEF w
  <2>. QED
    BY <2>2, WordAssumption
<1>5. prev.row \in 1 .. Word - 1
  <2>1. prev.row \in 1 .. w
    BY <1>1 DEF WithinIds
  <2>. HIDE DEF w
  <2>. QED
    BY <1>4, <2>1, WordAssumption
<1>6. IsFold(R, subfold, prevRowbit, IsCoded(conf))
  OBVIOUS
<1>. HIDE DEF R
<1>7. IsFold(R \cup {prev.row},
             IF ~IsCoded(conf) THEN subfold \cup {prev.row}
             ELSE IF subfold = NoRow THEN Started(1 + prev.row - prevRowbit)
             ELSE Continued(subfold, prevRowbit, prev.row),
             IF IsCoded(conf) THEN prev.row ELSE prevRowbit, IsCoded(conf))
  BY <1>2, <1>3, <1>5, <1>6, FoldAdded
<1>. QED
  BY <1>2, <1>7 DEF SubfoldWithRow, R

\* A bitmat goes to the file, its offset to the table.
LEMMA Dumps ==
  ASSUME DataInv, Fits, OnDisk, prev \in LinesOf(store, conf),
         IsFile(store, conf, dump, table, BitMatsBefore(LinesOf(store, conf), prev)),
         IsRows(Append(bm, Completed), LinesOf(store, conf), prev.bm, RowsIn(LinesOf(store, conf), prev.bm),
                RowBytes(conf)),
         RowsIn(LinesOf(store, conf), prev.bm) = RowsBefore(LinesOf(store, conf), prev) \cup {prev.row},
         IsFold(RowsBefore(LinesOf(store, conf), prev), subfold, prevRowbit, IsCoded(conf)),
         NEW obj, ~IsPredicates(conf) => obj = FoldedFor(LinesOf(store, conf), prev.bm), DumpOut(obj)
  PROVE  IsFile(store, conf, dump', table', BitMatsBefore(LinesOf(store, conf), prev) \cup {prev.bm})
<1>. DEFINE L == LinesOf(store, conf)
            b == prev.bm
            rows == Append(bm, Completed)
            sub == SubfoldWithRow
            bit == IF Compressed THEN prev.row ELSE prevRowbit
            rec == Record(rows, sub, prev.row, obj)
            D == BitMatsBefore(L, prev)
            T == 256 ^ TableColBytes
            size == Offsets(dump)[Len(dump)]
<1>1. store \in Stores /\ conf \in Conf
  BY DEF DataInv
<1>2. L \in SUBSET IdLine /\ WithinIds(L, conf)
  BY <1>1, FileLinesAre
<1>3. IsFold(RowsIn(L, b), sub, bit, IsCoded(conf))
  BY <1>1, FoldWithRow
<1>4. IsCoded(conf) => bit = prev.row
  BY ConfIs
<1>5. b \in {l.bm : l \in L}
  OBVIOUS
<1>6. /\ IsFields(conf, rec) /\ Len(rec) >= 1
      /\ \A f : IsFields(conf, f) => HasRecord(store, conf, f \o rec, Len(f), b)
  <2>1. IsRows(rows, L, b, RowsIn(L, b), RowBytes(conf))
    OBVIOUS
  <2>. HIDE DEF rows, sub, bit
  <2>. QED
    BY <1>1, <1>3, <1>4, <1>5, <2>1, RecordIs
<1>7. D \in SUBSET (1 .. NumBitMats(conf.dim)) /\ b \in 1 .. NumBitMats(conf.dim) /\ \A x \in D : x < b
  <2>. HIDE DEF L
  <2>. QED
    BY <1>2, <1>5 DEF BitMatsBefore, WithinIds
<1>8. IsFile(store, conf, dump, table, D)
  OBVIOUS
<1>9. dump' = dump \o rec /\ table' = [table EXCEPT ![b] = OffsetOf]
  BY DEF DumpOut
<1>. HIDE DEF L, b, rec, D, T
<1>10. IsFields(conf, dump)
  BY <1>8 DEF IsFile
<1>11. HasRecord(store, conf, dump \o rec, Len(dump), b)
  BY <1>6, <1>10
<1>12. /\ IsFile(store, conf, dump \o rec, [table EXCEPT ![b] = size], D \cup {b})
       /\ size \in Nat
  BY <1>1, <1>6, <1>7, <1>8, <1>11, FileGoesOn
<1>13. OffsetOf = size % T /\ size < T
  BY DEF OffsetOf, FileSize, Fits, T
<1>14. T \in Nat \ {0}
  BY TableAssumption DEF T
<1>. HIDE DEF size
<1>15. OffsetOf = size
  <2>1. \A x \in Nat, y \in Nat \ {0} : x < y => x % y = x
    OBVIOUS
  <2>. QED
    BY <1>12, <1>13, <1>14, <2>1
<1>. QED
  BY <1>9, <1>12, <1>15 DEF size, D, L, b

----------------------------------------------------------------------------
(* Its steps.                                                              *)

LEMMA InitHolds ==
  ASSUME Init
  PROVE  IInv
<1>. DEFINE L == LinesOf(store, conf)
<1>1. store \in Stores /\ conf \in Conf /\ pc = "load" /\ prev = NoLine /\ grow = NoRow /\ bm = << >>
      /\ prevRowbit = 1 /\ objfold = {} /\ subfold = NoSubfold /\ dump = << >>
      /\ table = [b \in 1 .. NumBitMats(conf.dim) |-> 0] /\ todo = Sorted(L)
  BY DEF Init, LinesOf
<1>2. L \in SUBSET IdLine /\ IsFiniteSet(L)
  BY <1>1, FileLinesAre
<1>. HIDE DEF L
<1>3. IsBuilt(L, todo, prev, grow, bm, RowBytes(conf))
  BY <1>1, <1>2, BuildBegins
<1>4. RowsBefore(L, prev) = {} /\ BitMatsBefore(L, prev) = {} /\ FoldedTo(L, prev) = {}
  BY <1>1, <1>2, NothingBefore, NothingFolded
<1>5. IsFold({}, subfold, prevRowbit, IsCoded(conf))
  BY <1>1, ConfIs DEF IsFold, NoSubfold
<1>6. LoadInv
  BY <1>1, <1>3, <1>4, <1>5 DEF LoadInv, IsLoading, L
<1>7. FileInv
  BY <1>1, <1>4, FileBegins DEF FileInv, DumpedTo, L
<1>8. NoRow \in BuiltRow
  BY DEF NoRow, BuiltRow
<1>9. ListInv /\ ReadInv /\ RestInv /\ IdleInv
  BY <1>1, <1>8 DEF ListInv, ReadInv, RestInv, IdleInv
<1>. QED
  BY <1>1, <1>6, <1>7, <1>9 DEF IInv, DataInv

\* What a line that is read leaves alone.
Elsewhere == <<store, conf, got, promise, pc>>

\* In a list, it is the rows only that count.
LEMMA ListGoesOn ==
  ASSUME IInv, pc = "list", UNCHANGED Elsewhere, UNCHANGED <<subfold, objfold, dump, table>>,
         IsBuilt(ListOf(got), todo', prev', grow', bm', ListBytes(conf, got.turned)),
         prev' \in IdLine, prev' # NoLine
  PROVE  IInv'
<1>1. DataInv' /\ LoadInv' /\ RestInv'
  BY DEF IInv, DataInv, LoadInv, RestInv, Elsewhere
<1>2. FileInv'
  BY DEF IInv, FileInv, DumpedTo, Elsewhere
<1>3. ReadInv'
  BY DEF IInv, ReadInv, Elsewhere
<1>4. ListInv'
  BY DEF IInv, ListInv, IsListing, Elsewhere
<1>5. grow' \in BuiltRow
  BY GrownIsBuilt
<1>6. IdleInv'
  BY <1>5 DEF IInv, IdleInv, Elsewhere
<1>. QED
  BY <1>1, <1>2, <1>3, <1>4, <1>6 DEF IInv

\* In the file, also the folds and what was dumped.
LEMMA LoadGoesOn ==
  ASSUME IInv, pc = "load", UNCHANGED Elsewhere,
         IsLoading(store, conf, todo', prev', grow', bm', subfold', prevRowbit', objfold'),
         IsFile(store, conf, dump', table', BitMatsBefore(LinesOf(store, conf), prev')),
         prev' \in IdLine, prev' # NoLine
  PROVE  IInv'
<1>1. DataInv' /\ ListInv' /\ RestInv' /\ ReadInv'
  BY DEF IInv, DataInv, ListInv, RestInv, ReadInv, Elsewhere
<1>2. FileInv'
  BY DEF FileInv, DumpedTo, Elsewhere
<1>3. LoadInv'
  BY DEF LoadInv, Elsewhere
<1>4. grow' \in BuiltRow
  BY GrownIsBuilt DEF IsLoading
<1>5. IdleInv'
  BY <1>4 DEF IdleInv, Elsewhere
<1>. QED
  BY <1>1, <1>2, <1>3, <1>5 DEF IInv

LEMMA InList ==
  ASSUME IInv, pc = "list"
  PROVE  LET L == ListOf(got)
             bytes == ListBytes(conf, got.turned)
         IN /\ L \in SUBSET IdLine /\ L # {} /\ \A l \in L : l.bm = 1
            /\ Fitting(L, bytes)
            /\ IsBuilt(L, todo, prev, grow, bm, bytes) /\ IsQueue(L, todo, prev)
            /\ Completed = RowCompleted(grow, prev, bytes)
            /\ conf \in Conf /\ InMemory(conf, got) /\ got.whole /\ got.turned \in BOOLEAN
            /\ promise \in AnswerType /\ promise.bm = Transposed(Cells(got.bm))
            /\ ~OnDisk
<1>1. conf \in Conf /\ InMemory(conf, got) /\ got.whole /\ got.bm # << >> /\ promise \in AnswerType
      /\ promise.bm = Transposed(Cells(got.bm))
  BY DEF IInv, DataInv, ReadInv, HasRead, ListInv, IsListing
<1>2. got.turned \in BOOLEAN
  BY <1>1 DEF InMemory, MemType
<1>3. /\ ListOf(got) \in SUBSET IdLine /\ ListOf(got) # {} /\ \A l \in ListOf(got) : l.bm = 1
      /\ Fitting(ListOf(got), ListBytes(conf, got.turned))
  BY <1>1, ListIs
<1>4. IsBuilt(ListOf(got), todo, prev, grow, bm, ListBytes(conf, got.turned))
  BY DEF IInv, ListInv, IsListing
<1>5. IsQueue(ListOf(got), todo, prev)
  BY <1>4 DEF IsBuilt
<1>6. Completed = RowCompleted(grow, prev, ListBytes(conf, got.turned))
  BY <1>2, BuiltBytesAre, CompletedIs
<1>. QED
  BY <1>1, <1>2, <1>3, <1>4, <1>5, <1>6 DEF OnDisk

LEMMA InFile ==
  ASSUME IInv, pc = "load"
  PROVE  LET L == LinesOf(store, conf)
         IN /\ L \in SUBSET IdLine /\ L # {} /\ Fitting(L, RowBytes(conf))
            /\ IsLoading(store, conf, todo, prev, grow, bm, subfold, prevRowbit, objfold)
            /\ IsBuilt(L, todo, prev, grow, bm, RowBytes(conf)) /\ IsQueue(L, todo, prev)
            /\ IsFold(RowsBefore(L, prev), subfold, prevRowbit, IsCoded(conf))
            /\ objfold = IF IsPredicates(conf) THEN {} ELSE FoldedTo(L, prev)
            /\ Completed = RowCompleted(grow, prev, RowBytes(conf))
            /\ IsFile(store, conf, dump, table, BitMatsBefore(L, prev))
            /\ store \in Stores /\ conf \in Conf
            /\ \A col : ObjfoldWith(col) = IF IsPredicates(conf) THEN objfold ELSE objfold \cup {col}
            /\ OnDisk
<1>1. store \in Stores /\ conf \in Conf
  BY DEF IInv, DataInv
<1>2. LinesOf(store, conf) \in SUBSET IdLine /\ LinesOf(store, conf) # {} /\ Fitting(LinesOf(store, conf), RowBytes(conf))
  BY <1>1, FileLinesAre
<1>3. IsLoading(store, conf, todo, prev, grow, bm, subfold, prevRowbit, objfold)
  BY DEF IInv, LoadInv
<1>4. IsQueue(LinesOf(store, conf), todo, prev)
  BY <1>3 DEF IsLoading, IsBuilt
<1>5. Completed = RowCompleted(grow, prev, RowBytes(conf))
  BY BuiltBytesAre, CompletedIs
<1>6. IsFile(store, conf, dump, table, BitMatsBefore(LinesOf(store, conf), prev))
  BY DEF IInv, FileInv, DumpedTo
<1>7. \A col : ObjfoldWith(col) = IF IsPredicates(conf) THEN objfold ELSE objfold \cup {col}
  BY ConfIs DEF ObjfoldWith
<1>. QED
  BY <1>1, <1>2, <1>3, <1>4, <1>5, <1>6, <1>7 DEF IsLoading, OnDisk

LEMMA FirstLineKeeps ==
  ASSUME IInv, FirstLine
  PROVE  IInv'
<1>. DEFINE next == todo[1]
<1>1. /\ todo # << >> /\ prev = NoLine /\ prev' = next /\ todo' = Tail(todo) /\ grow' = Started(next.col)
      /\ bm' = bm /\ subfold' = subfold /\ prevRowbit' = prevRowbit /\ dump' = dump /\ table' = table
      /\ UNCHANGED Elsewhere
      /\ objfold' = IF OnDisk THEN ObjfoldWith(next.col) ELSE objfold
  BY DEF FirstLine, Reading, ReadLine, Elsewhere
<1>2. pc = "load" \/ pc = "list"
  BY DEF FirstLine, Reading
<1>. HIDE DEF next
<1>3. CASE pc = "list"
  <2>1. /\ ListOf(got) \in SUBSET IdLine /\ Fitting(ListOf(got), ListBytes(conf, got.turned)) /\ ~OnDisk
        /\ IsBuilt(ListOf(got), todo, prev, grow, bm, ListBytes(conf, got.turned)) /\ IsQueue(ListOf(got), todo, prev)
    BY <1>3, InList
  <2>2. IsBuilt(ListOf(got), todo', prev', grow', bm', ListBytes(conf, got.turned))
    BY <1>1, <2>1, BuildFirst DEF next
  <2>3. prev' \in IdLine /\ prev' # NoLine
    BY <1>1, <2>1, ReadIsLine DEF next
  <2>. QED
    BY <1>1, <1>3, <2>1, <2>2, <2>3, ListGoesOn
<1>4. CASE pc = "load"
  <2>. DEFINE L == LinesOf(store, conf)
  <2>1. /\ L \in SUBSET IdLine /\ Fitting(L, RowBytes(conf)) /\ OnDisk
        /\ IsBuilt(L, todo, prev, grow, bm, RowBytes(conf)) /\ IsQueue(L, todo, prev)
        /\ IsFold(RowsBefore(L, prev), subfold, prevRowbit, IsCoded(conf))
        /\ objfold = IF IsPredicates(conf) THEN {} ELSE FoldedTo(L, prev)
        /\ IsFile(store, conf, dump, table, BitMatsBefore(L, prev))
        /\ ObjfoldWith(next.col) = IF IsPredicates(conf) THEN objfold ELSE objfold \cup {next.col}
    BY <1>4, InFile
  <2>. HIDE DEF L
  <2>2. IsBuilt(L, todo', prev', grow', bm', RowBytes(conf))
    BY <1>1, <2>1, BuildFirst DEF next
  <2>3. next \in L /\ next \in IdLine /\ next # NoLine /\ Follows(L, NoLine, next)
    BY <1>1, <2>1, ReadIsLine DEF next
  <2>4. RowsBefore(L, NoLine) = {} /\ BitMatsBefore(L, NoLine) = {} /\ FoldedTo(L, NoLine) = {}
    BY <2>1, NothingBefore, NothingFolded
  <2>5. RowsBefore(L, next) = {}
    <3>1. next.bm # NoLine.bm
      BY <2>3, LineTypes
    <3>. QED
      BY <2>1, <2>3, <3>1, BitMatBegins
  <2>6. BitMatsBefore(L, next) = {}
    <3>1. \A l \in L : ~(l.bm < next.bm)
      <4>1. TAKE l \in L
      <4>2. Before(NoLine, l)
        BY <2>1, LineTypes
      <4>3. l = next \/ Before(next, l)
        BY <2>3, <4>2 DEF Follows
      <4>4. l.bm \in Nat /\ next.bm \in Nat
        BY <2>1, <2>3, LineTypes
      <4>. QED
        BY <4>3, <4>4 DEF Before
    <3>. QED
      BY <3>1 DEF BitMatsBefore
  <2>7. FoldedTo(L, next) = {next.col}
    BY <2>1, <2>3, FirstFolded
  <2>8. objfold' = IF IsPredicates(conf) THEN {} ELSE FoldedTo(L, prev')
    BY <1>1, <2>1, <2>4, <2>7
  <2>9. IsFold(RowsBefore(L, prev'), subfold', prevRowbit', IsCoded(conf))
    BY <1>1, <2>1, <2>4, <2>5
  <2>10. IsLoading(store, conf, todo', prev', grow', bm', subfold', prevRowbit', objfold')
    BY <2>2, <2>8, <2>9 DEF IsLoading, L
  <2>11. IsFile(store, conf, dump', table', BitMatsBefore(L, prev'))
    BY <1>1, <2>1, <2>4, <2>6
  <2>. QED
    BY <1>1, <1>4, <2>3, <2>10, <2>11, LoadGoesOn DEF L
<1>. QED
  BY <1>2, <1>3, <1>4

LEMMA SameRowKeeps ==
  ASSUME IInv, SameRow
  PROVE  IInv'
<1>. DEFINE next == todo[1]
<1>1. /\ todo # << >> /\ prev # NoLine /\ prev' = next /\ todo' = Tail(todo)
      /\ grow' = Continued(grow, prev.col, next.col)
      /\ bm' = bm /\ subfold' = subfold /\ prevRowbit' = prevRowbit /\ dump' = dump /\ table' = table
      /\ UNCHANGED Elsewhere
      /\ objfold' = IF OnDisk THEN ObjfoldWith(next.col) ELSE objfold
      /\ next.bm = prev.bm /\ next.row = prev.row
  BY DEF SameRow, Reading, ReadLine, NewRow, Elsewhere
<1>2. pc = "load" \/ pc = "list"
  BY DEF SameRow, Reading
<1>. HIDE DEF next
<1>3. CASE pc = "list"
  <2>1. /\ ListOf(got) \in SUBSET IdLine /\ Fitting(ListOf(got), ListBytes(conf, got.turned)) /\ ~OnDisk
        /\ IsBuilt(ListOf(got), todo, prev, grow, bm, ListBytes(conf, got.turned)) /\ IsQueue(ListOf(got), todo, prev)
    BY <1>3, InList
  <2>2. IsBuilt(ListOf(got), todo', prev', grow', bm', ListBytes(conf, got.turned))
    BY <1>1, <2>1, BuildSame DEF next
  <2>3. prev' \in IdLine /\ prev' # NoLine
    BY <1>1, <2>1, ReadIsLine DEF next
  <2>. QED
    BY <1>1, <1>3, <2>1, <2>2, <2>3, ListGoesOn
<1>4. CASE pc = "load"
  <2>. DEFINE L == LinesOf(store, conf)
  <2>1. /\ L \in SUBSET IdLine /\ Fitting(L, RowBytes(conf)) /\ OnDisk
        /\ IsBuilt(L, todo, prev, grow, bm, RowBytes(conf)) /\ IsQueue(L, todo, prev)
        /\ IsFold(RowsBefore(L, prev), subfold, prevRowbit, IsCoded(conf))
        /\ objfold = IF IsPredicates(conf) THEN {} ELSE FoldedTo(L, prev)
        /\ IsFile(store, conf, dump, table, BitMatsBefore(L, prev))
        /\ ObjfoldWith(next.col) = IF IsPredicates(conf) THEN objfold ELSE objfold \cup {next.col}
    BY <1>4, InFile
  <2>. HIDE DEF L
  <2>2. IsBuilt(L, todo', prev', grow', bm', RowBytes(conf))
    BY <1>1, <2>1, BuildSame DEF next
  <2>3. next \in L /\ next \in IdLine /\ next # NoLine /\ Follows(L, prev, next)
    BY <1>1, <2>1, ReadIsLine DEF next
  <2>4. prev \in L
    BY <1>1, <2>1 DEF IsQueue
  <2>5. RowsBefore(L, next) = RowsBefore(L, prev) /\ BitMatsBefore(L, next) = BitMatsBefore(L, prev)
    BY <1>1 DEF RowsBefore, BitMatsBefore
  <2>6. FoldedTo(L, next) = FoldedTo(L, prev) \cup {next.col}
    BY <1>1, <2>1, <2>3, <2>4, MoreFolded
  <2>7. objfold' = IF IsPredicates(conf) THEN {} ELSE FoldedTo(L, prev')
    BY <1>1, <2>1, <2>6
  <2>8. IsLoading(store, conf, todo', prev', grow', bm', subfold', prevRowbit', objfold')
    BY <1>1, <2>1, <2>2, <2>5, <2>7 DEF IsLoading, L
  <2>9. IsFile(store, conf, dump', table', BitMatsBefore(L, prev'))
    BY <1>1, <2>1, <2>5
  <2>. QED
    BY <1>1, <1>4, <2>3, <2>8, <2>9, LoadGoesOn DEF L
<1>. QED
  BY <1>2, <1>3, <1>4

LEMMA NextRowKeeps ==
  ASSUME IInv, NextRow
  PROVE  IInv'
<1>. DEFINE next == todo[1]
<1>1. /\ todo # << >> /\ prev # NoLine /\ prev' = next /\ todo' = Tail(todo)
      /\ grow' = Started(next.col) /\ bm' = Append(bm, Completed)
      /\ dump' = dump /\ table' = table /\ UNCHANGED Elsewhere
      /\ next.bm = prev.bm /\ next.row # prev.row
  BY DEF NextRow, Reading, ReadLine, NewRow, Elsewhere
<1>2. IF OnDisk
      THEN /\ subfold' = SubfoldWithRow
           /\ prevRowbit' = IF Compressed THEN prev.row ELSE prevRowbit
           /\ objfold' = ObjfoldWith(next.col)
      ELSE subfold' = subfold /\ objfold' = objfold
  BY DEF NextRow
<1>3. pc = "load" \/ pc = "list"
  BY DEF NextRow, Reading
<1>. HIDE DEF next
<1>4. CASE pc = "list"
  <2>1. /\ ListOf(got) \in SUBSET IdLine /\ Fitting(ListOf(got), ListBytes(conf, got.turned)) /\ ~OnDisk
        /\ IsBuilt(ListOf(got), todo, prev, grow, bm, ListBytes(conf, got.turned)) /\ IsQueue(ListOf(got), todo, prev)
        /\ Completed = RowCompleted(grow, prev, ListBytes(conf, got.turned))
    BY <1>4, InList
  <2>2. IsBuilt(ListOf(got), todo', prev', grow', bm', ListBytes(conf, got.turned))
    BY <1>1, <2>1, BuildRow DEF next
  <2>3. prev' \in IdLine /\ prev' # NoLine
    BY <1>1, <2>1, ReadIsLine DEF next
  <2>. QED
    BY <1>1, <1>2, <1>4, <2>1, <2>2, <2>3, ListGoesOn
<1>5. CASE pc = "load"
  <2>. DEFINE L == LinesOf(store, conf)
  <2>1. /\ L \in SUBSET IdLine /\ Fitting(L, RowBytes(conf)) /\ OnDisk
        /\ IsBuilt(L, todo, prev, grow, bm, RowBytes(conf)) /\ IsQueue(L, todo, prev)
        /\ IsFold(RowsBefore(L, prev), subfold, prevRowbit, IsCoded(conf))
        /\ objfold = IF IsPredicates(conf) THEN {} ELSE FoldedTo(L, prev)
        /\ IsFile(store, conf, dump, table, BitMatsBefore(L, prev))
        /\ ObjfoldWith(next.col) = IF IsPredicates(conf) THEN objfold ELSE objfold \cup {next.col}
        /\ Completed = RowCompleted(grow, prev, RowBytes(conf))
        /\ store \in Stores /\ conf \in Conf
    BY <1>5, InFile
  <2>2. prev \in L
    BY <1>1, <2>1 DEF IsQueue
  <2>3. IsFold(RowsBefore(L, prev) \cup {prev.row}, subfold', prevRowbit', IsCoded(conf))
    BY <1>2, <2>1, <2>2, FoldWithRow
  <2>. HIDE DEF L
  <2>4. /\ IsBuilt(L, todo', prev', grow', bm', RowBytes(conf))
        /\ RowsBefore(L, next) = RowsBefore(L, prev) \cup {prev.row}
    BY <1>1, <2>1, BuildRow DEF next
  <2>5. next \in L /\ next \in IdLine /\ next # NoLine /\ Follows(L, prev, next)
    BY <1>1, <2>1, ReadIsLine DEF next
  <2>6. BitMatsBefore(L, next) = BitMatsBefore(L, prev)
    BY <1>1 DEF BitMatsBefore
  <2>7. FoldedTo(L, next) = FoldedTo(L, prev) \cup {next.col}
    BY <1>1, <2>1, <2>2, <2>5, MoreFolded
  <2>8. objfold' = IF IsPredicates(conf) THEN {} ELSE FoldedTo(L, prev')
    BY <1>1, <1>2, <2>1, <2>7
  <2>9. IsLoading(store, conf, todo', prev', grow', bm', subfold', prevRowbit', objfold')
    BY <1>1, <2>3, <2>4, <2>8 DEF IsLoading, L
  <2>10. IsFile(store, conf, dump', table', BitMatsBefore(L, prev'))
    BY <1>1, <2>1, <2>6
  <2>. QED
    BY <1>1, <1>5, <2>5, <2>9, <2>10, LoadGoesOn DEF L
<1>. QED
  BY <1>3, <1>4, <1>5

LEMMA NextBitMatKeeps ==
  ASSUME IInv, Fits, NextBitMat
  PROVE  IInv'
<1>. DEFINE next == todo[1]
            L == LinesOf(store, conf)
<1>1. /\ todo # << >> /\ prev # NoLine /\ prev' = next /\ todo' = Tail(todo)
      /\ grow' = Started(next.col) /\ bm' = << >> /\ subfold' = NoSubfold /\ prevRowbit' = 1 /\ objfold' = {}
      /\ UNCHANGED Elsewhere
      /\ next.bm # prev.bm /\ DumpOut(ObjfoldWith(next.col))
  BY DEF NextBitMat, Reading, ReadLine, NewRow, Elsewhere
<1>2. pc = "load" \/ pc = "list"
  BY DEF NextBitMat, Reading
<1>3. pc # "list"
  <2>1. SUFFICES ASSUME pc = "list" PROVE FALSE
    OBVIOUS
  <2>2. ListOf(got) \in SUBSET IdLine /\ (\A l \in ListOf(got) : l.bm = 1) /\ IsQueue(ListOf(got), todo, prev)
    BY <2>1, InList
  <2>3. next \in ListOf(got)
    BY <1>1, <2>2, ReadIsLine
  <2>4. prev \in ListOf(got)
    BY <1>1, <2>2 DEF IsQueue
  <2>. QED
    BY <1>1, <2>2, <2>3, <2>4
<1>4. pc = "load"
  BY <1>2, <1>3
<1>5. /\ L \in SUBSET IdLine /\ Fitting(L, RowBytes(conf)) /\ OnDisk
      /\ IsBuilt(L, todo, prev, grow, bm, RowBytes(conf)) /\ IsQueue(L, todo, prev)
      /\ IsFold(RowsBefore(L, prev), subfold, prevRowbit, IsCoded(conf))
      /\ objfold = IF IsPredicates(conf) THEN {} ELSE FoldedTo(L, prev)
      /\ IsFile(store, conf, dump, table, BitMatsBefore(L, prev))
      /\ ObjfoldWith(next.col) = IF IsPredicates(conf) THEN objfold ELSE objfold \cup {next.col}
      /\ Completed = RowCompleted(grow, prev, RowBytes(conf))
      /\ store \in Stores /\ conf \in Conf
  BY <1>4, InFile
<1>. HIDE DEF next
<1>6. next \in L /\ next \in IdLine /\ next # NoLine /\ Follows(L, prev, next)
  BY <1>1, <1>5, ReadIsLine DEF next
<1>7. prev \in L
  BY <1>1, <1>5 DEF IsQueue
<1>8. /\ IsBuilt(L, todo', prev', grow', bm', RowBytes(conf))
      /\ RowsBefore(L, next) = {}
      /\ IsRows(Append(bm, Completed), L, prev.bm, RowsIn(L, prev.bm), RowBytes(conf))
      /\ RowsIn(L, prev.bm) = RowsBefore(L, prev) \cup {prev.row}
      /\ BitMatsBefore(L, next) = BitMatsBefore(L, prev) \cup {prev.bm}
  <2>. HIDE DEF L
  <2>1. todo[1].bm # prev.bm /\ prev # NoLine /\ todo # << >>
    BY <1>1 DEF next
  <2>2. /\ IsBuilt(L, Tail(todo), todo[1], Started(todo[1].col), << >>, RowBytes(conf))
        /\ RowsBefore(L, todo[1]) = {}
        /\ IsRows(Append(bm, RowCompleted(grow, prev, RowBytes(conf))), L, prev.bm, RowsIn(L, prev.bm), RowBytes(conf))
        /\ RowsIn(L, prev.bm) = RowsBefore(L, prev) \cup {prev.row}
        /\ BitMatsBefore(L, todo[1]) = BitMatsBefore(L, prev) \cup {prev.bm}
    <3>. DEFINE queue == todo
                last == prev
                bytes == RowBytes(conf)
    <3>1. /\ Fitting(L, bytes) /\ queue # << >> /\ last # NoLine /\ IsBuilt(L, queue, last, grow, bm, bytes)
          /\ queue[1].bm # last.bm
      BY <1>5, <2>1
    <3>. HIDE DEF queue, last, bytes
    <3>2. /\ IsBuilt(L, Tail(queue), queue[1], Started(queue[1].col), << >>, bytes)
          /\ RowsBefore(L, queue[1]) = {}
          /\ IsRows(Append(bm, RowCompleted(grow, last, bytes)), L, last.bm, RowsIn(L, last.bm), bytes)
          /\ RowsIn(L, last.bm) = RowsBefore(L, last) \cup {last.row}
          /\ BitMatsBefore(L, queue[1]) = BitMatsBefore(L, last) \cup {last.bm}
      BY <3>1, BuildBitMat
    <3>. QED
      BY <3>2 DEF queue, last, bytes
  <2>. QED
    BY <1>1, <1>5, <2>2 DEF next
<1>9. FoldedTo(L, next) = {} /\ FoldedFor(L, prev.bm) = FoldedTo(L, prev) \cup {next.col}
  <2>. HIDE DEF L
  <2>. QED
    BY <1>1, <1>5, <1>6, <1>7, StrayFolded
<1>10. ~IsPredicates(conf) => ObjfoldWith(next.col) = FoldedFor(L, prev.bm)
  BY <1>5, <1>9
<1>11. DataInv
  BY DEF IInv
<1>12. IsFile(store, conf, dump', table', BitMatsBefore(L, prev) \cup {prev.bm})
  BY <1>1, <1>5, <1>7, <1>8, <1>10, <1>11, Dumps
<1>. HIDE DEF L
<1>13. IsFile(store, conf, dump', table', BitMatsBefore(L, prev'))
  BY <1>1, <1>8, <1>12
<1>14. IsFold(RowsBefore(L, prev'), subfold', prevRowbit', IsCoded(conf))
  BY <1>1, <1>8, ConfIs DEF IsFold, NoSubfold
<1>15. IsLoading(store, conf, todo', prev', grow', bm', subfold', prevRowbit', objfold')
  BY <1>1, <1>8, <1>9, <1>14 DEF IsLoading, L
<1>. QED
  BY <1>1, <1>4, <1>6, <1>13, <1>15, LoadGoesOn DEF L

LEMMA LastBitMatKeeps ==
  ASSUME IInv, Fits, LastBitMat
  PROVE  IInv'
<1>. DEFINE L == LinesOf(store, conf)
<1>1. /\ todo = << >> /\ pc = "load" /\ OnDisk /\ pc' = "dumped"
      /\ bm' = << >> /\ subfold' = NoSubfold /\ prevRowbit' = 1 /\ objfold' = {}
      /\ store' = store /\ conf' = conf /\ todo' = todo /\ prev' = prev /\ grow' = grow
      /\ got' = got /\ promise' = promise
      /\ DumpOut(objfold)
  BY DEF LastBitMat, OnDisk
<1>2. /\ L \in SUBSET IdLine /\ L # {} /\ Fitting(L, RowBytes(conf))
      /\ IsBuilt(L, todo, prev, grow, bm, RowBytes(conf)) /\ IsQueue(L, todo, prev)
      /\ IsFold(RowsBefore(L, prev), subfold, prevRowbit, IsCoded(conf))
      /\ objfold = IF IsPredicates(conf) THEN {} ELSE FoldedTo(L, prev)
      /\ IsFile(store, conf, dump, table, BitMatsBefore(L, prev))
      /\ Completed = RowCompleted(grow, prev, RowBytes(conf))
      /\ store \in Stores /\ conf \in Conf
  BY <1>1, InFile
<1>3. prev # NoLine
  <2>. HIDE DEF L
  <2>1. \A l \in L : ~Before(prev, l)
    BY <1>1, <1>2, NoneFollows
  <2>. QED
    BY <1>2, <2>1, LineTypes
<1>4. /\ IsRows(Append(bm, Completed), L, prev.bm, RowsIn(L, prev.bm), RowBytes(conf))
      /\ RowsIn(L, prev.bm) = RowsBefore(L, prev) \cup {prev.row}
      /\ {l.bm : l \in L} = BitMatsBefore(L, prev) \cup {prev.bm}
      /\ prev \in L /\ \A l \in L : ~Before(prev, l)
  <2>. HIDE DEF L
  <2>. QED
    BY <1>1, <1>2, <1>3, BuildLast
<1>5. ~IsPredicates(conf) => objfold = FoldedFor(L, prev.bm)
  <2>. HIDE DEF L
  <2>1. FoldedFor(L, prev.bm) = FoldedTo(L, prev)
    BY <1>2, <1>4, LastFolded
  <2>. QED
    BY <1>2, <2>1
<1>6. DataInv
  BY DEF IInv
<1>7. IsFile(store, conf, dump', table', BitMatsBefore(L, prev) \cup {prev.bm})
  BY <1>1, <1>2, <1>4, <1>5, <1>6, Dumps
<1>8. FileInv'
  BY <1>1, <1>4, <1>7 DEF FileInv, DumpedTo
<1>9. RestInv'
  BY <1>1, NoRows DEF RestInv
<1>10. IdleInv'
  <2>1. prev \in IdLine \cup {NoLine} /\ grow \in BuiltRow
    BY DEF IInv, IdleInv
  <2>2. subfold' = (IF IsCoded(conf) THEN NoRow ELSE {})
    BY <1>1, ConfIs DEF NoSubfold
  <2>. QED
    BY <1>1, <2>1, <2>2 DEF IdleInv
<1>11. DataInv' /\ LoadInv' /\ ListInv' /\ ReadInv'
  BY <1>1, <1>6 DEF DataInv, LoadInv, ListInv, ReadInv
<1>. QED
  BY <1>8, <1>9, <1>10, <1>11 DEF IInv

LEMMA ReturnKeeps ==
  ASSUME IInv, pc = "dumped", NEW g, NEW p, IsRead(conf, g, p), Return(g, p)
  PROVE  IInv'
<1>1. /\ got' = g /\ promise' = p /\ pc' = "read"
      /\ store' = store /\ conf' = conf /\ todo' = todo /\ prev' = prev /\ grow' = grow /\ bm' = bm
      /\ subfold' = subfold /\ prevRowbit' = prevRowbit /\ objfold' = objfold /\ dump' = dump /\ table' = table
  BY DEF Return, buildVars
<1>2. DataInv' /\ LoadInv' /\ ListInv'
  BY <1>1 DEF IInv, DataInv, LoadInv, ListInv
<1>3. FileInv'
  BY <1>1 DEF IInv, FileInv, DumpedTo
<1>4. ReadInv'
  BY <1>1 DEF ReadInv, HasRead, IsRead
<1>5. RestInv'
  BY <1>1, NoRows DEF IInv, RestInv
<1>6. IdleInv'
  BY <1>1 DEF IInv, IdleInv
<1>. QED
  BY <1>2, <1>3, <1>4, <1>5, <1>6 DEF IInv

\* The whole file was dumped.
LEMMA FileIsDumped ==
  ASSUME IInv, pc # "load"
  PROVE  store \in Stores /\ conf \in Conf /\ IsFile(store, conf, dump, table, {l.bm : l \in LinesOf(store, conf)})
BY DEF IInv, DataInv, FileInv, DumpedTo

LEMMA LoadBitMatKeeps ==
  ASSUME IInv, LoadBitMat
  PROVE  IInv'
<1>1. pc = "dumped" /\ pc # "load"
  BY DEF LoadBitMat
<1>2. PICK b \in 1 .. NumBitMats(conf.dim) :
        Return([bm |-> RowsAt(b), subfold |-> SubfoldAt(b), objfold |-> ObjfoldAt(b),
                num_triples |-> dump[Start(b)].value, whole |-> TRUE, turned |-> FALSE],
               Answer(LoadFromDumpFile(store, conf.dim, b), TripleCount(store, conf.dim, b), TRUE))
  BY DEF LoadBitMat
<1>. QED
  BY <1>1, <1>2, FileIsDumped, LoadsStored, ReturnKeeps

LEMMA LoadOneRowKeeps ==
  ASSUME IInv, LoadOneRow
  PROVE  IInv'
<1>1. pc = "dumped" /\ pc # "load"
  BY DEF LoadOneRow
<1>2. PICK b \in 1 .. NumBitMats(conf.dim) : \E r \in SubfoldAt(b) :
        LET row == RowAt(b, Cardinality({i \in SubfoldAt(b) : i <= r}))
        IN Return([bm |-> <<[rowid |-> r, data |-> row]>>, subfold |-> {r}, objfold |-> Bits(row),
                   num_triples |-> 0, whole |-> FALSE, turned |-> FALSE],
                  Answer(AddRow(store, conf.dim, b, r), 0, FALSE))
  BY DEF LoadOneRow
<1>3. PICK r \in SubfoldAt(b) :
        LET row == RowAt(b, Cardinality({i \in SubfoldAt(b) : i <= r}))
        IN Return([bm |-> <<[rowid |-> r, data |-> row]>>, subfold |-> {r}, objfold |-> Bits(row),
                   num_triples |-> 0, whole |-> FALSE, turned |-> FALSE],
                  Answer(AddRow(store, conf.dim, b, r), 0, FALSE))
  BY <1>2
<1>4. PICK row : row = RowAt(b, Cardinality({i \in SubfoldAt(b) : i <= r}))
  OBVIOUS
<1>. DEFINE g == [bm |-> <<[rowid |-> r, data |-> row]>>, subfold |-> {r}, objfold |-> Bits(row),
                  num_triples |-> 0, whole |-> FALSE, turned |-> FALSE]
            p == Answer(AddRow(store, conf.dim, b, r), 0, FALSE)
<1>5. Return(g, p)
  BY <1>4, <1>3
<1>6. IsRead(conf, g, p)
  BY <1>1, <1>4, FileIsDumped, LoadsRow
<1>. HIDE DEF g, p
<1>. QED
  BY <1>1, <1>5, <1>6, ReturnKeeps

LEMMA FilterAndLoadKeeps ==
  ASSUME IInv, FilterAndLoad
  PROVE  IInv'
<1>1. pc = "dumped" /\ pc # "load"
  BY DEF FilterAndLoad
<1>2. PICK b \in 1 .. NumBitMats(conf.dim), c \in 1 .. Width(conf.dim, "objfold"), bytes \in StaleBytes :
        LET st     == Filtered(b, AndArray(c, bytes))
            loaded == FilteredLoad(store, conf.dim, b, c)
        IN Return([bm |-> st.bm, subfold |-> st.subfold, objfold |-> st.objfold,
                   num_triples |-> CountTriples(st.bm), whole |-> FALSE, turned |-> FALSE],
                  Answer(loaded, Cardinality(loaded.bm), FALSE))
  BY DEF FilterAndLoad
<1>. DEFINE st == Filtered(b, AndArray(c, bytes))
            loaded == FilteredLoad(store, conf.dim, b, c)
            g == [bm |-> st.bm, subfold |-> st.subfold, objfold |-> st.objfold,
                  num_triples |-> CountTriples(st.bm), whole |-> FALSE, turned |-> FALSE]
            p == Answer(loaded, Cardinality(loaded.bm), FALSE)
<1>3. Return(g, p)
  BY <1>2
<1>4. IsRead(conf, g, p)
  BY <1>1, FileIsDumped, LoadsFiltered
<1>. HIDE DEF g, p
<1>. QED
  BY <1>1, <1>3, <1>4, ReturnKeeps

LEMMA UnfoldKeeps ==
  ASSUME IInv, pc \in {"read", "transposed"}, NEW axis, NEW rows, NEW mask, Unfold(axis, rows, mask),
         GoodRows(rows), Cells(rows) = SimpleUnfold(Cells(got.bm), axis, mask)
  PROVE  IInv'
<1>. DEFINE g == [got EXCEPT !.bm = rows]
            p == [promise EXCEPT !.bm = SimpleUnfold(promise.bm, axis, mask)]
<1>1. /\ got' = g /\ promise' = p /\ pc' = "unfolded"
      /\ store' = store /\ conf' = conf /\ todo' = todo /\ prev' = prev /\ grow' = grow /\ bm' = bm
      /\ subfold' = subfold /\ prevRowbit' = prevRowbit /\ objfold' = objfold /\ dump' = dump /\ table' = table
  BY DEF Unfold, buildVars
<1>2. InMemory(conf, got) /\ promise \in AnswerType /\ Cells(got.bm) = promise.bm
  BY DEF IInv, ReadInv, HasRead
<1>3. rows \in Seq(MatRow)
  BY DEF GoodRows, InOrder
<1>4. g \in MemType /\ g.bm = rows /\ g.turned = got.turned /\ g.whole = got.whole
  <2>. DEFINE M == Seq(MatRow)
  <2>1. got \in [bm : M, subfold : SUBSET Nat, objfold : SUBSET Nat, num_triples : Nat, whole : BOOLEAN, turned : BOOLEAN]
    BY <1>2 DEF InMemory, MemType
  <2>2. rows \in M
    BY <1>3
  <2>. HIDE DEF M
  <2>3. g \in [bm : M, subfold : SUBSET Nat, objfold : SUBSET Nat, num_triples : Nat, whole : BOOLEAN, turned : BOOLEAN]
        /\ g.bm = rows /\ g.turned = got.turned /\ g.whole = got.whole
    BY <2>1, <2>2
  <2>. QED
    BY <2>3 DEF MemType, M
<1>5. Cells(rows) \subseteq Cells(got.bm)
  BY DEF SimpleUnfold
<1>6. p \in AnswerType /\ p.bm = Cells(rows)
  <2>1. SimpleUnfold(promise.bm, axis, mask) \subseteq promise.bm
    BY DEF SimpleUnfold
  <2>. DEFINE x == SimpleUnfold(promise.bm, axis, mask)
  <2>2. x \in SUBSET (Nat \X Nat)
    BY <1>2, <2>1 DEF AnswerType
  <2>3. x = Cells(rows)
    BY <1>2
  <2>. HIDE DEF x
  <2>. QED
    BY <1>2, <2>2, <2>3 DEF AnswerType, x
<1>. HIDE DEF g, p
<1>7. InMemory(conf, g)
  <2>1. Cells(got.bm) \subseteq Id \X (1 .. TurnedWidth(conf, got.turned, "objfold"))
    BY <1>2 DEF InMemory
  <2>2. got.whole => Cells(got.bm) \subseteq (1 .. TurnedWidth(conf, got.turned, "subfold")) \X Id
    BY <1>2 DEF InMemory
  <2>. HIDE DEF Id
  <2>. QED
    BY <1>4, <1>5, <2>1, <2>2 DEF InMemory
<1>8. ReadInv'
  BY <1>1, <1>4, <1>6, <1>7 DEF ReadInv, HasRead
<1>9. DataInv' /\ LoadInv' /\ ListInv'
  BY <1>1 DEF IInv, DataInv, LoadInv, ListInv
<1>10. FileInv'
  BY <1>1 DEF IInv, FileInv, DumpedTo
<1>11. RestInv'
  BY <1>1, <1>4 DEF IInv, RestInv
<1>12. IdleInv'
  BY <1>1 DEF IInv, IdleInv
<1>. QED
  BY <1>8, <1>9, <1>10, <1>11, <1>12 DEF IInv

LEMMA UnfoldColumnsKeeps ==
  ASSUME IInv, UnfoldColumns
  PROVE  IInv'
<1>. DEFINE W == 1 .. Width(conf.dim, "objfold")
<1>1. pc = "read"
  BY DEF UnfoldColumns
<1>2. PICK mask \in SUBSET {CellOf(conf.dim, tr)[2] : tr \in store} \ {{}} :
        Unfold("objfold", UnfoldRows(got.bm, mask), mask)
  BY DEF UnfoldColumns
<1>3. store \in Stores /\ conf \in Conf
  BY DEF IInv, DataInv
<1>4. GoodRows(got.bm) /\ Cells(got.bm) \subseteq Id \X W
  <2>1. InMemory(conf, got) /\ ~got.turned
    BY <1>1 DEF IInv, ReadInv, HasRead
  <2>2. got.turned = FALSE
    BY <2>1 DEF InMemory, MemType
  <2>. QED
    BY <2>1, <2>2 DEF InMemory, TurnedWidth
<1>5. mask \in SUBSET W
  <2>1. \A l \in LinesOf(store, conf) : l.col \in W
    BY <1>3, FileLinesAre DEF WithinIds
  <2>. HIDE DEF W
  <2>2. ASSUME NEW tr \in store PROVE CellOf(conf.dim, tr)[2] \in W
    <3>1. Line(conf.dim, tr) \in LinesOf(store, conf)
      BY DEF LinesOf
    <3>2. Line(conf.dim, tr).col = CellOf(conf.dim, tr)[2]
      BY DEF Line
    <3>. QED
      BY <2>1, <3>1, <3>2
  <2>. QED
    BY <1>2, <2>2
<1>6. /\ GoodRows(UnfoldRows(got.bm, mask))
      /\ Cells(UnfoldRows(got.bm, mask)) = SimpleUnfold(Cells(got.bm), "objfold", mask)
  BY <1>3, <1>4, <1>5, ColumnsUnfolded
<1>. QED
  BY <1>1, <1>2, <1>6, UnfoldKeeps

LEMMA UnfoldByRowKeeps ==
  ASSUME IInv, UnfoldByRow
  PROVE  IInv'
<1>1. pc \in {"read", "transposed"}
  BY DEF UnfoldByRow
<1>2. PICK mask : Unfold("subfold", Kept(got.bm, {k \in DOMAIN got.bm : got.bm[k].rowid \in mask}), mask)
  BY DEF UnfoldByRow
<1>3. GoodRows(got.bm)
  BY <1>1 DEF IInv, ReadInv, HasRead, InMemory
<1>. DEFINE kept == Kept(got.bm, {k \in DOMAIN got.bm : got.bm[k].rowid \in mask})
<1>4. GoodRows(kept) /\ Cells(kept) = SimpleUnfold(Cells(got.bm), "subfold", mask)
  BY <1>3, RowsUnfolded
<1>. HIDE DEF kept
<1>. QED
  BY <1>1, <1>2, <1>4, UnfoldKeeps DEF kept

LEMMA ListTriplesKeeps ==
  ASSUME IInv, ListTriples
  PROVE  IInv'
<1>. DEFINE cells == Cells(got.bm)
            L == ListOf(got)
            bytes == ListBytes(conf, got.turned)
            p == [promise EXCEPT !.bm = {<<c[2], c[1]>> : c \in promise.bm}]
<1>1. /\ pc \in {"read", "unfolded"} /\ got.whole /\ got.bm # << >> /\ pc' = "list"
      /\ todo' = Sorted(L) /\ prev' = NoLine /\ grow' = NoRow /\ bm' = << >> /\ promise' = p
      /\ store' = store /\ conf' = conf /\ got' = got
      /\ subfold' = subfold /\ prevRowbit' = prevRowbit /\ objfold' = objfold /\ dump' = dump /\ table' = table
  BY DEF ListTriples, ListOf
<1>2. conf \in Conf /\ InMemory(conf, got) /\ promise \in AnswerType /\ cells = promise.bm
  BY <1>1 DEF IInv, DataInv, ReadInv, HasRead
<1>3. L \in SUBSET IdLine /\ IsFiniteSet(L)
  BY <1>1, <1>2, ListIs
<1>. HIDE DEF L, bytes
<1>4. IsBuilt(L, todo', prev', grow', bm', bytes)
  BY <1>1, <1>3, BuildBegins
<1>5. p \in AnswerType /\ p.bm = Transposed(cells)
  <2>. DEFINE x == {<<c[2], c[1]>> : c \in promise.bm}
  <2>1. \A c \in promise.bm : c[1] \in Nat /\ c[2] \in Nat
    BY <1>2 DEF AnswerType
  <2>2. x \in SUBSET (Nat \X Nat)
    BY <2>1
  <2>3. x = Transposed(cells)
    BY <1>2 DEF Transposed
  <2>. HIDE DEF x
  <2>. QED
    BY <1>2, <2>2, <2>3 DEF AnswerType, x
<1>. HIDE DEF p, cells
<1>6. ListInv'
  BY <1>1, <1>4, <1>5 DEF ListInv, IsListing, L, bytes, cells
<1>7. ReadInv'
  BY <1>1, <1>2, <1>5 DEF ReadInv, HasRead
<1>8. DataInv' /\ LoadInv' /\ RestInv'
  BY <1>1 DEF IInv, DataInv, LoadInv, RestInv
<1>9. FileInv'
  BY <1>1 DEF IInv, FileInv, DumpedTo
<1>10. IdleInv'
  <2>1. NoRow \in BuiltRow
    BY DEF NoRow, BuiltRow
  <2>. QED
    BY <1>1, <2>1 DEF IInv, IdleInv
<1>. QED
  BY <1>6, <1>7, <1>8, <1>9, <1>10 DEF IInv

LEMMA ListNothingKeeps ==
  ASSUME IInv, ListNothing
  PROVE  IInv'
<1>1. /\ pc \in {"read", "unfolded"} /\ pc' = "crash"
      /\ store' = store /\ conf' = conf /\ todo' = todo /\ prev' = prev /\ grow' = grow /\ bm' = bm
      /\ subfold' = subfold /\ prevRowbit' = prevRowbit /\ objfold' = objfold /\ dump' = dump /\ table' = table
      /\ got' = got /\ promise' = promise
  BY DEF ListNothing, buildVars
<1>2. DataInv' /\ LoadInv' /\ ListInv' /\ IdleInv'
  BY <1>1 DEF IInv, DataInv, LoadInv, ListInv, IdleInv
<1>3. FileInv'
  BY <1>1 DEF IInv, FileInv, DumpedTo
<1>4. ReadInv' /\ RestInv'
  BY <1>1 DEF IInv, ReadInv, HasRead, RestInv
<1>. QED
  BY <1>2, <1>3, <1>4 DEF IInv

LEMMA LastTripleKeeps ==
  ASSUME IInv, LastTriple
  PROVE  IInv'
<1>. DEFINE L == ListOf(got)
            bytes == ListBytes(conf, got.turned)
            rows == Append(bm, Completed)
            g == [got EXCEPT !.bm = rows, !.turned = ~@]
<1>1. /\ pc = "list" /\ todo = << >> /\ bm' = rows /\ got' = g /\ pc' = "transposed"
      /\ store' = store /\ conf' = conf /\ todo' = todo /\ prev' = prev /\ grow' = grow
      /\ subfold' = subfold /\ prevRowbit' = prevRowbit /\ objfold' = objfold /\ dump' = dump /\ table' = table
      /\ promise' = promise
  BY DEF LastTriple
<1>2. /\ L \in SUBSET IdLine /\ L # {} /\ (\A l \in L : l.bm = 1) /\ Fitting(L, bytes)
      /\ IsBuilt(L, todo, prev, grow, bm, bytes) /\ IsQueue(L, todo, prev)
      /\ Completed = RowCompleted(grow, prev, bytes)
      /\ conf \in Conf /\ InMemory(conf, got) /\ got.whole /\ got.turned \in BOOLEAN
      /\ promise \in AnswerType /\ promise.bm = Transposed(Cells(got.bm))
  BY <1>1, InList
<1>. HIDE DEF L
<1>3. prev # NoLine
  <2>1. \A l \in L : ~Before(prev, l)
    BY <1>1, <1>2, NoneFollows
  <2>. QED
    BY <1>2, <2>1, LineTypes
<1>4. IsRows(rows, L, 1, RowsIn(L, 1), bytes)
  <2>1. /\ IsRows(Append(bm, RowCompleted(grow, prev, bytes)), L, prev.bm, RowsIn(L, prev.bm), bytes)
        /\ prev \in L
    BY <1>1, <1>2, <1>3, BuildLast
  <2>. QED
    BY <1>2, <2>1
<1>5. AreRows(rows, bytes)
  BY <1>4, RowsAreWide
<1>. HIDE DEF rows
<1>6. /\ InMemory(conf, g) /\ Cells(rows) = Transposed(Cells(got.bm)) /\ g.bm = rows
  BY <1>2, <1>4, ListLoaded DEF L
<1>7. g.turned = ~got.turned
  BY <1>2 DEF InMemory, MemType
<1>. HIDE DEF g
<1>8. ReadInv'
  BY <1>1, <1>2, <1>6 DEF ReadInv, HasRead
<1>9. RestInv'
  <2>1. (~g.turned) = got.turned
    BY <1>2, <1>7
  <2>. QED
    BY <1>1, <1>5, <2>1 DEF RestInv
<1>10. DataInv' /\ LoadInv' /\ ListInv' /\ IdleInv'
  BY <1>1 DEF IInv, DataInv, LoadInv, ListInv, IdleInv
<1>11. FileInv'
  BY <1>1 DEF IInv, FileInv, DumpedTo
<1>. QED
  BY <1>8, <1>9, <1>10, <1>11 DEF IInv

LEMMA NothingChanges ==
  ASSUME IInv, UNCHANGED vars
  PROVE  IInv'
<1>1. /\ store' = store /\ conf' = conf /\ todo' = todo /\ prev' = prev /\ grow' = grow /\ bm' = bm
      /\ subfold' = subfold /\ prevRowbit' = prevRowbit /\ objfold' = objfold /\ dump' = dump /\ table' = table
      /\ got' = got /\ promise' = promise /\ pc' = pc
  BY DEF vars, buildVars
<1>2. DataInv' /\ LoadInv' /\ ListInv' /\ IdleInv'
  BY <1>1 DEF IInv, DataInv, LoadInv, ListInv, IdleInv
<1>3. FileInv'
  BY <1>1 DEF IInv, FileInv, DumpedTo
<1>4. ReadInv' /\ RestInv'
  BY <1>1 DEF IInv, ReadInv, HasRead, RestInv
<1>. QED
  BY <1>2, <1>3, <1>4 DEF IInv

LEMMA NextKeeps ==
  ASSUME IInv, Fits, [Next]_vars
  PROVE  IInv'
<1>1. CASE FirstLine     BY <1>1, FirstLineKeeps
<1>2. CASE SameRow       BY <1>2, SameRowKeeps
<1>3. CASE NextRow       BY <1>3, NextRowKeeps
<1>4. CASE NextBitMat    BY <1>4, NextBitMatKeeps
<1>5. CASE LastBitMat    BY <1>5, LastBitMatKeeps
<1>6. CASE LoadBitMat    BY <1>6, LoadBitMatKeeps
<1>7. CASE LoadOneRow    BY <1>7, LoadOneRowKeeps
<1>8. CASE FilterAndLoad BY <1>8, FilterAndLoadKeeps
<1>9. CASE UnfoldColumns BY <1>9, UnfoldColumnsKeeps
<1>10. CASE UnfoldByRow  BY <1>10, UnfoldByRowKeeps
<1>11. CASE ListTriples  BY <1>11, ListTriplesKeeps
<1>12. CASE ListNothing  BY <1>12, ListNothingKeeps
<1>13. CASE LastTriple   BY <1>13, LastTripleKeeps
<1>14. CASE UNCHANGED vars BY <1>14, NothingChanges
<1>. QED
  BY <1>1, <1>2, <1>3, <1>4, <1>5, <1>6, <1>7, <1>8, <1>9, <1>10, <1>11, <1>12, <1>13, <1>14 DEF Next

----------------------------------------------------------------------------
(* What the loader promises, in every behaviour whose offsets fit.         *)

\* Loading, reading back, unfolding and transposing keep the invariant: all theorems
\* on the loader are about files whose offsets have room in the table.
THEOREM LoaderInvariant == Spec /\ []Fits => []IInv
<1>1. Init => IInv
  BY InitHolds
<1>2. IInv /\ Fits /\ [Next]_vars => IInv'
  BY NextKeeps
<1>. QED
  BY <1>1, <1>2, PTL DEF Spec

\* The rows are of the width they are built with.
LEMMA RowsInMemory ==
  ASSUME IInv
  PROVE  AreRows(bm, BuiltBytes)
<1>1. CASE pc = "load"
  <2>1. IsBuilt(LinesOf(store, conf), todo, prev, grow, bm, RowBytes(conf)) /\ BuiltBytes = RowBytes(conf)
    BY <1>1, InFile, BuiltBytesAre
  <2>. QED
    BY <2>1, RowsAreWide DEF IsBuilt
<1>2. CASE pc = "list"
  <2>1. /\ IsBuilt(ListOf(got), todo, prev, grow, bm, ListBytes(conf, got.turned))
        /\ BuiltBytes = ListBytes(conf, got.turned)
    BY <1>2, InList, BuiltBytesAre
  <2>. QED
    BY <2>1, RowsAreWide DEF IsBuilt
<1>3. CASE pc = "dumped"
  BY <1>3, NoRows DEF IInv, RestInv
<1>4. CASE pc \notin {"load", "list", "dumped"}
  <2>1. got.turned \in BOOLEAN
    BY <1>4 DEF IInv, ReadInv, HasRead, InMemory, MemType
  <2>2. BuiltBytes = ListBytes(conf, ~got.turned)
    BY <1>4, <2>1, BuiltBytesAre
  <2>. QED
    BY <1>4, <2>2 DEF IInv, RestInv
<1>. QED
  BY <1>1, <1>2, <1>3, <1>4

LEMMA TypesHold ==
  ASSUME IInv
  PROVE  TypeOK
<1>1. store \in Stores /\ conf \in Conf
  BY DEF IInv, DataInv
<1>2. store \subseteq Id \X Id \X Id
  <2>1. store \subseteq (1 .. NumSubs) \X (1 .. NumPreds) \X (1 .. NumObjs)
    BY <1>1, StoresAssumption
  <2>2. 1 .. NumSubs \subseteq Id /\ 1 .. NumPreds \subseteq Id /\ 1 .. NumObjs \subseteq Id
    BY SizesAssumption DEF Id
  <2>. HIDE DEF Id
  <2>. QED
    BY <2>1, <2>2
<1>3. todo \in Seq([bm : Nat, row : Nat, col : Nat])
  <2>1. ASSUME NEW L \in SUBSET IdLine, IsQueue(L, todo, prev) PROVE todo \in Seq([bm : Nat, row : Nat, col : Nat])
    <3>1. todo \in Seq(L) /\ L \subseteq LineType
      BY <2>1, LineTypes DEF IsQueue
    <3>2. \A i \in 1 .. Len(todo) : todo[i] \in LineType
      BY <3>1
    <3>. HIDE DEF LineType
    <3>3. todo \in Seq(LineType)
      BY <3>1, <3>2, SeqOver
    <3>. QED
      BY <3>3 DEF LineType
  <2>2. CASE pc = "load"
    BY <2>1, <2>2, InFile
  <2>3. CASE pc = "list"
    BY <2>1, <2>3, InList
  <2>4. CASE pc \notin {"load", "list"}
    BY <2>4 DEF IInv, RestInv
  <2>. QED
    BY <2>2, <2>3, <2>4
<1>4. prev \in [bm : Nat, row : Nat, col : Nat] /\ grow \in BuiltRow
  BY LineTypes DEF IInv, IdleInv, LineType
<1>5. bm \in Seq([rowid : Nat, data : BuiltRow])
  <2>1. bm \in Seq(MatRow) /\ \A k \in 1 .. Len(bm) : \E ids : IsRow(bm[k].data, ids, 8 * BuiltBytes)
    BY RowsInMemory DEF AreRows
  <2>2. \A k \in 1 .. Len(bm) : bm[k].data \in BuiltRow
    BY <2>1, RowIsBuilt
  <2>3. \A k \in 1 .. Len(bm) : bm[k] \in MatRow
    BY <2>1
  <2>. HIDE DEF BuiltRow
  <2>4. \A k \in 1 .. Len(bm) : bm[k] \in [rowid : Nat, data : BuiltRow]
    <3>1. TAKE k \in 1 .. Len(bm)
    <3>2. bm[k] \in [rowid : Id, data : Row] /\ bm[k].data \in BuiltRow
      BY <2>2, <2>3 DEF MatRow
    <3>3. bm[k].rowid \in Nat
      BY <3>2 DEF Id
    <3>. HIDE DEF Row
    <3>4. bm[k] = [rowid |-> bm[k].rowid, data |-> bm[k].data]
      BY <3>2
    <3>5. [rowid |-> bm[k].rowid, data |-> bm[k].data] \in [rowid : Nat, data : BuiltRow]
      BY <3>2, <3>3
    <3>. QED
      BY <3>4, <3>5
  <2>. QED
    BY <2>1, <2>4, SeqOver
<1>6. IF Compressed THEN subfold \in BuiltRow ELSE subfold \subseteq Nat
  <2>1. NoRow \in BuiltRow
    BY DEF NoRow, BuiltRow
  <2>2. CASE pc = "load"
    <3>. DEFINE R == RowsBefore(LinesOf(store, conf), prev)
    <3>1. IsFold(R, subfold, prevRowbit, IsCoded(conf)) /\ LinesOf(store, conf) \in SUBSET IdLine
      BY <2>2, InFile
    <3>2. R \subseteq Nat
      BY <3>1, LineTypes DEF RowsBefore, RowsIn
    <3>. HIDE DEF R
    <3>. QED
      BY <2>1, <3>1, <3>2, ConfIs, RowIsBuilt DEF IsFold
  <2>3. CASE pc # "load"
    BY <2>1, <2>3, ConfIs DEF IInv, IdleInv
  <2>. QED
    BY <2>2, <2>3
<1>7. objfold \subseteq Nat
  <2>1. CASE pc = "load"
    <3>1. objfold \subseteq FoldedTo(LinesOf(store, conf), prev) /\ LinesOf(store, conf) \in SUBSET IdLine
      BY <2>1, InFile
    <3>. QED
      BY <3>1, LineTypes DEF FoldedTo
  <2>2. CASE pc # "load"
    BY <2>2 DEF IInv, IdleInv
  <2>. QED
    BY <2>1, <2>2
<1>8. table \in [1 .. NumBitMats(conf.dim) -> Nat]
  BY DEF IInv, FileInv, IsFile
<1>. QED
  BY <1>1, <1>2, <1>3, <1>4, <1>5, <1>6, <1>7, <1>8 DEF TypeOK

LEMMA CanonicalHolds ==
  ASSUME IInv
  PROVE  RowsCanonical
<1>1. ASSUME NEW k \in DOMAIN bm PROVE bm[k].data = Compress(Bits(bm[k].data), 8 * BuiltBytes)
  <2>1. bm \in Seq(MatRow) /\ \A i \in 1 .. Len(bm) : \E ids : IsRow(bm[i].data, ids, 8 * BuiltBytes)
    BY RowsInMemory DEF AreRows
  <2>2. PICK ids : IsRow(bm[k].data, ids, 8 * BuiltBytes)
    BY <2>1
  <2>. QED
    BY <2>2, RowIsCanonical
<1>2. ASSUME NEW i \in DOMAIN dump, dump[i].coded
      PROVE  \/ dump[i].value = Compress(Bits(dump[i].value), 8 * SubjectBytes)
             \/ dump[i].value = Compress(Bits(dump[i].value), 8 * ObjectBytes)
  <2>1. IsFields(conf, dump)
    BY DEF IInv, FileInv, IsFile
  <2>2. i \in 1 .. Len(dump)
    BY <2>1 DEF IsFields
  <2>3. PICK ids : IsRow(dump[i].value, ids, 8 * RowBytes(conf)) \/ IsRow(dump[i].value, ids, 8 * FoldBytes(conf))
    BY <1>2, <2>1, <2>2 DEF IsFields, IsCodedField
  <2>. QED
    BY <2>3, RowIsCanonical, ConfIs
<1>. QED
  BY <1>1, <1>2 DEF RowsCanonical

LEMMA AnswersHold ==
  ASSUME IInv
  PROVE  ReadsStored /\ UnfoldsCells /\ TransposesCells
<1>1. ReadsStored
  BY DEF IInv, ReadInv, HasRead, ReadsStored
<1>2. UnfoldsCells
  BY DEF IInv, ReadInv, HasRead, UnfoldsCells
<1>3. TransposesCells
  <2>1. SUFFICES ASSUME pc = "transposed"
                 PROVE  /\ Cells(got.bm) = promise.bm
                        /\ \A k, l \in DOMAIN got.bm : k < l => got.bm[k].rowid < got.bm[l].rowid
    BY DEF TransposesCells
  <2>2. Cells(got.bm) = promise.bm /\ GoodRows(got.bm)
    BY <2>1 DEF IInv, ReadInv, HasRead, InMemory
  <2>. QED
    BY <2>2 DEF GoodRows, InOrder
<1>. QED
  BY <1>1, <1>2, <1>3

\* The types of the loader's state, among them that no run of a row is empty
\* or wraps around.
THEOREM LoaderTypes == Spec /\ []Fits => []TypeOK
<1>1. IInv => TypeOK
  BY TypesHold
<1>. QED
  BY <1>1, LoaderInvariant, PTL

\* A row put together by map_to_row_wo_dgap_vertical and concatenate_comp_arr,
\* and a fold that is dumped, is the row that dgap_compress_new gives.
THEOREM RowsAreCanonical == Spec /\ []Fits => []RowsCanonical
<1>1. IInv => RowsCanonical
  BY CanonicalHolds
<1>. QED
  BY <1>1, LoaderInvariant, PTL

\* load_from_dump_file, load_one_row and filter_and_load_bitmat return what Store
\* says of the data that was loaded.
THEOREM ReadsWhatIsStored == Spec /\ []Fits => []ReadsStored
<1>1. IInv => ReadsStored
  BY AnswersHold
<1>. QED
  BY <1>1, LoaderInvariant, PTL

\* simple_unfold on gap-encoded rows deletes the cells that it deletes from a set.
THEOREM UnfoldsTheCells == Spec /\ []Fits => []UnfoldsCells
<1>1. IInv => UnfoldsCells
  BY AnswersHold
<1>. QED
  BY <1>1, LoaderInvariant, PTL

\* bitmat2 is the transposed bitmat with its rows in order, and its reload is the
\* bitmat again.
THEOREM TransposesTheCells == Spec /\ []Fits => []TransposesCells
<1>1. IInv => TransposesCells
  BY AnswersHold
<1>. QED
  BY <1>1, LoaderInvariant, PTL
=============================================================================
